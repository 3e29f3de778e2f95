--------------------------- MODULE FatReadProofs ----------------------------
(***************************************************************************)
(* Any number of threads, any calls, any image: the shared cursor never    *)
(* puts a byte in the wrong place, a read that succeeds is complete, and   *)
(* what the callers see is one whole answer at a time (FatReadAbs).        *)
(*                                                                         *)
(* The argument: the lock is exclusive, so nobody moves the cursor between *)
(* a thread's seek and its reads (CursorIsMine); a region never crosses a  *)
(* cluster (Want), so consecutive image bytes are consecutive bytes of the *)
(* node there (LocAdvances); and read_at's `pos` is always `off` plus what *)
(* it handed over (InStep).  Nothing is left out because read_at never     *)
(* passes its end (NotPast), and because a directory has at each cluster   *)
(* what that many turns of its loop give (InTurn): the chain of partial    *)
(* results of the fold in ReadDirResult.                                   *)
(***************************************************************************)
EXTENDS FatRead, FoldLemmas, SequenceTheorems, TLAPS

\* A thread that is about to read has a cluster to read from.
HasCluster ==
  \A t \in Threads : pc[t] \in {"lock", "seek", "fill"} =>
    /\ pos[t] < End(call[t])
    /\ pos[t] \div ClusterSize < Len(call[t].chain)

\* read_fill never passes the end of its buffer.
WithinWant == \A t \in Threads : pc[t] = "fill" => filled[t] <= Want(t)

\* read_at's position is where its bytes end.
InStep ==
  \A t \in Threads : call[t].op = "read_at" =>
    /\ pc[t] \in {"next", "lock", "seek"} => call[t].off + Len(out[t]) = pos[t]
    /\ pc[t] = "fill" => call[t].off + Len(out[t]) = pos[t] + filled[t]

IInv ==
  /\ TypeOK /\ LockIsExclusive /\ HasCluster /\ WithinWant /\ CursorIsMine
  /\ InStep /\ BytesInPlace

-----------------------------------------------------------------------------
\* Division by the cluster size, as the solvers need it.
LEMMA DivMod ==
  ASSUME NEW p \in Nat
  PROVE  /\ p \div ClusterSize \in Nat
         /\ p % ClusterSize \in Nat
         /\ p % ClusterSize < ClusterSize
         /\ p = ClusterSize * (p \div ClusterSize) + (p % ClusterSize)
  BY ReadAssumption

\* Within a cluster, the quotient stays and the remainder grows.
LEMMA SameCluster ==
  ASSUME NEW p \in Nat, NEW x \in Nat, (p % ClusterSize) + x < ClusterSize
  PROVE  /\ (p + x) \div ClusterSize = p \div ClusterSize
         /\ (p + x) % ClusterSize = (p % ClusterSize) + x
<1> DEFINE q == p \div ClusterSize
           r == p % ClusterSize
<1>1. /\ q \in Nat /\ r \in Nat /\ p = ClusterSize * q + r
      /\ ClusterSize \in Nat /\ ClusterSize > 0 /\ r + x < ClusterSize
  BY DivMod, ReadAssumption
<1> HIDE DEF q, r
<1>2. r + x \in Nat /\ p + x = ClusterSize * q + (r + x)
  BY <1>1
<1>3. (p + x) \div ClusterSize = q /\ (p + x) % ClusterSize = r + x
  BY <1>1, <1>2, DivUnique
<1> QED
  BY <1>3 DEF q, r

\* The product of natural numbers is one.
LEMMA Product == ASSUME NEW a \in Nat, NEW b \in Nat PROVE a * b \in Nat
  OBVIOUS

\* The image offset of a byte that some cluster of the chain holds.
LEMMA LocNat ==
  ASSUME NEW c \in Call, NEW p \in Nat, p \div ClusterSize < Len(c.chain)
  PROVE  /\ cluster_offset(c.chain[(p \div ClusterSize) + 1]) \in Nat
         /\ Loc(c, p) \in Nat
<1> DEFINE q == p \div ClusterSize
           r == p % ClusterSize
<1>1. q \in Nat /\ r \in Nat /\ q < Len(c.chain)
  BY DivMod
<1> HIDE DEF q, r
<1> DEFINE k == c.chain[q + 1]
<1>2. k \in Cluster
  <2>1. c.chain \in Seq(Cluster)
    BY DEF Call
  <2>2. q + 1 \in 1 .. Len(c.chain)
    BY <1>1, <2>1
  <2> QED
    BY <2>1, <2>2
<1>3. k - 2 \in Nat
  BY <1>2 DEF Cluster
<1> HIDE DEF k
<1>4. (k - 2) * ClusterSize \in Nat
  BY <1>3, Product, ReadAssumption
<1>5. cluster_offset(k) \in Nat
  BY <1>4, ReadAssumption DEF cluster_offset
<1>6. cluster_offset(k) + r \in Nat
  BY <1>1, <1>5
<1> QED
  BY <1>5, <1>6 DEF k, q, r, Loc

\* Consecutive bytes of a node are consecutive in the image, inside a cluster
\* (fs.rs, read_at: one region is `cluster_size - intra` bytes at most).
LEMMA LocAdvances ==
  ASSUME NEW c \in Call, NEW p \in Nat, NEW x \in Nat,
         p \div ClusterSize < Len(c.chain),
         (p % ClusterSize) + x < ClusterSize
  PROVE  Loc(c, p + x) = Loc(c, p) + x
<1> DEFINE base == cluster_offset(c.chain[(p \div ClusterSize) + 1])
<1>1. Loc(c, p) = base + (p % ClusterSize)
  BY DEF Loc
<1>2. Loc(c, p + x) = base + ((p % ClusterSize) + x)
  BY SameCluster DEF Loc
<1>3. base \in Nat /\ p % ClusterSize \in Nat
  BY LocNat, DivMod
<1> HIDE DEF base
<1> QED
  BY <1>1, <1>2, <1>3

\* What is left to read of a region is positive and inside one cluster.
LEMMA WantNat ==
  ASSUME TypeOK, NEW t \in Threads, pos[t] < End(call[t])
  PROVE  /\ Want(t) \in Nat
         /\ Want(t) > 0
         /\ (pos[t] % ClusterSize) + Want(t) <= ClusterSize
<1>1. pos[t] \in Nat /\ call[t] \in Call
  BY DEF TypeOK
<1>2. End(call[t]) \in Nat
  <2>1. /\ call[t].off \in Nat /\ call[t].len \in Nat /\ call[t].total \in Nat
        /\ Len(call[t].chain) \in Nat
    BY <1>1 DEF Call
  <2> QED
    BY <2>1, Product, ReadAssumption DEF End, LesserOf
<1>3. /\ pos[t] % ClusterSize \in Nat
      /\ pos[t] % ClusterSize < ClusterSize
      /\ ClusterSize \in Nat
  BY <1>1, DivMod, ReadAssumption
<1> DEFINE e == End(call[t])  r == pos[t] % ClusterSize
<1> HIDE DEF e, r
<1>4. /\ e \in Nat /\ r \in Nat /\ r < ClusterSize /\ ClusterSize \in Nat
      /\ pos[t] \in Nat /\ pos[t] < e
      /\ Want(t) = LesserOf(e - pos[t], ClusterSize - r)
  BY <1>1, <1>2, <1>3 DEF e, r, Want
<1>5. /\ Want(t) \in Nat /\ Want(t) > 0 /\ r + Want(t) <= ClusterSize
  BY <1>4 DEF LesserOf
<1> QED
  BY <1>5 DEF r

\* A slice of the image is the offsets from where it starts.
LEMMA SliceOffsets ==
  ASSUME NEW o \in Nat, NEW n \in Nat, o + n <= ImageLen
  PROVE  /\ Slice(o, n) \in Seq(Nat)
         /\ Len(Slice(o, n)) = n
         /\ \A k \in 1 .. n : Slice(o, n)[k] = o + k - 1
<1>1. LesserOf(n, IF ImageLen > o THEN ImageLen - o ELSE 0) = n
  BY ReadAssumption DEF LesserOf
<1>2. Slice(o, n) = [k \in 1 .. n |-> o + k - 1]
  BY <1>1 DEF Slice
<1>3. \A k \in 1 .. n : o + k - 1 \in Nat
  OBVIOUS
<1> QED
  BY <1>2, <1>3

-----------------------------------------------------------------------------
\* The steps that move a thread without touching the data: to take the lock,
\* to give it back on an error or a panic, to go on or to finish.
LEMMA MovesKeepIInv ==
  ASSUME IInv, NEW t \in Threads,
         NextRegion(t) \/ Finish(t) \/ Lock(t) \/ LockPoisoned(t)
           \/ Fail(t) \/ Panic(t)
  PROVE  IInv'
<1>1. UNCHANGED <<call, pos, out, filled, cursor>>
  BY DEF NextRegion, Finish, Lock, LockPoisoned, Fail, Panic
<1>2. \A u \in Threads \ {t} : pc'[u] = pc[u]
  BY DEF IInv, TypeOK, NextRegion, Finish, Lock, LockPoisoned, Fail, Panic, Goto
<1>3. pc'[t] \in {"lock", "seek", "ok", "failed", "dead"}
  BY DEF IInv, TypeOK, NextRegion, Finish, Lock, LockPoisoned, Fail, Panic, Goto
<1>4. TypeOK'
  BY <1>1 DEF IInv, TypeOK, NextRegion, Finish, Lock, LockPoisoned, Fail, Panic,
              Goto, Labels
<1>5. LockIsExclusive'
  BY DEF IInv, TypeOK, LockIsExclusive, NextRegion, Finish, Lock, LockPoisoned,
         Fail, Panic, Goto, Holding
<1>6. HasCluster'
  <2>1. /\ pc'[t] = "lock" => HasRegion(t)
        /\ pc'[t] = "seek" => pc[t] = "lock"
    BY DEF IInv, TypeOK, NextRegion, Finish, Lock, LockPoisoned, Fail, Panic, Goto
  <2> QED
    BY <1>1, <1>2, <1>3, <2>1 DEF IInv, HasCluster, HasRegion
<1>7. WithinWant'
  BY <1>1, <1>2, <1>3 DEF IInv, WithinWant, Want
<1>8. CursorIsMine'
  BY <1>1, <1>2, <1>3 DEF IInv, CursorIsMine, Region
<1>9. InStep'
  <2>1. /\ pc'[t] = "lock" => pc[t] = "next"
        /\ pc'[t] = "seek" => pc[t] = "lock"
    BY DEF IInv, TypeOK, NextRegion, Finish, Lock, LockPoisoned, Fail, Panic, Goto
  <2> QED
    BY <1>1, <1>2, <1>3, <2>1 DEF IInv, InStep
<1>10. BytesInPlace'
  BY <1>1 DEF IInv, BytesInPlace
<1> QED
  BY <1>4, <1>5, <1>6, <1>7, <1>8, <1>9, <1>10 DEF IInv

\* A seek puts the cursor where its thread wants it; nobody else is reading.
LEMMA SeekKeepsIInv ==
  ASSUME IInv, NEW t \in Threads, Seek(t)
  PROVE  IInv'
<1>1. /\ UNCHANGED <<call, pos, out, owner, poisoned>>
      /\ cursor' = Region(t)
      /\ filled' = [filled EXCEPT ![t] = 0]
      /\ pc' = [pc EXCEPT ![t] = "fill"]
      /\ pc[t] = "seek"
  BY DEF Seek, Goto
<1>2. \A u \in Threads \ {t} : /\ pc'[u] = pc[u] /\ pc[u] # "fill"
                             /\ filled'[u] = filled[u]
  BY <1>1 DEF IInv, TypeOK, LockIsExclusive, Holding
<1>3. pc'[t] = "fill" /\ filled'[t] = 0
  BY <1>1 DEF IInv, TypeOK
<1>4. pos[t] < End(call[t]) /\ pos[t] \div ClusterSize < Len(call[t].chain)
  BY <1>1 DEF IInv, HasCluster
<1>5. Region(t) \in Nat /\ Region(t)' = Region(t)
  BY <1>1, <1>4, LocNat DEF IInv, TypeOK, Region
<1>6. TypeOK'
  BY <1>1, <1>5 DEF IInv, TypeOK, Labels
<1>7. LockIsExclusive'
  BY <1>1, <1>2, <1>3 DEF IInv, LockIsExclusive, Holding
<1>8. HasCluster'
  BY <1>1, <1>2, <1>4 DEF IInv, HasCluster
<1>9. WithinWant'
  <2>1. Want(t) \in Nat /\ Want(t)' = Want(t)
    BY <1>1, <1>4, WantNat DEF IInv, Want
  <2> QED
    BY <1>2, <1>3, <2>1 DEF WithinWant
<1>10. CursorIsMine'
  BY <1>1, <1>2, <1>3, <1>5 DEF CursorIsMine
<1>11. InStep'
  BY <1>1, <1>2, <1>3 DEF IInv, InStep, TypeOK
<1>12. BytesInPlace'
  BY <1>1 DEF IInv, BytesInPlace
<1> QED
  BY <1>6, <1>7, <1>8, <1>9, <1>10, <1>11, <1>12 DEF IInv

\* What a concatenation holds, in the form the next lemma needs.
LEMMA Concatenation ==
  ASSUME NEW a \in Seq(Nat), NEW b \in Seq(Nat), NEW n \in Nat, Len(b) = n
  PROVE  /\ a \o b \in Seq(Nat)
         /\ Len(a \o b) = Len(a) + n
         /\ \A k \in 1 .. Len(a) : (a \o b)[k] = a[k]
         /\ \A m \in 1 .. n : (a \o b)[Len(a) + m] = b[m]
<1>1. Len(a) \in Nat
  OBVIOUS
<1>2. /\ a \o b \in Seq(Nat)
      /\ Len(a \o b) = Len(a) + Len(b)
      /\ \A i \in 1 .. Len(a) + Len(b) :
           (a \o b)[i] = IF i <= Len(a) THEN a[i] ELSE b[i - Len(a)]
  BY ConcatProperties
<1>3. ASSUME NEW k \in 1 .. Len(a) PROVE (a \o b)[k] = a[k]
  BY <1>1, <1>2
<1>4. ASSUME NEW m \in 1 .. n PROVE (a \o b)[Len(a) + m] = b[m]
  <2>1. /\ Len(a) + m \in 1 .. Len(a) + Len(b)
        /\ ~(Len(a) + m <= Len(a))
        /\ (Len(a) + m) - Len(a) = m
    BY <1>1
  <2> QED
    BY <1>2, <2>1
<1> QED
  BY <1>2, <1>3, <1>4

\* Appending a slice of the image to what was read before.
LEMMA AppendSlice ==
  ASSUME NEW o \in Seq(Nat), NEW cur \in Nat, NEW n \in Nat,
         cur + n <= ImageLen
  PROVE  /\ o \o Slice(cur, n) \in Seq(Nat)
         /\ Len(o \o Slice(cur, n)) = Len(o) + n
         /\ \A k \in 1 .. Len(o) : (o \o Slice(cur, n))[k] = o[k]
         /\ \A m \in 1 .. n : (o \o Slice(cur, n))[Len(o) + m] = cur + m - 1
<1> DEFINE s == Slice(cur, n)
<1>1. s \in Seq(Nat) /\ Len(s) = n /\ \A m \in 1 .. n : s[m] = cur + m - 1
  BY SliceOffsets
<1> HIDE DEF s
<1> QED
  BY <1>1, Concatenation, SMTT(60) DEF s

\* An index of a longer list is an old one or a new one.
LEMMA OldOrNew ==
  ASSUME NEW l \in Nat, NEW n \in Nat, NEW k \in 1 .. l + n
  PROVE  k \in 1 .. l \/ \E m \in 1 .. n : k = l + m
<1>1. CASE k > l
  <2>1. k - l \in 1 .. n /\ k = l + (k - l)
    BY <1>1
  <2> QED
    BY <2>1
<1> QED
  BY <1>1

\* A read appends the bytes that follow in the node.
LEMMA ReadKeepsIInv ==
  ASSUME IInv, NEW t \in Threads, ReadSome(t)
  PROVE  IInv'
<1>1. /\ pc[t] = "fill" /\ filled[t] < Want(t)
      /\ UNCHANGED <<call, pc, pos, owner, poisoned>>
  BY DEF ReadSome
<1>2. /\ filled[t] \in Nat /\ cursor \in Nat /\ ImageLen \in Nat
      /\ pos[t] \in Nat /\ call[t] \in Call /\ out[t] \in Seq(Nat)
  BY ReadAssumption DEF IInv, TypeOK
<1>3. pos[t] < End(call[t]) /\ pos[t] \div ClusterSize < Len(call[t].chain)
  BY <1>1 DEF IInv, HasCluster
<1>4. Want(t) \in Nat /\ (pos[t] % ClusterSize) + Want(t) <= ClusterSize
  BY <1>3, WantNat DEF IInv
<1>5. PICK n \in Nat :
        /\ filled[t] + n <= Want(t) /\ cursor + n <= ImageLen
        /\ out' = [out EXCEPT ![t] = out[t] \o Slice(cursor, n)]
        /\ filled' = [filled EXCEPT ![t] = filled[t] + n]
        /\ cursor' = cursor + n
  <2>1. PICK n \in 1 .. LesserOf(Want(t) - filled[t], ImageLen - cursor) :
          /\ out' = [out EXCEPT ![t] = out[t] \o Slice(cursor, n)]
          /\ filled' = [filled EXCEPT ![t] = filled[t] + n]
          /\ cursor' = cursor + n
    BY DEF ReadSome
  <2>2. n \in Nat /\ filled[t] + n <= Want(t) /\ cursor + n <= ImageLen
    BY <1>2, <1>4 DEF LesserOf
  <2> QED
    BY <2>1, <2>2
<1>6. \A u \in Threads \ {t} : /\ out'[u] = out[u] /\ filled'[u] = filled[u]
                             /\ pc[u] # "fill"
  BY <1>1, <1>5 DEF IInv, TypeOK, LockIsExclusive, Holding
<1>7. /\ out'[t] = out[t] \o Slice(cursor, n)
      /\ filled'[t] = filled[t] + n
  BY <1>5 DEF IInv, TypeOK
<1>8. out'[t] \in Seq(Nat) /\ Len(out'[t]) = Len(out[t]) + n
  <2>1. /\ out[t] \o Slice(cursor, n) \in Seq(Nat)
        /\ Len(out[t] \o Slice(cursor, n)) = Len(out[t]) + n
    BY <1>2, <1>5, AppendSlice
  <2> QED
    BY <1>7, <2>1
<1>9. filled[t] + n \in Nat /\ cursor + n \in Nat
  BY <1>2
<1>10. TypeOK'
  <2>1. out' \in [Threads -> Seq(Nat)]
    BY <1>5, <1>7, <1>8 DEF IInv, TypeOK
  <2>2. filled' \in [Threads -> Nat] /\ cursor' \in Nat
    BY <1>5, <1>9 DEF IInv, TypeOK
  <2> QED
    BY <1>1, <2>1, <2>2 DEF IInv, TypeOK
<1>11. LockIsExclusive' /\ HasCluster'
  BY <1>1 DEF IInv, LockIsExclusive, HasCluster
<1>12. WithinWant'
  BY <1>1, <1>5, <1>6, <1>7 DEF WithinWant, Want
<1>13. cursor = Loc(call[t], pos[t]) + filled[t]
  BY <1>1 DEF IInv, CursorIsMine, Region
<1>14. CursorIsMine'
  <2>1. Loc(call[t], pos[t]) \in Nat
    BY <1>2, <1>3, LocNat
  <2> DEFINE base == Loc(call[t], pos[t])
  <2> HIDE DEF base
  <2>2. base \in Nat /\ cursor = base + filled[t]
    BY <2>1, <1>13 DEF base
  <2>3. cursor + n = base + (filled[t] + n)
    BY <1>2, <2>2
  <2>4. cursor' = Region(t)' + filled'[t]
    BY <1>1, <1>5, <1>7, <2>3 DEF base, Region
  <2> QED
    BY <1>1, <1>6, <2>4 DEF CursorIsMine
<1>15. call[t].op = "read_at" => call[t].off + Len(out[t]) = pos[t] + filled[t]
  BY <1>1 DEF IInv, InStep
<1>16. InStep'
  <2>1. ASSUME call[t].op = "read_at"
        PROVE  call[t].off + Len(out'[t]) = pos[t] + filled'[t]
    <3> DEFINE off == call[t].off  l == Len(out[t])  p == pos[t]  f == filled[t]
    <3>1. /\ off \in Nat /\ l \in Nat /\ p \in Nat /\ f \in Nat /\ off + l = p + f
      BY <1>2, <1>15, <2>1 DEF Call
    <3> HIDE DEF off, l, p, f
    <3>2. off + (l + n) = p + (f + n)
      BY <3>1
    <3> QED
      BY <1>7, <1>8, <3>2 DEF off, l, p, f
  <2> QED
    BY <1>1, <1>6, <2>1 DEF IInv, InStep
<1>17. BytesInPlace'
  <2>1. ASSUME call[t].op = "read_at", NEW k \in 1 .. Len(out'[t])
        PROVE  out'[t][k] = Loc(call[t], call[t].off + k - 1)
    <3> DEFINE l == Len(out[t])
    <3>1. l \in Nat /\ k \in 1 .. l + n
      BY <1>2, <1>8
    <3>2. CASE k \in 1 .. l
      <4>1. out[t][k] = Loc(call[t], call[t].off + k - 1)
        BY <2>1, <3>2 DEF IInv, BytesInPlace
      <4> QED
        BY <1>2, <1>5, <1>7, <3>2, <4>1, AppendSlice
    <3>3. CASE \E m \in 1 .. n : k = l + m
      <4>1. PICK m \in 1 .. n : k = l + m
        BY <3>3
      <4>2. out'[t][k] = cursor + m - 1
        <5>1. \A j \in 1 .. n : (out[t] \o Slice(cursor, n))[Len(out[t]) + j]
                                 = cursor + j - 1
          BY <1>2, <1>5, AppendSlice, ZenonT(30)
        <5> QED
          BY <1>7, <4>1, <5>1
      <4>3. PICK x \in Nat :
              /\ (pos[t] % ClusterSize) + x < ClusterSize
              /\ call[t].off + (l + m) - 1 = pos[t] + x
              /\ cursor + m - 1 = Loc(call[t], pos[t]) + x
        <5>1. call[t].off \in Nat /\ Loc(call[t], pos[t]) \in Nat
              /\ pos[t] % ClusterSize \in Nat
          BY <1>2, <1>3, LocNat, DivMod DEF Call
        <5>2. call[t].off + l = pos[t] + filled[t]
          BY <1>15, <2>1
        <5> DEFINE o == call[t].off  p == pos[t]  f == filled[t]  w == Want(t)
                   r == pos[t] % ClusterSize  base == Loc(call[t], pos[t])
        <5>3. /\ o \in Nat /\ p \in Nat /\ f \in Nat /\ w \in Nat /\ r \in Nat
              /\ l \in Nat /\ base \in Nat /\ cursor \in Nat
          BY <1>2, <1>4, <3>1, <5>1
        <5>4. /\ o + l = p + f /\ cursor = base + f /\ f + n <= w
              /\ r + w <= ClusterSize
          BY <1>4, <1>5, <1>13, <5>2
        <5> HIDE DEF l, o, p, f, w, r, base
        <5>5. \E x \in Nat : /\ r + x < ClusterSize
                             /\ o + (l + m) - 1 = p + x
                             /\ cursor + m - 1 = base + x
          <6> DEFINE x == f + m - 1
          <6>1. m \in Nat /\ m >= 1 /\ m <= n
            BY <4>1
          <6>2. x \in Nat
            BY <5>3, <6>1
          <6>3. r + x < ClusterSize
            BY <5>3, <5>4, <6>1, ReadAssumption
          <6>4. o + (l + m) - 1 = p + x
            BY <5>3, <5>4, <6>1
          <6>5. cursor + m - 1 = base + x
            BY <5>3, <5>4, <6>1
          <6> QED
            BY <6>2, <6>3, <6>4, <6>5
        <5> QED
          BY <5>5 DEF o, p, r, base
      <4>4. Loc(call[t], pos[t] + x) = Loc(call[t], pos[t]) + x
        BY <1>2, <1>3, <4>3, LocAdvances
      <4> QED
        BY <4>1, <4>2, <4>3, <4>4
    <3> HIDE DEF l
    <3> QED
      BY <1>5, <3>1, <3>2, <3>3, OldOrNew
  <2> QED
    BY <1>1, <1>6, <2>1 DEF IInv, BytesInPlace
<1> QED
  BY <1>10, <1>11, <1>12, <1>14, <1>16, <1>17 DEF IInv

\* The end of a region moves read_at's position over what was read.
LEMMA RegionDoneKeepsIInv ==
  ASSUME IInv, NEW t \in Threads, RegionDone(t)
  PROVE  IInv'
<1>1. /\ pc[t] = "fill" /\ owner' = owner \ {t}
      /\ UNCHANGED <<call, out, filled, poisoned, cursor>>
      /\ \/ /\ call[t].op = "read_at"
            /\ pos' = [pos EXCEPT ![t] = @ + filled[t]]
         \/ /\ call[t].op = "read_dir"
            /\ pos' = [pos EXCEPT ![t] = @ + ClusterSize]
      /\ pc' = [pc EXCEPT ![t] = pc'[t]] /\ pc'[t] \in {"ok", "next"}
  BY DEF RegionDone, Goto, IInv, TypeOK
<1>2. \A u \in Threads \ {t} : pc'[u] = pc[u] /\ pos'[u] = pos[u]
  BY <1>1 DEF IInv, TypeOK
<1>3. TypeOK'
  <2>1. filled[t] \in Nat /\ pos[t] \in Nat /\ ClusterSize \in Nat
    BY ReadAssumption DEF IInv, TypeOK
  <2>2. pos[t] + filled[t] \in Nat /\ pos[t] + ClusterSize \in Nat
    BY <2>1
  <2>3. pos' \in [Threads -> Nat]
    BY <1>1, <2>2 DEF IInv, TypeOK
  <2> QED
    BY <1>1, <2>3 DEF IInv, TypeOK, Labels
<1>4. LockIsExclusive'
  BY <1>1, <1>2 DEF IInv, LockIsExclusive, Holding
<1>5. HasCluster' /\ WithinWant' /\ CursorIsMine'
  BY <1>1, <1>2 DEF IInv, HasCluster, WithinWant, CursorIsMine, Want, Region
<1>6. InStep'
  BY <1>1, <1>2 DEF IInv, InStep, TypeOK
<1>7. BytesInPlace'
  BY <1>1 DEF IInv, BytesInPlace
<1> QED
  BY <1>3, <1>4, <1>5, <1>6, <1>7 DEF IInv

\* Before the first step nobody holds the lock and nothing is read.
LEMMA IInvInit == Init => IInv
<1> SUFFICES ASSUME Init PROVE IInv
  OBVIOUS
<1>1. call \in [Threads -> Call]
  BY CallsAssumption DEF Init
<1>2. TypeOK
  <2>1. \A t \in Threads : call[t].off \in Nat
    BY <1>1 DEF Call
  <2>2. pos \in [Threads -> Nat]
    BY <2>1 DEF Init
  <2>3. out \in [Threads -> Seq(Nat)]
    BY DEF Init
  <2> QED
    BY <1>1, <2>2, <2>3 DEF Init, TypeOK, Labels
<1> QED
  BY <1>1, <1>2 DEF Init, IInv, LockIsExclusive, HasCluster, WithinWant,
     CursorIsMine, InStep, BytesInPlace, Holding, Call

\* Every step of every thread keeps the invariant.
LEMMA IInvStep == IInv /\ [Next]_vars => IInv'
<1> SUFFICES ASSUME IInv, [Next]_vars PROVE IInv'
  OBVIOUS
<1>1. CASE UNCHANGED vars
  BY <1>1 DEF vars, IInv, TypeOK, LockIsExclusive, HasCluster, WithinWant,
     CursorIsMine, InStep, BytesInPlace, Want, Region
<1>2. CASE Next
  BY <1>2, MovesKeepIInv, SeekKeepsIInv, ReadKeepsIInv, RegionDoneKeepsIInv
     DEF Next, Step
<1> QED
  BY <1>1, <1>2

\* So it always holds.
LEMMA IInvAlways == Spec => []IInv
  BY IInvInit, IInvStep, PTL DEF Spec

-----------------------------------------------------------------------------
\* The variables keep their types (fs.rs, read_at, read_dir_bytes).
THEOREM TypeCorrect == Spec => []TypeOK
  BY IInvAlways, PTL DEF IInv

\* For any number of threads the reader is used by the lock's holder only
\* (fs.rs, read_region).
THEOREM LockExclusive == Spec => []LockIsExclusive
  BY IInvAlways, PTL DEF IInv

\* For any number of threads no one disturbs the cursor of a reading thread
\* (fs.rs, read_region: seek and reads under one guard).
THEOREM CursorUndisturbed == Spec => []CursorIsMine
  BY IInvAlways, PTL DEF IInv

\* For any threads, calls and image, read_at never hands over a byte that is
\* not the node's byte at that offset (fs.rs, read_at).
THEOREM ReadsBytesInPlace == Spec => []BytesInPlace
  BY IInvAlways, PTL DEF IInv

\* A panic inside the reader ends every use of it (fs.rs, read_region: the
\* poisoned lock fails the call).
THEOREM PoisonedIsUnused == Spec => PoisonIsFinal
<1> DEFINE Unheld == poisoned => owner = {}
<1>1. Init => Unheld
  BY DEF Init
<1>2. IInv /\ Unheld /\ [Next]_vars => Unheld'
  <2> SUFFICES ASSUME IInv, Unheld, Next PROVE Unheld'
    BY DEF vars
  <2> QED
    BY DEF Next, Step, NextRegion, Finish, Lock, LockPoisoned, Seek, ReadSome,
       RegionDone, Fail, Panic, IInv, TypeOK, LockIsExclusive, Holding
<1>3. IInv /\ Unheld /\ [Next]_vars
        => [poisoned => UNCHANGED <<out, cursor>>]_vars
  BY DEF Next, Step, NextRegion, Finish, Lock, LockPoisoned, Seek, ReadSome,
     RegionDone, Fail, Panic, IInv, LockIsExclusive, Holding
<1> QED
  BY <1>1, <1>2, <1>3, IInvAlways, PTL DEF Spec, PoisonIsFinal

-----------------------------------------------------------------------------
\* One turn of read_dir_bytes' loop: what is there so far, and cluster j.
DirTurn(c) ==
  [p \in Seq(Nat) \X (1 .. Len(c.chain)) |->
     IF Len(p[1]) >= MaxDirBytes THEN p[1]
     ELSE p[1] \o Slice(cluster_offset(c.chain[p[2]]), ClusterSize)]

\* The directory's bytes after each turn: ReadDirResult is the last of them.
DirBytes(c) ==
  CHOOSE g : IsChain(g, Len(c.chain), Seq(Nat), <<>>, DirTurn(c))

\* The offsets of a slice, however much of it the image has.
LEMMA SliceType ==
  ASSUME NEW o \in Nat, NEW n \in Nat
  PROVE  Slice(o, n) \in Seq(Nat)
<1> DEFINE l == LesserOf(n, IF ImageLen > o THEN ImageLen - o ELSE 0)
<1>1. l \in Nat
  BY ReadAssumption DEF LesserOf
<1>2. Slice(o, n) = [k \in 1 .. l |-> o + k - 1]
  BY DEF Slice
<1> HIDE DEF l
<1>3. \A k \in 1 .. l : o + k - 1 \in Nat
  BY <1>1
<1> QED
  BY <1>1, <1>2, <1>3

\* Every cluster of a chain has an offset in the image.
LEMMA ClusterOffsetNat ==
  ASSUME NEW c \in Call, NEW j \in 1 .. Len(c.chain)
  PROVE  cluster_offset(c.chain[j]) \in Nat
<1> DEFINE k == c.chain[j]
<1>1. k - 2 \in Nat
  BY DEF Call, Cluster
<1> HIDE DEF k
<1>2. (k - 2) * ClusterSize \in Nat
  BY <1>1, Product, ReadAssumption
<1>3. cluster_offset(k) \in Nat
  BY <1>2, ReadAssumption DEF cluster_offset
<1> QED
  BY <1>3 DEF k

LEMMA DirTurnType ==
  ASSUME NEW c \in Call
  PROVE  /\ Len(c.chain) \in Nat
         /\ DirTurn(c) \in [Seq(Nat) \X (1 .. Len(c.chain)) -> Seq(Nat)]
<1>1. Len(c.chain) \in Nat
  BY DEF Call
<1>2. ASSUME NEW s \in Seq(Nat), NEW j \in 1 .. Len(c.chain)
      PROVE  s \o Slice(cluster_offset(c.chain[j]), ClusterSize) \in Seq(Nat)
  <2>1. Slice(cluster_offset(c.chain[j]), ClusterSize) \in Seq(Nat)
    BY ClusterOffsetNat, SliceType, ReadAssumption
  <2> QED
    BY <2>1
<1> QED
  BY <1>1, <1>2 DEF DirTurn

\* The turns, one after the other.
LEMMA DirBytesTurns ==
  ASSUME NEW c \in Call
  PROVE  /\ DirBytes(c) \in [0 .. Len(c.chain) -> Seq(Nat)]
         /\ DirBytes(c)[0] = <<>>
         /\ \A j \in 1 .. Len(c.chain) :
              DirBytes(c)[j] =
                IF Len(DirBytes(c)[j - 1]) >= MaxDirBytes THEN DirBytes(c)[j - 1]
                ELSE DirBytes(c)[j - 1]
                     \o Slice(cluster_offset(c.chain[j]), ClusterSize)
<1> DEFINE n == Len(c.chain)
           g == DirBytes(c)
<1>1. n \in Nat /\ DirTurn(c) \in [Seq(Nat) \X (1 .. n) -> Seq(Nat)]
  BY DirTurnType
<1>2. <<>> \in Seq(Nat)
  OBVIOUS
<1>3. \E h : IsChain(h, n, Seq(Nat), <<>>, DirTurn(c))
  <2> HIDE DEF n
  <2> QED
    BY <1>1, <1>2, ChainExists
<1>4. IsChain(g, n, Seq(Nat), <<>>, DirTurn(c))
  BY <1>3 DEF DirBytes
<1> HIDE DEF g
<1>5. g \in [0 .. n -> Seq(Nat)] /\ g[0] = <<>>
  BY <1>4 DEF IsChain
<1>6. ASSUME NEW j \in 1 .. n
      PROVE  g[j] = IF Len(g[j - 1]) >= MaxDirBytes THEN g[j - 1]
                    ELSE g[j - 1] \o Slice(cluster_offset(c.chain[j]), ClusterSize)
  <2>1. g[j] = DirTurn(c)[<<g[j - 1], j>>]
    BY <1>4 DEF IsChain
  <2>2. g[j - 1] \in Seq(Nat)
    <3>1. j - 1 \in 0 .. n
      BY <1>1
    <3> QED
      BY <1>5, <3>1
  <2> QED
    BY <2>1, <2>2 DEF DirTurn
<1> QED
  BY <1>5, <1>6 DEF g

\* The fold of read_dir_bytes' promise goes through the same turns.
LEMMA DirResult ==
  ASSUME NEW c \in Call
  PROVE  ReadDirResult(c) = DirBytes(c)[Len(c.chain)]
<1> DEFINE n == Len(c.chain)
           g == DirBytes(c)
           More(s, k) == IF Len(s) >= MaxDirBytes THEN s
                         ELSE s \o Slice(cluster_offset(k), ClusterSize)
           Iter(f) == f = [T \in SUBSET (1 .. n) |->
                             IF T = {} THEN <<>>
                             ELSE More(f[T \ {Max(T)}], c.chain[Max(T)])]
           iter == CHOOSE f : Iter(f)
<1>1. n \in Nat /\ DirTurn(c) \in [Seq(Nat) \X (1 .. n) -> Seq(Nat)]
      /\ DOMAIN c.chain = 1 .. n
  <2>1. c.chain \in Seq(Cluster)
    BY DEF Call
  <2>2. DOMAIN c.chain = 1 .. n
    BY <2>1
  <2>3. n \in Nat /\ DirTurn(c) \in [Seq(Nat) \X (1 .. n) -> Seq(Nat)]
    BY DirTurnType
  <2> QED
    BY <2>2, <2>3
<1>2. ReadDirResult(c) = iter[1 .. n]
  BY <1>1 DEF ReadDirResult, FoldLeft, MapThenFoldSet
<1>3. PICK h : FoldsUpTo(h, n, Seq(Nat), <<>>, DirTurn(c))
  <2>1. <<>> \in Seq(Nat)
    OBVIOUS
  <2> HIDE DEF n
  <2> QED
    BY <1>1, <2>1, FoldExists
<1>4. Iter(h)
  <2>1. ASSUME NEW T \in SUBSET (1 .. n)
        PROVE  h[T] = IF T = {} THEN <<>>
                      ELSE More(h[T \ {Max(T)}], c.chain[Max(T)])
    <3>1. CASE T = {}
      BY <1>3, <3>1 DEF FoldsUpTo
    <3>2. CASE T # {}
      <4>1. Max(T) \in 1 .. n
        BY <1>1, <3>2, MaxIsGreatest
      <4>2. h[T \ {Max(T)}] \in Seq(Nat)
        <5>1. T \ {Max(T)} \in SUBSET (1 .. n)
          OBVIOUS
        <5> QED
          BY <1>3, <5>1 DEF FoldsUpTo
      <4>3. h[T] = DirTurn(c)[<<h[T \ {Max(T)}], Max(T)>>]
        BY <1>3, <3>2 DEF FoldsUpTo
      <4> QED
        BY <3>2, <4>1, <4>2, <4>3 DEF DirTurn
    <3> QED
      BY <3>1, <3>2
  <2>2. h = [T \in SUBSET (1 .. n) |-> h[T]]
    BY <1>3 DEF FoldsUpTo
  <2> HIDE DEF More
  <2> QED
    BY <2>1, <2>2
<1>5. Iter(iter)
  <2> HIDE DEF Iter
  <2> QED
    BY <1>4
<1>6. \A T \in SUBSET (1 .. n) :
        iter[T] = IF T = {} THEN <<>>
                  ELSE More(iter[T \ {Max(T)}], c.chain[Max(T)])
  <2> HIDE DEF More, iter
  <2> QED
    BY <1>5
<1>7. /\ g[0] = <<>>
      /\ \A j \in 1 .. n : g[j] = More(g[j - 1], c.chain[j])
  BY DirBytesTurns
<1> HIDE DEF iter, Iter, More, g
<1> DEFINE S == { j \in Nat : j <= n => iter[1 .. j] = g[j] }
<1>8. 0 \in S
  <2>1. 1 .. 0 = {}
    OBVIOUS
  <2> QED
    BY <1>6, <1>7, <2>1
<1>9. ASSUME NEW j \in Nat, j \in S
      PROVE  j + 1 \in S
  <2>1. ASSUME j + 1 <= n
        PROVE  iter[1 .. j + 1] = g[j + 1]
    <3>1. j + 1 \in 1 .. n /\ (j + 1) - 1 = j /\ iter[1 .. j] = g[j]
      BY <1>1, <1>9, <2>1
    <3>2. /\ Max(1 .. j + 1) = j + 1
          /\ (1 .. j + 1) \ {j + 1} = 1 .. j
          /\ 1 .. j + 1 \in SUBSET (1 .. n)
      BY <1>1, <3>1, MaxUpTo
    <3>3. 1 .. j + 1 # {}
      OBVIOUS
    <3>4. iter[1 .. j + 1] = More(iter[1 .. j], c.chain[j + 1])
      BY <1>6, <3>2, <3>3
    <3> QED
      BY <1>7, <3>1, <3>4
  <2> QED
    BY <2>1
<1>10. Nat \subseteq S
  <2> HIDE DEF S
  <2> QED
    BY <1>8, <1>9, NatInduct
<1>11. n \in S
  <2> HIDE DEF S
  <2> QED
    BY <1>1, <1>10
<1>12. iter[1 .. n] = g[n]
  BY <1>1, <1>11
<1> QED
  BY <1>2, <1>12 DEF g

\* Once MAX_DIR_BYTES are there the other clusters add nothing.
LEMMA DirFull ==
  ASSUME NEW c \in Call, NEW q \in 0 .. Len(c.chain),
         Len(DirBytes(c)[q]) >= MaxDirBytes
  PROVE  DirBytes(c)[Len(c.chain)] = DirBytes(c)[q]
<1> DEFINE n == Len(c.chain)
           g == DirBytes(c)
           S == { d \in Nat : q + d <= n => g[q + d] = g[q] }
<1>1. n \in Nat
  BY DirTurnType
<1>2. /\ \A j \in 1 .. n : Len(g[j - 1]) >= MaxDirBytes => g[j] = g[j - 1]
      /\ g[q] \in Seq(Nat) /\ Len(g[q]) >= MaxDirBytes
  BY DirBytesTurns
<1> HIDE DEF g
<1>3. 0 \in S
  BY <1>1
<1>4. ASSUME NEW d \in Nat, d \in S
      PROVE  d + 1 \in S
  <2>1. ASSUME q + (d + 1) <= n
        PROVE  g[q + (d + 1)] = g[q]
    <3>1. /\ q + (d + 1) \in 1 .. n
          /\ (q + (d + 1)) - 1 = q + d
          /\ g[q + d] = g[q]
      BY <1>1, <1>4, <2>1
    <3> QED
      BY <1>2, <3>1
  <2> QED
    BY <2>1
<1>5. Nat \subseteq S
  <2> HIDE DEF S
  <2> QED
    BY <1>3, <1>4, NatInduct
<1>6. n - q \in Nat /\ q + (n - q) = n /\ n <= n
  BY <1>1
<1>7. n - q \in S
  <2> HIDE DEF S
  <2> QED
    BY <1>5, <1>6
<1>8. g[q + (n - q)] = g[q]
  BY <1>6, <1>7
<1> QED
  BY <1>6, <1>8 DEF g

-----------------------------------------------------------------------------
\* On its way, a call is between its clusters or inside one.
OnItsWay(t) == pc[t] \in {"next", "lock", "seek", "fill"}

\* read_at stops at the end of what it was asked for, never past it.
NotPast(t) ==
  call[t].op = "read_at" /\ OnItsWay(t) =>
    Len(out[t]) = 0 \/ pc[t] = "fill" \/ pos[t] <= End(call[t])

\* A directory's position is at the start of cluster q: it has what the turns
\* before gave, less than MAX_DIR_BYTES if it reads on, and while it fills,
\* what the image has of cluster q so far.
AtTurn(t, q) ==
  /\ pos[t] = q * ClusterSize
  /\ pc[t] \in {"lock", "seek", "fill"} =>
       Len(DirBytes(call[t])[q]) < MaxDirBytes
  /\ out[t] = IF pc[t] = "fill"
              THEN DirBytes(call[t])[q] \o Slice(Region(t), filled[t])
              ELSE DirBytes(call[t])[q]

InTurn(t) ==
  call[t].op = "read_dir" /\ OnItsWay(t) =>
    \E q \in 0 .. Len(call[t].chain) : AtTurn(t, q)

Complete(t) == pc[t] = "ok" => IsResult(call[t], out[t])

\* What a call needs on its way so that it is complete when it succeeds.
Whole(t) == NotPast(t) /\ InTurn(t) /\ Complete(t)

WholeInv == \A t \in Threads : Whole(t)

\* The start of cluster q of a chain.
LEMMA TurnStart ==
  ASSUME NEW q \in Nat
  PROVE  /\ q * ClusterSize \in Nat
         /\ (q * ClusterSize) \div ClusterSize = q
         /\ (q * ClusterSize) % ClusterSize = 0
         /\ (q + 1) * ClusterSize = q * ClusterSize + ClusterSize
<1>1. /\ q * ClusterSize \in Nat /\ ClusterSize \in Nat /\ ClusterSize > 0
      /\ (q + 1) * ClusterSize = q * ClusterSize + ClusterSize
      /\ q * ClusterSize = ClusterSize * q + 0
  BY Product, ReadAssumption
<1> QED
  BY <1>1, DivUnique

\* A position in cluster q or after it, by the quotient and by the product.
LEMMA PastCluster ==
  ASSUME NEW p \in Nat, NEW n \in Nat, p \div ClusterSize >= n
  PROVE  p >= n * ClusterSize
<1> DEFINE d == p \div ClusterSize
           r == p % ClusterSize
<1>1. /\ d \in Nat /\ r \in Nat /\ d >= n
      /\ p = ClusterSize * d + r /\ ClusterSize \in Nat
  BY DivMod, ReadAssumption
<1> HIDE DEF d, r
<1>2. ClusterSize * d >= ClusterSize * n
  BY <1>1
<1>3. ClusterSize * n = n * ClusterSize /\ n * ClusterSize \in Nat
  BY <1>1
<1>4. ClusterSize * d \in Nat
  BY <1>1
<1> QED
  BY <1>1, <1>2, <1>3, <1>4

\* A slice goes on where it stopped.
LEMMA SliceGoesOn ==
  ASSUME NEW o \in Nat, NEW f \in Nat, NEW n \in Nat, o + (f + n) <= ImageLen
  PROVE  Slice(o, f) \o Slice(o + f, n) = Slice(o, f + n)
<1>1. /\ o + f <= ImageLen /\ (o + f) + n <= ImageLen
      /\ o + f \in Nat /\ f + n \in Nat
  BY ReadAssumption
<1> DEFINE a == Slice(o, f)  b == Slice(o + f, n)  s == Slice(o, f + n)
<1>2. a \in Seq(Nat) /\ Len(a) = f /\ \A k \in 1 .. f : a[k] = o + k - 1
  BY <1>1, SliceOffsets
<1>3. b \in Seq(Nat) /\ Len(b) = n /\ \A k \in 1 .. n : b[k] = (o + f) + k - 1
  BY <1>1, SliceOffsets
<1>4. s \in Seq(Nat) /\ Len(s) = f + n
      /\ \A k \in 1 .. f + n : s[k] = o + k - 1
  BY <1>1, SliceOffsets
<1> HIDE DEF a, b, s
<1>5. /\ a \o b \in Seq(Nat) /\ Len(a \o b) = f + n
      /\ \A k \in 1 .. f : (a \o b)[k] = a[k]
      /\ \A m \in 1 .. n : (a \o b)[f + m] = b[m]
  BY <1>2, <1>3, Concatenation
<1>6. ASSUME NEW k \in 1 .. f + n
      PROVE  (a \o b)[k] = s[k]
  <2>1. CASE k \in 1 .. f
    BY <1>2, <1>4, <1>5, <2>1
  <2>2. ASSUME NEW m \in 1 .. n, k = f + m
        PROVE  (a \o b)[k] = s[k]
    <3>1. (a \o b)[f + m] = (o + f) + m - 1
      BY <1>3, <1>5
    <3>2. s[f + m] = o + (f + m) - 1
      BY <1>4, <2>2
    <3> QED
      BY <2>2, <3>1, <3>2
  <2> QED
    BY <2>1, <2>2, OldOrNew
<1>7. a \o b = s
  BY <1>4, <1>5, <1>6, SeqEqual
<1> QED
  BY <1>7 DEF a, b, s

\* Where the image ends, a slice has all there is.
LEMMA SliceAtEnd ==
  ASSUME NEW o \in Nat, NEW f \in Nat, NEW n \in Nat, f <= n, o + f >= ImageLen
  PROVE  Slice(o, f) = Slice(o, n)
<1> DEFINE l(m) == LesserOf(m, IF ImageLen > o THEN ImageLen - o ELSE 0)
<1>1. l(f) = l(n)
  BY ReadAssumption DEF LesserOf
<1>2. /\ Slice(o, f) = [k \in 1 .. l(f) |-> o + k - 1]
      /\ Slice(o, n) = [k \in 1 .. l(n) |-> o + k - 1]
  BY DEF Slice
<1> HIDE DEF l
<1> QED
  BY <1>1, <1>2

\* A thread that nothing happened to.
LEMMA WholeStays ==
  ASSUME NEW u, call' = call, pc'[u] = pc[u], pos'[u] = pos[u],
         out'[u] = out[u], filled'[u] = filled[u], Whole(u)
  PROVE  Whole(u)'
<1>1. OnItsWay(u)' = OnItsWay(u)
  BY DEF OnItsWay
<1>2. NotPast(u)'
  BY <1>1 DEF NotPast, Whole
<1>3. InTurn(u)'
  <2>1. ASSUME NEW q, AtTurn(u, q) PROVE AtTurn(u, q)'
    BY <2>1 DEF AtTurn, Region
  <2> QED
    BY <1>1, <2>1 DEF InTurn, Whole
<1>4. Complete(u)'
  BY DEF Complete, Whole
<1> QED
  BY <1>2, <1>3, <1>4 DEF Whole

\* A call with no cluster left has all there is.
LEMMA FinishIsComplete ==
  ASSUME IInv, NEW t \in Threads, Whole(t), pc[t] = "next", ~HasRegion(t)
  PROVE  IsResult(call[t], out[t])
<1> DEFINE c == call[t]  p == pos[t]  s == out[t]  n == Len(c.chain)
<1>1. c \in Call /\ p \in Nat /\ s \in Seq(Nat) /\ n \in Nat /\ Len(s) \in Nat
  <2>1. c \in Call /\ p \in Nat /\ s \in Seq(Nat)
    BY DEF IInv, TypeOK
  <2> QED
    BY <2>1, DirTurnType
<1>2. CASE c.op = "read_at"
  <2>1. c.off + Len(s) = p
    BY <1>2 DEF IInv, InStep
  <2>2. \A k \in 1 .. Len(s) : s[k] = Loc(c, c.off + k - 1)
    BY <1>2 DEF IInv, BytesInPlace
  <2>3. Len(s) = 0 \/ p <= End(c)
    BY <1>2 DEF Whole, NotPast, OnItsWay
  <2>4. End(c) \in Nat
    <3>1. c.off \in Nat /\ c.len \in Nat /\ c.total \in Nat
      BY <1>1 DEF Call
    <3> QED
      BY <1>2, <3>1 DEF End, LesserOf
  <2>5. p >= End(c) \/ p \div ClusterSize >= n
    <3>1. p \div ClusterSize \in Nat
      BY <1>1, DivMod
    <3> HIDE DEF p, n
    <3>2. ~(p < End(c)) \/ ~(p \div ClusterSize < n)
      BY <1>2 DEF HasRegion, p, n
    <3> QED
      BY <1>1, <2>4, <3>1, <3>2
  <2>6. p >= End(c) \/ p >= n * ClusterSize
    BY <1>1, <2>5, PastCluster
  <2>7. IsReadAtResult(c, s)
    <3> HIDE DEF c, p, s, n
    <3>1. p >= End(c) => Len(s) = 0 \/ p = End(c)
      BY <1>1, <2>3, <2>4
    <3> QED
      BY <2>1, <2>2, <2>6, <3>1 DEF IsReadAtResult, n
  <2> QED
    BY <1>2, <2>7 DEF IsResult
<1>3. CASE c.op = "read_dir"
  <2>1. PICK q \in 0 .. n : AtTurn(t, q)
    BY <1>3 DEF Whole, InTurn, OnItsWay
  <2>2. p = q * ClusterSize /\ s = DirBytes(c)[q]
    BY <2>1 DEF AtTurn
  <2>3. q \in Nat /\ p \div ClusterSize = q
    BY <1>1, <2>2, TurnStart
  <2>4. CASE Len(s) >= MaxDirBytes
    <3>1. DirBytes(c)[n] = DirBytes(c)[q]
      BY <1>1, <2>2, <2>4, DirFull
    <3> QED
      BY <1>1, <1>3, <2>2, <3>1, DirResult DEF IsResult
  <2>5. CASE ~(Len(s) >= MaxDirBytes)
    <3>1. ~(p < n * ClusterSize) \/ ~(q < n)
      BY <1>1, <1>3, <2>3, <2>5, ReadAssumption DEF HasRegion, End
    <3>2. q = n
      <4>1. SUFFICES ASSUME q < n PROVE FALSE
        BY <1>1
      <4>2. q * ClusterSize < n * ClusterSize
        <5>1. n >= q + 1 /\ ClusterSize \in Nat /\ ClusterSize > 0
          BY <1>1, <4>1, ReadAssumption
        <5> HIDE DEF n
        <5>2. n * ClusterSize >= (q + 1) * ClusterSize
          BY <1>1, <2>3, <5>1
        <5>3. /\ (q + 1) * ClusterSize = q * ClusterSize + ClusterSize
              /\ q * ClusterSize \in Nat /\ n * ClusterSize \in Nat
          BY <1>1, <2>3, TurnStart
        <5> QED
          BY <5>1, <5>2, <5>3
      <4> QED
        BY <2>2, <3>1, <4>1, <4>2
    <3> QED
      BY <1>1, <1>3, <2>2, <3>2, DirResult DEF IsResult
  <2> QED
    BY <2>4, <2>5
<1> QED
  BY <1>1, <1>2, <1>3 DEF Call

\* The steps that move a thread without touching the data.
LEMMA MovesKeepWhole ==
  ASSUME IInv, WholeInv, NEW t \in Threads,
         NextRegion(t) \/ Finish(t) \/ Lock(t) \/ LockPoisoned(t)
           \/ Fail(t) \/ Panic(t)
  PROVE  WholeInv'
<1>1. UNCHANGED <<call, pos, out, filled, cursor>>
  BY DEF NextRegion, Finish, Lock, LockPoisoned, Fail, Panic
<1>2. \A u \in Threads \ {t} : pc'[u] = pc[u]
  BY DEF IInv, TypeOK, NextRegion, Finish, Lock, LockPoisoned, Fail, Panic, Goto
<1>3. \A u \in Threads \ {t} : Whole(u)'
  BY <1>1, <1>2, WholeStays DEF WholeInv
<1>4. \/ NextRegion(t) /\ pc[t] = "next" /\ HasRegion(t) /\ pc'[t] = "lock"
      \/ Finish(t) /\ pc[t] = "next" /\ ~HasRegion(t) /\ pc'[t] = "ok"
      \/ Lock(t) /\ pc[t] = "lock" /\ pc'[t] = "seek"
      \/ pc'[t] \in {"failed", "dead"}
  BY DEF IInv, TypeOK, NextRegion, Finish, Lock, LockPoisoned, Fail, Panic, Goto
<1>5. CASE pc[t] = "next" /\ HasRegion(t) /\ pc'[t] = "lock"
  <2>1. pos[t] < End(call[t])
        /\ (call[t].op = "read_dir" => Len(out[t]) < MaxDirBytes)
    BY <1>5 DEF HasRegion
  <2>2. NotPast(t)'
    <3>1. NotPast(t)
      BY DEF WholeInv, Whole
    <3> QED
      BY <1>1, <1>5, <3>1 DEF NotPast, OnItsWay
  <2>3. InTurn(t)'
    <3>1. InTurn(t)
      BY DEF WholeInv, Whole
    <3>2. ASSUME NEW q, AtTurn(t, q), call[t].op = "read_dir" PROVE AtTurn(t, q)'
      BY <1>1, <1>5, <2>1, <3>2 DEF AtTurn
    <3> QED
      BY <1>1, <1>5, <3>1, <3>2 DEF InTurn, OnItsWay
  <2>4. Complete(t)'
    BY <1>5 DEF Complete
  <2> QED
    BY <1>3, <2>2, <2>3, <2>4 DEF WholeInv, Whole
<1>6. CASE pc[t] = "next" /\ ~HasRegion(t) /\ pc'[t] = "ok"
  <2>1. IsResult(call[t], out[t])
    BY <1>6, FinishIsComplete DEF WholeInv
  <2>2. Whole(t)'
    BY <1>1, <1>6, <2>1 DEF Whole, NotPast, InTurn, Complete, OnItsWay
  <2> QED
    BY <1>3, <2>2 DEF WholeInv
<1>7. CASE pc[t] = "lock" /\ pc'[t] = "seek"
  <2>1. Whole(t)
    BY DEF WholeInv
  <2>2. NotPast(t)' /\ Complete(t)'
    BY <1>1, <1>7, <2>1 DEF Whole, NotPast, Complete, OnItsWay
  <2>3. InTurn(t)'
    <3>1. ASSUME NEW q, AtTurn(t, q) PROVE AtTurn(t, q)'
      BY <1>1, <1>7, <3>1 DEF AtTurn
    <3> QED
      BY <1>1, <1>7, <2>1, <3>1 DEF Whole, InTurn, OnItsWay
  <2> QED
    BY <1>3, <2>2, <2>3 DEF WholeInv, Whole
<1>8. CASE pc'[t] \in {"failed", "dead"}
  <2>1. Whole(t)'
    BY <1>8 DEF Whole, NotPast, InTurn, Complete, OnItsWay
  <2> QED
    BY <1>3, <2>1 DEF WholeInv
<1> QED
  BY <1>4, <1>5, <1>6, <1>7, <1>8

\* Where the image has the next bytes of a thread inside a cluster.
LEMMA RegionNat ==
  ASSUME IInv, NEW t \in Threads, pc[t] \in {"lock", "seek", "fill"}
  PROVE  /\ Region(t) \in Nat
         /\ pos[t] < End(call[t])
         /\ pos[t] \div ClusterSize < Len(call[t].chain)
         /\ Want(t) \in Nat /\ Want(t) > 0
<1>1. pos[t] < End(call[t]) /\ pos[t] \div ClusterSize < Len(call[t].chain)
  BY DEF IInv, HasCluster
<1>2. pos[t] \in Nat /\ call[t] \in Call
  BY DEF IInv, TypeOK
<1> QED
  BY <1>1, <1>2, LocNat, WantNat DEF IInv, Region

\* A seek starts a region with nothing of it read.
LEMMA SeekKeepsWhole ==
  ASSUME IInv, WholeInv, NEW t \in Threads, Seek(t)
  PROVE  WholeInv'
<1>1. /\ UNCHANGED <<call, pos, out>> /\ pc[t] = "seek"
      /\ pc'[t] = "fill" /\ filled'[t] = 0
      /\ \A u \in Threads \ {t} : pc'[u] = pc[u] /\ filled'[u] = filled[u]
  BY DEF Seek, Goto, IInv, TypeOK
<1>2. \A u \in Threads \ {t} : Whole(u)'
  BY <1>1, WholeStays DEF WholeInv
<1>3. InTurn(t)'
  <2>1. ASSUME NEW q \in 0 .. Len(call[t].chain), AtTurn(t, q)
        PROVE  AtTurn(t, q)'
    <3>1. Slice(Region(t), 0) = <<>>
      <4>1. Region(t) \in Nat /\ ImageLen \in Nat
        BY <1>1, RegionNat, ReadAssumption
      <4>2. LesserOf(0, IF ImageLen > Region(t) THEN ImageLen - Region(t) ELSE 0) = 0
        BY <4>1 DEF LesserOf
      <4>3. Slice(Region(t), 0) = [k \in 1 .. 0 |-> Region(t) + k - 1]
        BY <4>2 DEF Slice
      <4> QED
        BY <4>3
    <3>2. DirBytes(call[t])[q] \in Seq(Nat)
      BY DirBytesTurns DEF IInv, TypeOK
    <3>3. DirBytes(call[t])[q] \o <<>> = DirBytes(call[t])[q]
      BY <3>2, ConcatEmptySeq
    <3>4. Region(t)' = Region(t)
      BY <1>1 DEF Region
    <3> QED
      BY <1>1, <2>1, <3>1, <3>3, <3>4 DEF AtTurn
  <2>2. InTurn(t)
    BY DEF WholeInv, Whole
  <2> QED
    BY <1>1, <2>1, <2>2 DEF InTurn, OnItsWay
<1>4. NotPast(t)' /\ Complete(t)'
  BY <1>1 DEF NotPast, Complete, OnItsWay
<1> QED
  BY <1>2, <1>3, <1>4 DEF WholeInv, Whole

\* Appending twice is appending both.
LEMMA Regroup ==
  ASSUME NEW a \in Seq(Nat), NEW b \in Seq(Nat), NEW d \in Seq(Nat)
  PROVE  (d \o a) \o b = d \o (a \o b)
  BY SMTT(60)

\* A read appends the bytes of the region that follow.
LEMMA ReadKeepsWhole ==
  ASSUME IInv, WholeInv, NEW t \in Threads, ReadSome(t)
  PROVE  WholeInv'
<1>1. /\ UNCHANGED <<call, pc, pos>> /\ pc[t] = "fill"
      /\ filled[t] \in Nat /\ cursor \in Nat
      /\ out[t] \in Seq(Nat) /\ call[t] \in Call
      /\ cursor = Region(t) + filled[t]
  BY DEF ReadSome, IInv, TypeOK, CursorIsMine
<1>2. Region(t) \in Nat /\ Want(t) \in Nat
  BY <1>1, RegionNat
<1>3. PICK n \in 1 .. LesserOf(Want(t) - filled[t], ImageLen - cursor) :
        /\ out' = [out EXCEPT ![t] = @ \o Slice(cursor, n)]
        /\ filled' = [filled EXCEPT ![t] = @ + n]
  BY DEF ReadSome
<1>4. n \in Nat /\ cursor + n <= ImageLen
  BY <1>1, <1>2, <1>3, ReadAssumption, SMTT(60) DEF LesserOf
<1>5. /\ out'[t] = out[t] \o Slice(cursor, n) /\ filled'[t] = filled[t] + n
      /\ \A u \in Threads \ {t} : out'[u] = out[u] /\ filled'[u] = filled[u]
  BY <1>3 DEF IInv, TypeOK
<1>6. \A u \in Threads \ {t} : Whole(u)'
  BY <1>1, <1>5, WholeStays DEF WholeInv
<1>7. InTurn(t)'
  <2>1. ASSUME NEW q \in 0 .. Len(call[t].chain), AtTurn(t, q)
        PROVE  AtTurn(t, q)'
    <3> DEFINE d == DirBytes(call[t])[q]  r == Region(t)  f == filled[t]
    <3>1. d \in Seq(Nat) /\ r \in Nat /\ f \in Nat /\ cursor = r + f
      BY <1>1, <1>2, DirBytesTurns
    <3>2. out[t] = d \o Slice(r, f)
      BY <1>1, <2>1 DEF AtTurn
    <3>3. Region(t)' = r
      BY <1>1 DEF Region
    <3>4. (d \o Slice(r, f)) \o Slice(cursor, n) = d \o Slice(r, f + n)
      <4> HIDE DEF d, r, f
      <4>1. r + (f + n) <= ImageLen
        BY <1>4, <3>1, ReadAssumption
      <4>2. Slice(r, f) \in Seq(Nat) /\ Slice(r + f, n) \in Seq(Nat)
        <5>1. r + f \in Nat
          BY <3>1
        <5> QED
          BY <1>4, <3>1, <5>1, SliceType
      <4>3. (d \o Slice(r, f)) \o Slice(r + f, n) = d \o (Slice(r, f) \o Slice(r + f, n))
        <5> DEFINE a == Slice(r, f)  b == Slice(r + f, n)
        <5>1. d \in Seq(Nat) /\ a \in Seq(Nat) /\ b \in Seq(Nat)
          BY <3>1, <4>2
        <5> HIDE DEF a, b
        <5>2. (d \o a) \o b = d \o (a \o b)
          BY <5>1, Regroup
        <5> QED
          BY <5>2 DEF a, b
      <4>4. Slice(r, f) \o Slice(r + f, n) = Slice(r, f + n)
        BY <1>4, <3>1, <4>1, SliceGoesOn
      <4> QED
        BY <3>1, <4>3, <4>4
    <3>5. out'[t] = d \o Slice(r, f + n)
      BY <1>5, <3>2, <3>4
    <3> QED
      BY <1>1, <1>5, <2>1, <3>3, <3>5 DEF AtTurn
  <2>2. InTurn(t)
    BY DEF WholeInv, Whole
  <2> QED
    BY <1>1, <2>1, <2>2 DEF InTurn, OnItsWay
<1>8. NotPast(t)' /\ Complete(t)'
  BY <1>1 DEF NotPast, Complete, OnItsWay
<1> QED
  BY <1>6, <1>7, <1>8 DEF WholeInv, Whole

\* The end of a region of read_at: either bytes came and the position is where
\* they end, or there were none because the image ends there.
LEMMA AtRegionDone ==
  ASSUME IInv, NEW t \in Threads, RegionDone(t), call[t].op = "read_at"
  PROVE  Whole(t)'
<1>1. /\ UNCHANGED <<call, out>> /\ pc[t] = "fill" /\ Filled(t)
      /\ pos'[t] = pos[t] + filled[t]
      /\ pc'[t] = IF filled[t] = 0 THEN "ok" ELSE "next"
      /\ pos[t] \in Nat /\ filled[t] \in Nat /\ call[t] \in Call
      /\ out[t] \in Seq(Nat) /\ cursor = Region(t) + filled[t]
      /\ filled[t] <= Want(t)
      /\ call[t].off + Len(out[t]) = pos[t] + filled[t]
  BY DEF RegionDone, Goto, IInv, TypeOK, CursorIsMine, WithinWant, InStep
<1>2. /\ Region(t) \in Nat /\ pos[t] < End(call[t])
      /\ Want(t) \in Nat /\ Want(t) > 0
  BY <1>1, RegionNat
<1>3. End(call[t]) \in Nat
  <2>1. /\ call[t].off \in Nat /\ call[t].len \in Nat /\ call[t].total \in Nat
    BY <1>1 DEF Call
  <2> QED
    BY <2>1 DEF End, LesserOf
<1>4. NotPast(t)'
  <2>1. Want(t) <= End(call[t]) - pos[t]
    <3>1. /\ pos[t] % ClusterSize \in Nat /\ pos[t] % ClusterSize < ClusterSize
          /\ ClusterSize \in Nat
      BY <1>1, DivMod, ReadAssumption
    <3> QED
      BY <1>1, <1>2, <1>3, <3>1 DEF Want, LesserOf
  <2>2. pos[t] + filled[t] <= End(call[t])
    BY <1>1, <1>2, <1>3, <2>1
  <2> QED
    BY <1>1, <2>2 DEF NotPast
<1>5. InTurn(t)'
  BY <1>1 DEF InTurn
<1>6. Complete(t)'
  <2> SUFFICES ASSUME pc'[t] = "ok" PROVE IsResult(call[t], out[t])
    BY <1>1 DEF Complete
  <2>1. filled[t] = 0
    BY <1>1
  <2>2. Loc(call[t], pos[t]) >= ImageLen
    BY <1>1, <1>2, <2>1 DEF Filled, Region
  <2>3. call[t].off + Len(out[t]) = pos[t]
    BY <1>1, <2>1
  <2>4. \A k \in 1 .. Len(out[t]) : out[t][k] = Loc(call[t], call[t].off + k - 1)
    BY DEF IInv, BytesInPlace
  <2> QED
    BY <2>2, <2>3, <2>4 DEF IsResult, IsReadAtResult
<1> QED
  BY <1>4, <1>5, <1>6 DEF Whole

\* The end of a region of a directory is the end of a turn.
LEMMA DirRegionDone ==
  ASSUME IInv, WholeInv, NEW t \in Threads, RegionDone(t),
         call[t].op = "read_dir"
  PROVE  Whole(t)'
<1>1. /\ UNCHANGED <<call, out, filled>> /\ pc[t] = "fill" /\ Filled(t)
      /\ pos'[t] = pos[t] + ClusterSize /\ pc'[t] = "next"
      /\ pos[t] \in Nat /\ filled[t] \in Nat /\ call[t] \in Call
      /\ out[t] \in Seq(Nat) /\ cursor = Region(t) + filled[t]
      /\ filled[t] <= Want(t)
  BY DEF RegionDone, Goto, IInv, TypeOK, CursorIsMine, WithinWant
<1> DEFINE c == call[t]  n == Len(c.chain)  r == Region(t)  f == filled[t]
<1>2. /\ r \in Nat /\ pos[t] < End(c) /\ pos[t] \div ClusterSize < n
      /\ Want(t) \in Nat /\ n \in Nat
  <2>1. /\ r \in Nat /\ pos[t] < End(c) /\ pos[t] \div ClusterSize < n
        /\ Want(t) \in Nat
    BY <1>1, RegionNat
  <2> QED
    BY <1>1, <2>1, DirTurnType
<1>3. PICK q \in 0 .. n : AtTurn(t, q)
  BY <1>1 DEF WholeInv, Whole, InTurn, OnItsWay
<1> DEFINE d == DirBytes(c)[q]
<1>4. /\ pos[t] = q * ClusterSize /\ Len(d) < MaxDirBytes
      /\ out[t] = d \o Slice(r, f) /\ d \in Seq(Nat)
  BY <1>1, <1>3, DirBytesTurns DEF AtTurn
<1>5. /\ q \in Nat /\ pos[t] \div ClusterSize = q /\ pos[t] % ClusterSize = 0
      /\ (q + 1) * ClusterSize = q * ClusterSize + ClusterSize
  BY <1>2, <1>4, TurnStart
<1>6. q + 1 \in 1 .. n /\ q + 1 \in 0 .. n /\ (q + 1) - 1 = q
  BY <1>2, <1>5
<1>7. r = cluster_offset(c.chain[q + 1])
  <2>1. cluster_offset(c.chain[q + 1]) \in Nat
    BY <1>1, <1>6, ClusterOffsetNat
  <2> QED
    BY <1>5, <2>1 DEF Region, Loc
<1>8. Want(t) = ClusterSize
  <2>1. End(c) = n * ClusterSize
    BY DEF End
  <2>2. n * ClusterSize >= (q + 1) * ClusterSize
    <3> HIDE DEF n
    <3>1. n >= q + 1 /\ q + 1 \in Nat /\ ClusterSize \in Nat
      BY <1>2, <1>5, <1>6, ReadAssumption
    <3> QED
      BY <1>2, <3>1
  <2>3. n * ClusterSize \in Nat /\ q * ClusterSize \in Nat /\ ClusterSize \in Nat
    BY <1>2, <1>5, Product, ReadAssumption
  <2>4. Want(t) = LesserOf(n * ClusterSize - q * ClusterSize, ClusterSize - 0)
    BY <1>4, <1>5, <2>1 DEF Want
  <2> DEFINE x == n * ClusterSize  y == q * ClusterSize
  <2>5. x \in Nat /\ y \in Nat /\ x >= y + ClusterSize
    BY <1>5, <2>2, <2>3
  <2>6. Want(t) = LesserOf(x - y, ClusterSize - 0)
    BY <2>4
  <2> HIDE DEF x, y
  <2> QED
    BY <2>3, <2>5, <2>6 DEF LesserOf
<1>9. Slice(r, f) = Slice(r, ClusterSize)
  <2>1. f = ClusterSize \/ r + f >= ImageLen
    BY <1>1, <1>8 DEF Filled
  <2>2. f <= ClusterSize /\ f \in Nat /\ ClusterSize \in Nat
    BY <1>1, <1>8, ReadAssumption
  <2> HIDE DEF r, f
  <2> QED
    BY <1>2, <2>1, <2>2, SliceAtEnd
<1>10. DirBytes(c)[q + 1] = d \o Slice(r, ClusterSize)
  <2>1. DirBytes(c)[q + 1] =
          IF Len(DirBytes(c)[(q + 1) - 1]) >= MaxDirBytes
          THEN DirBytes(c)[(q + 1) - 1]
          ELSE DirBytes(c)[(q + 1) - 1]
               \o Slice(cluster_offset(c.chain[q + 1]), ClusterSize)
    BY <1>1, <1>6, DirBytesTurns
  <2>2. Len(d) \in Nat /\ MaxDirBytes \in Nat
    BY <1>4, ReadAssumption
  <2>3. ~(Len(d) >= MaxDirBytes)
    BY <1>4, <2>2
  <2>4. DirBytes(c)[(q + 1) - 1] = d
    BY <1>6
  <2> HIDE DEF d, r
  <2> QED
    BY <1>7, <2>1, <2>3, <2>4
<1>11. AtTurn(t, q + 1)'
  <2>1. pos'[t] = (q + 1) * ClusterSize
    BY <1>1, <1>4, <1>5
  <2>2. out'[t] = DirBytes(c)[q + 1]
    BY <1>1, <1>4, <1>9, <1>10
  <2> QED
    BY <1>1, <2>1, <2>2 DEF AtTurn
<1>12. InTurn(t)'
  BY <1>1, <1>6, <1>11 DEF InTurn
<1>13. NotPast(t)' /\ Complete(t)'
  BY <1>1 DEF NotPast, Complete
<1> QED
  BY <1>12, <1>13 DEF Whole

LEMMA RegionDoneKeepsWhole ==
  ASSUME IInv, WholeInv, NEW t \in Threads, RegionDone(t)
  PROVE  WholeInv'
<1>1. /\ UNCHANGED <<call, out, filled>>
      /\ \A u \in Threads \ {t} : pc'[u] = pc[u] /\ pos'[u] = pos[u]
      /\ call[t].op \in {"read_at", "read_dir"}
  BY DEF RegionDone, Goto, IInv, TypeOK
<1>2. \A u \in Threads \ {t} : Whole(u)'
  BY <1>1, WholeStays DEF WholeInv
<1>3. Whole(t)'
  BY <1>1, AtRegionDone, DirRegionDone
<1> QED
  BY <1>2, <1>3 DEF WholeInv

\* Nothing is read yet: a directory is before its first cluster.
LEMMA WholeInit == Init => WholeInv
<1> SUFFICES ASSUME Init, NEW t \in Threads PROVE Whole(t)
  BY DEF WholeInv
<1>1. call[t] \in Call /\ pc[t] = "next" /\ out[t] = <<>>
  BY CallsAssumption DEF Init
<1>2. InTurn(t)
  <2>1. SUFFICES ASSUME call[t].op = "read_dir" PROVE AtTurn(t, 0)
    <3>1. 0 \in 0 .. Len(call[t].chain)
      BY <1>1, DirTurnType
    <3> QED
      BY <3>1 DEF InTurn
  <2>2. pos[t] = 0 /\ 0 * ClusterSize = 0
    BY <2>1, ReadAssumption DEF Init
  <2>3. DirBytes(call[t])[0] = <<>>
    BY <1>1, DirBytesTurns
  <2> QED
    BY <1>1, <2>2, <2>3 DEF AtTurn
<1>3. NotPast(t) /\ Complete(t)
  BY <1>1 DEF NotPast, Complete
<1> QED
  BY <1>2, <1>3 DEF Whole

LEMMA WholeStep == IInv /\ WholeInv /\ [Next]_vars => WholeInv'
<1> SUFFICES ASSUME IInv, WholeInv, [Next]_vars PROVE WholeInv'
  OBVIOUS
<1>1. CASE UNCHANGED vars
  BY <1>1, WholeStays DEF vars, WholeInv
<1>2. CASE Next
  BY <1>2, MovesKeepWhole, SeekKeepsWhole, ReadKeepsWhole, RegionDoneKeepsWhole
     DEF Next, Step
<1> QED
  BY <1>1, <1>2

\* Whatever the threads, the calls and the image, and however short the reads
\* are, a read that succeeds handed over all there is (fs.rs, read_at,
\* read_dir_bytes and read_fill).
THEOREM ReadsAreComplete == Spec => []OkIsComplete
<1>1. WholeInv => OkIsComplete
  BY DEF WholeInv, Whole, Complete, OkIsComplete
<1> QED
  BY <1>1, WholeInit, WholeStep, IInvAlways, PTL DEF Spec

-----------------------------------------------------------------------------
\* A thread that goes on, or that stays where it ended, shows nothing new.
LEMMA NothingAnswered ==
  ASSUME TypeOK, NEW t \in Threads, call' = call,
         \A u \in Threads \ {t} : pc'[u] = pc[u] /\ out'[u] = out[u],
         OnItsWay(t), OnItsWay(t)'
  PROVE  UNCHANGED Abs!vars
<1>1. \A u \in Threads \ {t} : Answered(u)' = Answered(u)
  BY DEF Answered
<1>2. Answered(t)' = Answered(t)
  BY DEF Answered, OnItsWay
<1>3. [u \in Threads |-> Answered(u)]' = [u \in Threads |-> Answered(u)]
  BY <1>1, <1>2
<1> QED
  BY <1>3 DEF Abs!vars

\* The abstract module asks the same of an answer.
LEMMA SameResult ==
  ASSUME NEW c, NEW s, IsResult(c, s)
  PROVE  Abs!IsResult(c, s)
<1>1. \A p : Abs!Loc(c, p) = Loc(c, p)
  BY DEF Abs!Loc, Loc, Abs!cluster_offset, cluster_offset
<1>2. Abs!End(c) = End(c)
  BY DEF Abs!End, End, Abs!LesserOf, LesserOf
<1>3. Abs!IsReadAtResult(c, s) = IsReadAtResult(c, s)
  BY <1>1, <1>2 DEF Abs!IsReadAtResult, IsReadAtResult
<1>4. \A o, n : Abs!Slice(o, n) = Slice(o, n)
  BY DEF Abs!Slice, Slice, Abs!LesserOf, LesserOf
<1>5. Abs!ReadDirResult(c) = ReadDirResult(c)
  BY <1>4 DEF Abs!ReadDirResult, ReadDirResult, Abs!FoldLeft, FoldLeft,
     Abs!MapThenFoldSet, MapThenFoldSet, Abs!Max, Max,
     Abs!cluster_offset, cluster_offset
<1> QED
  BY <1>3, <1>5 DEF Abs!IsResult, IsResult

\* A thread that ends, with an error or with all there is, answers its call.
LEMMA OneAnswer ==
  ASSUME TypeOK, NEW t \in Threads, call' = call,
         \A u \in Threads \ {t} : pc'[u] = pc[u] /\ out'[u] = out[u],
         OnItsWay(t),
         \/ pc'[t] \in {"failed", "dead"}
         \/ pc'[t] = "ok" /\ IsResult(call[t], out'[t])
  PROVE  Abs!Next
<1> DEFINE a == [u \in Threads |-> Answered(u)]
           b == [u \in Threads |-> Answered(u)']
<1>1. \A u \in Threads \ {t} : b[u] = a[u]
  BY DEF Answered
<1>2. a[t] = [kind |-> "pending", bytes |-> <<>>]
  BY DEF Answered, OnItsWay
<1>3. \/ b[t] = [kind |-> "failed", bytes |-> <<>>]
      \/ b[t] = [kind |-> "ok", bytes |-> out'[t]] /\ IsResult(call[t], out'[t])
  BY DEF Answered
<1>4. b = [a EXCEPT ![t] = b[t]]
  <2> DEFINE e == [a EXCEPT ![t] = b[t]]
  <2>1. \A u \in Threads : e[u] = b[u]
    BY <1>1
  <2>2. b = [u \in Threads |-> b[u]] /\ e = [u \in Threads |-> e[u]]
    OBVIOUS
  <2> HIDE DEF a, b, e
  <2>3. b = e
    BY <2>1, <2>2
  <2> QED
    BY <2>3 DEF e
<1>5. a' = b
  OBVIOUS
<1>6. \/ b[t] = Abs!Failed
      \/ b[t].kind = "ok" /\ IsResult(call[t], b[t].bytes)
  <2> HIDE DEF b
  <2> QED
    BY <1>3 DEF Abs!Failed
<1>7. Abs!Answer(t)
  <2>1. a[t] = Abs!Pending
    BY <1>2 DEF Abs!Pending
  <2>2. a' = [a EXCEPT ![t] = a'[t]]
    <3> HIDE DEF a, b
    <3> QED
      BY <1>4, <1>5
  <2>3. \/ a'[t] = Abs!Failed
        \/ a'[t].kind = "ok" /\ IsResult(call[t], a'[t].bytes)
    <3> HIDE DEF a, b
    <3> QED
      BY <1>5, <1>6
  <2>4. \/ a'[t] = Abs!Failed
        \/ a'[t].kind = "ok" /\ Abs!IsResult(call[t], a'[t].bytes)
    <3> HIDE DEF a
    <3> QED
      BY <2>3, SameResult
  <2> QED
    BY <2>1, <2>2, <2>4 DEF Abs!Answer
<1> QED
  BY <1>7 DEF Abs!Next

\* A step of a thread is a whole answer or shows nothing.
LEMMA AnswerStep ==
  ASSUME IInv, WholeInv, WholeInv', [Next]_vars
  PROVE  [Abs!Next]_(Abs!vars)
<1> USE DEF IInv
<1>1. CASE UNCHANGED vars
  <2>1. \A u \in Threads : Answered(u)' = Answered(u)
    BY <1>1 DEF vars, Answered
  <2>2. [u \in Threads |-> Answered(u)]' = [u \in Threads |-> Answered(u)]
    BY <2>1
  <2> QED
    BY <1>1, <2>2 DEF vars, Abs!vars
<1>2. ASSUME NEW t \in Threads, Step(t) \/ Fail(t) \/ Panic(t)
      PROVE  [Abs!Next]_(Abs!vars)
  <2>1. /\ call' = call
        /\ \A u \in Threads \ {t} : pc'[u] = pc[u] /\ out'[u] = out[u]
    BY <1>2 DEF Step, NextRegion, Finish, Lock, LockPoisoned, Seek, ReadSome,
       RegionDone, Fail, Panic, Goto, TypeOK
  <2>2. /\ OnItsWay(t)
        /\ OnItsWay(t)' \/ pc'[t] \in {"ok", "failed", "dead"}
    BY <1>2 DEF Step, NextRegion, Finish, Lock, LockPoisoned, Seek, ReadSome,
       RegionDone, Fail, Panic, Goto, TypeOK, OnItsWay, Holding
  <2>3. pc'[t] = "ok" => IsResult(call[t], out'[t])
    BY <2>1 DEF WholeInv, Whole, Complete
  <2> QED
    BY <2>1, <2>2, <2>3, NothingAnswered, OneAnswer
<1> QED
  BY <1>1, <1>2 DEF Next

\* However the regions of the calls interleave, what the callers see is one
\* whole answer at a time: the shared reader implements FatReadAbs (fs.rs,
\* read_at and read_dir_bytes over read_region).
THEOREM ReadsImplementAbs == Spec => ReadsAreAtomic
<1>1. Init => Abs!Init
  <2> SUFFICES ASSUME Init PROVE Abs!Init
    OBVIOUS
  <2>1. call \in [Threads -> Call]
    BY CallsAssumption DEF Init
  <2>2. \A t \in Threads : Answered(t) = [kind |-> "pending", bytes |-> <<>>]
    BY DEF Init, Answered
  <2> QED
    BY <2>1, <2>2 DEF Abs!Init, Abs!Pending, Abs!Call, Abs!Cluster, Call, Cluster
<1>2. IInv /\ WholeInv /\ WholeInv' /\ [Next]_vars => [Abs!Next]_(Abs!vars)
  BY AnswerStep
<1> QED
  BY <1>1, <1>2, WholeInit, WholeStep, IInvAlways, PTL DEF Spec, ReadsAreAtomic
=============================================================================

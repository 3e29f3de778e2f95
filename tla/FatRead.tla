------------------------------- MODULE FatRead -------------------------------
(***************************************************************************)
(* Threads that share one FatFs (core/src/fs.rs).  The reader sits behind  *)
(* a Mutex and has a single cursor; each region of a call is read under    *)
(* the lock by a seek and a loop of short reads, and the lock is given     *)
(* back between regions, so regions of different calls interleave.         *)
(*                                                                         *)
(* Seeks and reads may fail, reads may be short, and the reader may panic  *)
(* while the lock is held, which poisons the Mutex.  A read that is        *)
(* Interrupted is retried with nothing changed: a stuttering step.         *)
(***************************************************************************)
EXTENDS FatReadCalls

CONSTANTS
  Threads,
  Calls         \* what a thread may ask for

ASSUME CallsAssumption == Calls \subseteq Call

VARIABLES
  call,         \* the call of each thread, fixed
  pc,
  pos,          \* read_at's `pos`; for a directory, start of the next cluster
  out,          \* bytes handed over so far
  filled,       \* read_fill's `filled`
  owner,        \* set of threads that hold the Mutex
  poisoned,
  cursor        \* position of the underlying reader

vars == <<call, pc, pos, out, filled, owner, poisoned, cursor>>

\* "next": top of the loop over clusters.  "lock": waiting for the Mutex.
\* "seek", "fill": inside read_region.  "dead": unwound by a panic.
Labels == {"next", "lock", "seek", "fill", "ok", "failed", "dead"}
Holding == {"seek", "fill"}

\* The region a thread reads: where it starts and how much of it is wanted.
Region(t) == Loc(call[t], pos[t])
Want(t) ==
  LesserOf(End(call[t]) - pos[t], ClusterSize - (pos[t] % ClusterSize))

Init ==
  /\ call \in [Threads -> Calls]
  /\ pc = [t \in Threads |-> "next"]
  /\ pos = [t \in Threads |-> IF call[t].op = "read_at" THEN call[t].off ELSE 0]
  /\ out = [t \in Threads |-> <<>>]
  /\ filled = [t \in Threads |-> 0]
  /\ owner = {}
  /\ poisoned = FALSE
  /\ cursor = 0

Goto(t, label) == pc' = [pc EXCEPT ![t] = label]

\* Mutant: the last cluster of the chain never read.
HasRegionShort(t) ==
  /\ pos[t] < End(call[t])
  /\ pos[t] \div ClusterSize + 1 < Len(call[t].chain)
  /\ call[t].op = "read_dir" => Len(out[t]) < MaxDirBytes

\* There is a cluster left that the call wants.
HasRegion(t) ==
  /\ pos[t] < End(call[t])
  /\ pos[t] \div ClusterSize < Len(call[t].chain)
  /\ call[t].op = "read_dir" => Len(out[t]) < MaxDirBytes

NextRegion(t) ==
  /\ pc[t] = "next"
  /\ HasRegion(t)
  /\ Goto(t, "lock")
  /\ UNCHANGED <<call, pos, out, filled, owner, poisoned, cursor>>

Finish(t) ==
  /\ pc[t] = "next"
  /\ ~HasRegion(t)
  /\ Goto(t, "ok")
  /\ UNCHANGED <<call, pos, out, filled, owner, poisoned, cursor>>

\* Mutant: the reader used without waiting for its lock.
LockShared(t) ==
  /\ pc[t] = "lock"
  /\ ~poisoned
  /\ owner' = owner \cup {t}
  /\ Goto(t, "seek")
  /\ UNCHANGED <<call, pos, out, filled, poisoned, cursor>>

\* Mutant: into_inner on a poisoned lock.
LockAnyway(t) ==
  /\ pc[t] = "lock"
  /\ owner = {}
  /\ owner' = {t}
  /\ Goto(t, "seek")
  /\ UNCHANGED <<call, pos, out, filled, poisoned, cursor>>

\* `self.inner.lock()` of read_region.
Lock(t) ==
  /\ pc[t] = "lock"
  /\ owner = {}
  /\ ~poisoned
  /\ owner' = {t}
  /\ Goto(t, "seek")
  /\ UNCHANGED <<call, pos, out, filled, poisoned, cursor>>

\* The lock is poisoned: the call fails.
LockPoisoned(t) ==
  /\ pc[t] = "lock"
  /\ owner = {}
  /\ poisoned
  /\ Goto(t, "failed")
  /\ UNCHANGED <<call, pos, out, filled, owner, poisoned, cursor>>

Seek(t) ==
  /\ pc[t] = "seek"
  /\ cursor' = Region(t)
  /\ filled' = [filled EXCEPT ![t] = 0]
  /\ Goto(t, "fill")
  /\ UNCHANGED <<call, pos, out, owner, poisoned>>

\* Mutant: the error returned with the lock still held.
FailHolding(t) ==
  /\ pc[t] \in Holding
  /\ Goto(t, "failed")
  /\ UNCHANGED <<call, pos, out, filled, owner, poisoned, cursor>>

\* The seek or a read fails: `?` leaves read_region, which drops the guard.
Fail(t) ==
  /\ pc[t] \in Holding
  /\ owner' = owner \ {t}
  /\ Goto(t, "failed")
  /\ UNCHANGED <<call, pos, out, filled, poisoned, cursor>>

\* The reader panics under the lock: unwinding poisons it and drops the guard.
Panic(t) ==
  /\ pc[t] \in Holding
  /\ owner' = owner \ {t}
  /\ poisoned' = TRUE
  /\ Goto(t, "dead")
  /\ UNCHANGED <<call, pos, out, filled, cursor>>

\* One `read` of read_fill: at least a byte, at most what is left of the
\* region and of the image.
ReadSome(t) ==
  /\ pc[t] = "fill"
  /\ filled[t] < Want(t)
  /\ \E n \in 1 .. LesserOf(Want(t) - filled[t], ImageLen - cursor) :
       /\ out' = [out EXCEPT ![t] = @ \o Slice(cursor, n)]
       /\ filled' = [filled EXCEPT ![t] = @ + n]
       /\ cursor' = cursor + n
  /\ UNCHANGED <<call, pc, pos, owner, poisoned>>

\* Mutant: read_region made of a single `read`.
FilledOnce(t) == filled[t] > 0 \/ cursor >= ImageLen

\* The buffer is full, or `read` returned 0.
Filled(t) == filled[t] = Want(t) \/ cursor >= ImageLen

\* Mutant: the position moved by what was wanted, not by what was read.
RegionDoneSkips(t) ==
  /\ pc[t] = "fill"
  /\ Filled(t)
  /\ owner' = owner \ {t}
  /\ pos' = [pos EXCEPT ![t] = @ + Want(t)]
  /\ Goto(t, "next")
  /\ UNCHANGED <<call, out, filled, poisoned, cursor>>

\* read_region returns and drops the guard.  read_at goes on where the bytes
\* stopped and gives up on an empty region; a directory goes on with its next
\* cluster, however much of this one there was.
RegionDone(t) ==
  /\ pc[t] = "fill"
  /\ Filled(t)
  /\ owner' = owner \ {t}
  /\ \/ /\ call[t].op = "read_at"
        /\ pos' = [pos EXCEPT ![t] = @ + filled[t]]
        /\ Goto(t, IF filled[t] = 0 THEN "ok" ELSE "next")
     \/ /\ call[t].op = "read_dir"
        /\ pos' = [pos EXCEPT ![t] = @ + ClusterSize]
        /\ Goto(t, "next")
  /\ UNCHANGED <<call, out, filled, poisoned, cursor>>

\* What a thread does of itself, and what its reader does to it.
Step(t) ==
  \/ NextRegion(t) \/ Finish(t) \/ Lock(t) \/ LockPoisoned(t)
  \/ Seek(t) \/ ReadSome(t) \/ RegionDone(t)

Next == \E t \in Threads : Step(t) \/ Fail(t) \/ Panic(t)

\* Each thread keeps running; nothing forces a reader to fail.  The Mutex need
\* not be fair: a call takes the lock finitely often.
Spec == Init /\ [][Next]_vars /\ \A t \in Threads : WF_vars(Step(t))

-----------------------------------------------------------------------------
\* The locals of the two loops, the Mutex and the reader keep their types: no
\* position is ever negative (fs.rs, read_at, read_dir_bytes, read_fill).
TypeOK ==
  /\ call \in [Threads -> Call]
  /\ pc \in [Threads -> Labels]
  /\ pos \in [Threads -> Nat]
  /\ out \in [Threads -> Seq(Nat)]
  /\ filled \in [Threads -> Nat]
  /\ owner \in SUBSET Threads
  /\ poisoned \in BOOLEAN
  /\ cursor \in Nat

\* Nobody is inside read_region without the lock, nobody else holds it, and a
\* call that ended, even by an error or a panic, gave it back (fs.rs,
\* read_region: the guard lives until the return).
LockIsExclusive ==
  \A t, u \in Threads :
    /\ t \in owner <=> pc[t] \in Holding
    /\ t \in owner /\ u \in owner => t = u

\* The cursor is where the reading thread believes it is: no seek of another
\* thread comes between its seek and its reads (fs.rs, read_region).
CursorIsMine ==
  \A t \in Threads : pc[t] = "fill" => cursor = Region(t) + filled[t]

\* Byte k of what read_at hands over is byte off + k of the node, at every
\* moment and whatever the other threads read (fs.rs, read_at).
BytesInPlace ==
  \A t \in Threads :
    call[t].op = "read_at" =>
      \A k \in 1 .. Len(out[t]) : out[t][k] = Loc(call[t], call[t].off + k - 1)

\* A call that succeeds hands over all there is: read_at stops only where the
\* buffer, the size, the chain or the image ends, and a directory has every
\* byte its clusters have in the image (fs.rs, read_at and read_dir_bytes over
\* read_fill, whose reads may be short).
OkIsComplete ==
  \A t \in Threads : pc[t] = "ok" => IsResult(call[t], out[t])

\* Once a panic left the cursor anywhere, nobody reads through it again
\* (fs.rs, read_region: "reader lock poisoned").
PoisonIsFinal == [][poisoned => UNCHANGED <<out, cursor>>]_vars

\* Every call comes back, or its thread is unwound by its own reader's panic.
CallsReturn ==
  \A t \in Threads : <>(pc[t] \in {"ok", "failed", "dead"})

-----------------------------------------------------------------------------
Answered(t) ==
  CASE pc[t] = "ok" -> [kind |-> "ok", bytes |-> out[t]]
    [] pc[t] \in {"failed", "dead"} -> [kind |-> "failed", bytes |-> <<>>]
    [] OTHER -> [kind |-> "pending", bytes |-> <<>>]

Abs == INSTANCE FatReadAbs WITH answer <- [t \in Threads |-> Answered(t)]

\* The interleaved regions look like one atomic read per call: the abstract
\* module's only steps are whole answers (fs.rs, read_at and read_dir_bytes).
ReadsAreAtomic == Abs!Init /\ [][Abs!Next]_(Abs!vars)
=============================================================================

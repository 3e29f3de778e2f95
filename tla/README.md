# A TLA+ model of fat-forensic

`fat-forensic` reads FAT12/16/32 and exFAT volumes (`core/`, crate `fat-core`),
audits them (`forensic/`) and lists them (`cli/`).  Every byte it looks at comes
from a disk image it has no reason to trust: chains come round, long names are
half overwritten, counts lie, images stop in the middle.  It never writes.  What
can go wrong is therefore not a corrupted volume but a *plausible wrong answer*,
a loop that does not end, or an audit that says nothing because it did not look.

These modules describe the code as it is, check it with TLC on small volumes
with all the contents that the code tells apart, and prove the properties that
matter most for every volume, every call and every number of threads.

## Inventory

| Component | Source | State | Operations | Modules |
|---|---|---|---|---|
| FAT table, cluster chains | `core/src/fat.rs`, `bytes.rs` | the list under way (`chain`, `cluster`) | `fat_entry`, `is_eoc`, `is_bad`, `follow_chain` | `FatTable`, `FatChain`, `FatChainAbs` |
| Shared reader | `core/src/fs.rs` | Mutex, poison flag, one cursor; per call `pos`, `written`, `filled` | `read_at`, `read_dir_bytes`, `read_region`, `read_fill` | `FatReadCalls`, `FatRead`, `FatReadAbs` |
| FAT directories | `core/src/dirent.rs` | pending long-name parts and checksum | `parse_directory`, `reassemble_long`, `decode_short` | `FatDir` |
| exFAT directories | `core/src/exfat.rs` | position of the scan | `parse_directory`, `decode_set` | `ExfatDir` |
| Navigation | `core/src/fs.rs` | none but the volume: ids are re-resolved on every call | `read_dir`, `lookup`, `meta`, `runs`, `read_at`, `resolve_entry` | `FatVolume`, `FatNav` |
| VFS adapter | `core/src/vfs.rs` | none | `read_dir`, `lookup`, `meta`, `extents`, `read_at`, id mapping, `ino_of` | `FatNav` |
| Geometry | `core/src/boot.rs`, `exfat.rs` | none | `Geometry::parse`, `read_fields`, `parse_boot`; `cluster_offset` | `BootGeometry`; `FatReadCalls` for the last |
| Opening | `core/src/fs.rs` | geometry, cached FAT, limit of chains: written once | `open`, `read_upto` | `FatOpen` |
| exFAT checksum | `core/src/exfat.rs` | running sum | `boot_checksum` | `BootChecksum` |
| Timestamps | `core/src/time.rs` | none | `decode`, `days_from_civil` | `FatTime` |
| Audit | `forensic/src/lib.rs` | anomalies, recursion, `seen` | `audit_reader` and its checks, `collect_deleted` | `Audit` |
| Command line | `cli/src/main.rs` | recursion, exit code | `run`, `list` | `Cli`, which composes `Audit` |

How they interact: `FatFs::open` parses the boot sector, caches FAT1 and keeps
the reader behind a `Mutex`.  Every later call is a chain of pure decoding
(`fat.rs`, `dirent.rs`, `exfat.rs`) around reads through that Mutex.  A node is
named by a `FileId`, the first cluster of its directory and a slot index; each
call resolves it again by reading and scanning the directory.  The VFS adapter
translates ids, filters and forwards.  The audit does its checks with the raw
reader and hands it to a `FatFs` for the walk.  The command line lists the tree
through one `FatFs` and then audits the same path, which is opened again.

What is hard, by component:

- **chains**: cycles and cross links; entries that straddle bytes or the end of
  the table; a cap that must stop the first without cutting sound files;
- **shared reader**: two threads and one cursor; the lock given back between
  clusters; short reads, errors and panics under the lock; truncated images;
- **FAT directories**: long-name parts orphaned, reordered, bound elsewhere;
- **exFAT directories**: secondary counts that lie, over the end marker too;
- **navigation**: a directory listed one way and resolved another; markers that
  share a type with cluster numbers; two computations of the same extent;
- **adapter**: what it lists and what it resolves go through different filters;
  one integer stands for a cluster and a slot;
- **geometry, opening**: the cluster count decides the variant, the variant the
  width of a FAT entry and the place of the root, so that one sector miscounted
  changes every later answer; fields that contradict each other; a cache that is
  all there is of the FAT;
- **exFAT checksum**: one byte that a later one makes up for; flags that change
  on every mount; a region cut short;
- **timestamps**: dates that no calendar has, leap centuries, tenths that run on
  into the next second;
- **audit**: rings and cross links in the tree, depth and revisit bounds, errors
  that are dropped;
- **command line**: the same walk without a record of what was seen, its errors
  dropped too, and two walks that ought to tell one story.

There is no persistence, no message passing and no retry but that of an
interrupted read, so there are no models of crashes, losses or duplicates.

## Modules

**`FatTable`** decodes one FAT entry: the byte readers of `bytes.rs` (a window
outside the slice reads as 0), the three packings, the markers.  A slice is a
sequence of bytes.  Cluster numbers stay far from the width of `usize`, where
`saturating_mul` would matter.

**`FatChain`** is `follow_chain`, one action per way an iteration goes:
`CapReached` (the `while` condition fails), `ReservedCluster`, `LastCluster`
(push, then break) and `NextCluster`.  `FatChainAbs` is what the callers rely on:
one step that returns the longest walk that the FAT and the cap allow.
`ImplementsAbs` is the refinement.

**`FatReadCalls`** has the place of a byte of a node in the image and what the
two calls promise.  A byte *is* its image offset, so that "the right byte" can
be said.  **`FatRead`** is the threads: per cluster region `NextRegion`, `Lock`,
`Seek`, a number of `ReadSome`, `RegionDone`; and, at any moment with the lock
held, `Fail` (an error of seek or read, `?`) or `Panic` (which poisons).  An
interrupted read is retried with nothing changed, a stuttering step.  The cluster
list of a call is given: to compute it, the code reads the parent directory,
which is another such call.  The fixed root region is one region without a
chain, a special case of a one-cluster directory.  `FatReadAbs` answers each call
in one step, as if it were alone.

**`FatDir`** is `parse_directory` of `dirent.rs`, one action per arm of the loop:
`End`, `DeletedLfn`, `DeletedShort`, `LfnPart`, `ShortEntry`.  Pending parts are
kept as slot indices, so that one can say where a part of a name came from.  The
stable sort of `reassemble_long` is given by rank, a part's place being the number
of parts before it.  The 8.3 name is data: `long = <<>>` means that it stands.

**`ExfatDir`** is `parse_directory` of `exfat.rs`: `End`, `OtherSlot`, `FileSet`,
with `decode_set` as an operator.

**`FatVolume`** is `fs.rs` over a volume that does not change, as operators with
the names of the functions: `resolve_entry`, `dir_source`, `read_dir`, `lookup`,
`clusters`, `data_extent`, `runs`, `read_at` and the rest.  The unit is one
32-byte slot, decoded slots and decoded FAT links are data: `FatDir`, `ExfatDir`
and `FatChain` decode them.  `MarkerAssumption` says of the marker `u32::MAX` what
holds of every volume: no FAT has that entry, and that cluster, which is at least
a sector long, lies behind the last of less than 2^32 sectors.  **`FatNav`** is a caller that goes from node to node
by `ReadDir` and `Lookup` and comes back with ids, or goes through the adapter
of `vfs.rs`, which is there as operators too: `vfs_read_dir` with its filter,
`vfs_lookup`, `vfs_meta`, `vfs_extents`, `vfs_read_at`, the id mapping and `ino_of`.

**`BootGeometry`** is the boot sector as a record of its fields, within the
limits of their widths, and what the two parsers make of it.  **`FatOpen`** is
`open` as its steps: `ReadBoot`, `Parse`, `CacheFat`, each of which may fail.
The image was written by a formatter, whose layout is a record of numbers
(`Written`, a reference that is no part of the code), or it carries any boot
sector at all.  `Sound` says which layouts a variant can have: on FAT12/16/32 up
to 128 sectors to a cluster and a heap that follows the root region at once, on
exFAT clusters up to 32 MiB and a heap anywhere behind the FATs, as long as its
first sector fits 32 bits.  FAT32 and exFAT may have their root in any cluster.
Bytes are not kept: the cache is a place and a length.

**`BootChecksum`** runs the loop of `boot_checksum` side by side over the bytes
as they were when the stored sum was made and as they are now: `Skipped` is the
`continue` of the flag bytes, `Added` the rotation and the addition.  The stored
sum (`Seal`) leaves out the fields that exFAT gives to the mount (`VolumeFlags`,
`PercentInUse`), the sum of the code the offsets that the code has (`Excluded`):
an offset too many or too few in the code makes them differ.

**`FatTime`** is `decode` with its clamps, and a calendar to hold it against:
`NextDay`, `NextMonth` and `NextYear` count days from 1970-01-01.  Unix seconds
are a pair of day and second, for together they pass TLC's integers.

**`Audit`** is `audit_reader`: `Boot`, then `CheckExfatChecksum`, `CheckFatMirror`
or `NoMirror`, then `Open` or `OpenFails`, and the walk.  The recursion of
`collect_deleted` is a stack of listings: `Deleted`, `Descend`, `Pass`, `Return`.
A failed read ends the checks with an error (`CheckFails`) and is passed over in
the walk; the history variable `skipped` remembers what was passed over and why
(too deep, a read that failed, an id that does not lead back to a directory),
which the code does not.  Its properties of the walk are about trees whose directories
are all found again (`AllFound`): from `MaxIndex` on slots share an id, and a
NoFatChain directory that its FAT chain disagrees with is read another way by the
ids of its children, so that either may lead the walk elsewhere.  For the same
reason `TwoWalksAgree` leaves out reports with a saturated index, where a label
cannot be told from another entry.  **`Cli`** extends it: `OpenVolume` or `OpenVolumeFails`, the
listing as a second stack (`SkipNode`, `PrintNode`, `ListDirectory`,
`ListReturns`), then the steps of the audit, then `Exit`.

The `MC*` modules hold the small volumes.  Operators commented as mutants are
plausible mistakes in the definition next to them; each property is broken by
one (`PROJECT.json` pairs them), which shows that the bounds are large enough
for the property to matter.

## Runs

| Run | Shows | Bounds |
|---|---|---|
| `fat_chain` | a chain is linked, capped, whole if it is sound; the loop ends and is one abstract step; an entry is its bits | three data clusters; each entry free, reserved, any cluster, one outside, bad or end; three packings; table whole or one byte short; starts inside, outside and reserved. Tables of up to 5 arbitrary bytes over 4 values, of 11 for the 32-bit packing |
| `fat_read` | the cursor stays undisturbed, reads are in place, complete, atomic; a poisoned reader is not used; calls return | 2 threads, 10 calls, 5 clusters of 2 bytes: whole, truncated and missing ones; cap of 4 on a directory |
| `fat_dir` | entries keep to their own long names, none is hidden | all directories of up to 5 slots of 9 kinds, two-slot names, 2 checksums |
| `exfat_dir` | entry sets are disjoint, none is missed, only a lying count leads past an end marker, sound sets are read right | all directories of up to 5 slots of 10 kinds, counts 0 to 3, 2 units to a name slot |
| `fat_nav` | ids are stable, VFS ids and metadata addresses are exact, what the adapter lists it finds, runs are what is read | 4 clusters of 2 slots, links in order, out of order, in rings; FAT12, FAT32, exFAT; an image with a cluster cut in half; indices saturate at 6 in directories of up to 8 slots |
| `audit` | the audit ends, is complete unless a directory lies too deep or a read fails, reports once, does not enter deleted directories | directories of 2 slots in 3 clusters linked in all ways, recursion cap of 3, every outcome of the checks, any read failing |
| `fat_open` | an accepted layout fits its volume, a written one is found, its FAT is cached to the last entry | layouts of the four variants with cluster counts on both sides of 4085, 65525, of what fills a FAT sector and of 2^26; exFAT clusters from a sector to 32 MiB, with and without a gap before the heap, and roots that are not cluster 2; boot sectors with each field right, at its limits and wrong; images that end before, in and behind FAT1 |
| `boot_checksum` | one changed byte is told, changed flags are not | words of 16 bits; the flags at their real offsets; regions of 11 sectors of 12 bytes with a byte behind them, and of 110 bytes, cut off between the flags; each byte changed or none, with or without changed flags |
| `fat_time` | days are counted, the order of timestamps is kept | every day from 1970 to 2107, which is the last a date can hold; 7 times at the limits of their fields |
| `cli` | listing and audit agree about what is deleted; the program ends | the trees of `audit`, with deleted volume labels; recursion cap of 3; any read failing |

Why these bounds are enough: the loops look at one entry, slot or region at a
time and keep little state (a pending name, a position, a last cluster).  A
counterexample needs a cycle and a tail (three clusters), a run of parts, a
breaker and an entry (four slots), a fragmented file with a boundary inside a
read (two clusters), two threads on one cursor.  The caps are scaled: the length
cap follows the number of clusters as in the code, `MAX_DIR_BYTES` is 4 or 8,
`MAX_DEPTH` is 3 for 64, `MaxIndex` is 6 for 65535 in `fat_nav`.  `fat_open` has
the code's own numbers but for `U32_MAX`, which is 2^31 - 1 there, the largest
number TLC has; the proofs are for every `U32_MAX` from there on.

### Where code and documentation disagree

Two runs check one sentence of a comment each, and TLC shows a behaviour of the
code that breaks it.

| Run | Property | The text says | The code |
|---|---|---|---|
| `fat_dir_doc` | `PartsAreBound` | long-name parts are used "only if the checksum binds them" (`dirent.rs:163`) | compares that of the last part |
| `fat_nav_runs` | `RunsBackData` | runs are those "backing node `id`'s data" (`fs.rs:134`) | a file without clusters gets the root region |

Others have no run of their own.  Where a property would be refuted by them, it
says where it stops:

- an entry "can always be re-read" by its id (`fs.rs:22`), but indices saturate
  at 65535 (`dirent.rs:110`), so that far entries share an id, and an id is
  resolved by the FAT chain of its directory, which a NoFatChain directory does
  not have (`fs.rs:291`): `HandlesAreStable` excludes both (`Addressable`,
  `ReadAlike`) and says that nothing else keeps an entry from being found;
- the audit's arm for a directory that cannot be read is "unreachable"
  (`forensic/src/lib.rs:359`), but the directories in a later cluster of a
  NoFatChain one get there with a sound reader too, and all below them goes
  unaudited: `WalkIsComplete` says that no others do;
- an index is that "of the entry within its directory" (`fs.rs:33`), but a
  cluster the image cuts off shortens the directory in the middle, and the slots
  after it get lower indices (`fs.rs:381`): in the models a directory is what the
  code reads of it;
- "parsing stops at the first end-of-directory marker" (`exfat.rs:58`), but a
  secondary count steps over one (`exfat.rs:77`): `ListsEverySet` says that
  only the count of a set that is listed does;
- `parse_boot` fails "on any invalid field" (`exfat.rs:134`), but takes offsets
  and counts as they stand: FATs that reach into the heap, more clusters than
  there is room for (`exfat.rs:172`).  Of exFAT, `LayoutFitsVolume` has only that
  the root lies in the heap;
- the exit code is 1 for an "open/read error" (`main.rs:20`), but once the volume
  is open it is 0, whatever cannot be read (`main.rs:68`, `main.rs:81`);
- a read error during the FAT read "surfaces loud" (`forensic/tests/audit.rs:147`),
  but not on exFAT, nor with one FAT, where the volume that does not open is
  passed over (`forensic/src/lib.rs:271`);
- the cap of 256 MiB on the cached FAT (`fs.rs:107`) lies below the largest FATs
  FAT32 and exFAT can have: `EntriesCached` holds up to the cap;
- "Out-of-range fields are clamped" (`time.rs:18`), but 30 and 31 two-second
  steps are not and pass into the next minute: `OrderIsKept` is about times of
  the clock;
- `follow_chain` returns an out-of-range next cluster before it stops at it
  (`fat.rs:55`);
- `read_at` of the fixed root returns 0 at the start of a region that `runs`
  reports (`fs.rs:199`);
- the audit has no anomaly for the cross-linked chains that the README names
  (`README.md:20`), and does not compare a third FAT copy (`forensic/src/lib.rs:320`).

## Fairness and termination

`FatChain`, `Audit` and `Cli` are loops of one thread that never wait: weak
fairness of the whole step says that the processor keeps running them.  `FatRead` has weak
fairness of each thread's own steps, which is what an operating system that
schedules runnable threads gives.  It asks for no fairness of the Mutex: a
waiting thread gets the lock once the others have finished, for each takes it a
finite number of times.  There is no fairness on `Fail` and `Panic`.  A reader
that answers `Interrupted` for ever would keep its caller for ever, and the model
leaves that out.  `ListingEnds` and `AuditEnds` hold with the depth cap alone, on
rings too; how long the listing takes they do not say, and it grows with the
number of entries to the power of the cap.  The other modules state safety only.
Deadlock checking is off where the modelled call returns and nothing follows.

## Proofs

The modules named `*Proofs` hold for every value of the constants, from the
assumptions the modules name: volumes, starts, calls and regions are in their
types, the cluster size is positive, written layouts are `Sound` (the fields of a
boot sector can hold their numbers, the variant of a FAT volume is that of its
cluster count, and a root in the heap lies in it).

*Chains.*  The inductive invariant `Walk` adds three facts to `TypeOK` and
`ChainLinked`: `AtNext` (the cluster at hand is what the last entry names),
`Ended` (why the loop ended), and `Repeats` (once a cluster came back, the list
repeats up to its last cluster).  `Repeats` is the heart of `CyclesHitTheCap`:
if the walk came round, the last cluster is an earlier one, whose entry did not
end the chain, so only the cap can have.  `SaneChainsAreWhole` is a counting
argument: distinct clusters of the heap number at most `count`, the cap is
`count + 2`.  `Implements` shows the refinement.

`EntriesAreTheirBits` is arithmetic: a little-endian number is its bytes side by
side (`ByteAt`, `BitOfByte`), so a bit of an entry is a bit of the byte it lies in,
for one, two and four bytes; the FAT12 halves shift or mask the sixteen bits that
were read (`DivOfDiv`, `LowNibble`).

*Reads.*  `IInv` adds `HasCluster`, `WithinWant` and `InStep` to the checked
invariants.  The lock is exclusive, so nobody moves the cursor between a seek
and its reads; a region never crosses a cluster, so bytes that follow each other
in the image follow each other in the node (`LocAdvances`); `pos` is always
`off` plus what was handed over.  From it follow `TypeCorrect`, `LockExclusive`,
`CursorUndisturbed`, `ReadsBytesInPlace` and `PoisonedIsUnused`.  That a call
leaves nothing out needs `WholeInv` besides: at each turn of its loop (`AtTurn`) a
call has handed over exactly what the regions before it hold, within one
(`InTurn`) a beginning of the region more, and when it is done with success
(`Complete`) all that it promised.  For `read_dir_bytes` that promise is a fold
over the chain; the turns of the loop are its partial results (`DirTurn`,
`DirBytesTurns`).  `ReadsAreComplete` is the invariant, `ReadsImplementAbs` the
refinement of `FatReadAbs`: only the step that ends a call is one of its steps.

*FAT directories.*  `IInv` says what the loop knows at a slot: no end marker lies
behind it (`NoEndBehind`), the pending parts are the unbroken run of long-name
slots that ends there (`Pending`), and what it passed is listed, in order
(`Passed`).  `NamesAreOwn` and `EveryEntryIsListed` follow.  `NamesComeBack` adds
that parts numbered downwards, as they are stored, have the reverse ranks
(`WrittenOrder`), so that the pieces are put together in the order of the name.

*exFAT directories.*  `IInv` keeps every decoded set behind the position of the
scan and every file slot passed inside one of them; a set ends before the
position steps past its secondaries, which makes `NoSlotTwice` and
`NoSetPassedOver`: the end markers passed lie inside decoded sets too (`Covered`),
for the scan stops at the one it stands on.  `SetsComeBack` is the layout of the name: pieces of one length,
put end to end, have unit `n` in piece `n \div NameUnits` (`FlattenBlocks`).

*Induction.*  No induction theorem of the library can be used, for each takes a
predicate as an operator.  `FoldLemmas` goes round that for the cases at hand: a
set of counterexamples in `Nat` has a least element (`Least`, `NatInduct`), so
induction works on sets of numbers; and a fold over `1 .. n` has a sequence of
partial results (`FoldExists`, `ChainExists`), of which that argument shows that
the fold of the community modules is its last (`MaxUpTo`, `FlattenChain`).

*Opening.*  `LayoutFits`: `FieldsAreSane` and `Accepted` say what `parse` lets
through; `NothingIsCut` that none of its numbers is then saturated;
`LayoutIsOrdered` and `HeapFits` that the regions follow each other and the
clusters fill the volume up to less than one more.  `WrittenIsRead` goes from a
layout to its fields (`WrittenBpb`), and from the fields to what is read
(`FatIsRead`, `ExfatIsRead`); that a rest of fewer sectors than a cluster is not
counted is `CountIsExact`, and that the FAT has room for its entries
`TableHoldsEntries`.  On exFAT the sizes stand in the boot sector as exponents of
two: `LogIsShift` and `ShiftsFit` say that a sound layout's are within the limits
that `parse_boot` has and come back as the sizes they were made from.  The invariant `IInv` ties state to fields: the geometry is
the parsed boot sector, and the cache is FAT1 up to the cap and the end of the
image, from which `EntriesAreCached`.

*Checksum.*  A rotation and an addition of a fixed word are injective, so sums
that differ stay different under the same bytes, and equal ones stay equal.
`SumIInv` is `TellsOneByte` at every offset: equal before the first change, and
different after the only one.  That the code leaves out the fields of the format
and no others is `ExcludedAreFields`.  `OneByteIsTold` holds for every width and
region.

*Time.*  `March` counts the days to the 1st of March of a year; `MarchToMarch`
says that a year has 365 of them, or 366, as the calendar of its second part has.
With it the formula grows by one at each step of the calendar (`CountsDays`,
`CountsMonths`, `CountsYears`), which makes `days = days_from_civil(y, m, d)`
inductive (`CalendarIsFormula`), and `DaysCounted` follows.  `OrderKept` adds that
the seconds and hundredths of a day are ordered like their fields (`ClockOrder`).

*Navigation.*  `VolumeProofs` reasons about any volume, with slots, links, sizes
and counts of any value.  Its first part says what the functions of `fs.rs` give:
`follow_chain` a walk of bounded length (`FoldFollows`), `list_nodes` the slots of
the entries in ascending order (`AscendingLists`), so that a listing has nodes
under the marker of its directory with an index each (`IsListing`).
`DirUnder` is the core: a directory that is read alike from above, by its entry,
and from below, by the id of a child, which knows its first cluster only, is
listed and resolved alike.  It rests on `MarkerAssumption`, for an entry may name
the root region's marker as its cluster, and then its listing must be empty.
The inductive invariant `NavInv` says of the two nodes a caller holds where they
come from (what an id resolves to, or what a directory lists), and that their ids
are the root's or lie under a cluster of the heap or the root region (`Placed`),
which no type says.  From it follow `NodesAreTyped`, `HandlesStable`,
`IdsAreExact` and `ListedIsFound`.  For `RunsAreRead`, the fold that merges clusters into
runs covers exactly the positions of the data in front of it, cut at the end of
the data or the chain, and `read_at` hands over the same ones up to the first
that lies behind the image.

*Audit.*  `AuditInv` has, besides the types, what a walk in progress keeps to as
long as every directory met is found again (`AllFound`).  `FramesOK`: each frame is
the rest of the listing of a directory met, and frames but the root's are of
different directories, as a directory is marked as seen before its frame is there.
`OutMarked`: a report is marked by whether it came from the root's frame, and no
frame of that kind still holds an entry of its id; with an id told by the frame it
stands in, a second report of a kind is impossible, and both kinds only for a
clustered root that is entered again.  `LiveFor`: what was seen was entered
through a live entry.  `CompleteFor`: every entry of a directory met was handled,
or is left in a frame.  The frame that a live directory adds, or the rest of one
that an entry leaves, keeps each of them.  `NoneIsRepeated`, `LiveDirsOnly` and
`NoneIsMissed` read them off when the stack is empty; `AuditIsTyped` has the bound
on the recursion.  That nothing is passed over but for its depth or a failed read
is `FoundAreReadable`: the id of a node that a frame holds leads back to it, and so
to a directory that can be listed (`DirIsListed`, `DescendReadable`).

*Command line.*  The two walks are tied by paths: a path leads from the root
through live directories, in no more steps than a walk recurses (`IsPath`).
Each report is at the end of one (`AuditRouted`); and whatever is at the end of
one was printed, or is a label, or some frame of the listing has a node of the
path still to come to (`CliCovers`), unless a directory could not be read.  So
what is reported was printed.  For the other way, a set of directories is closed
if no live entry leads out of it, and the listing never leaves a closed set that
has the root (`CliWithin`, for all of them at once, since the one that matters is
known only when the audit is over): the directories a complete audit has seen are
one, and their deleted entries are reported.  `WalksAgree` is both.

`AuditAssumption`, `VolumesAssumption` and `MarkerAssumption` are types and the
place of the marker; nothing is assumed of how directories link to each other.

Model-checked only: liveness (`Returns`, `CallsReturn`, `AuditEnds`,
`ListingEnds`), which is out of the prover's reach.  Every invariant and every
action property that a passing run checks is also a theorem.

## Not modelled

- Text: 8.3 names, UTF-16 to strings, messages, severities, codes; the lines and
  columns of the listing.
- `--version` and the usage line of the command line, which touch no image.
- Error values, crate roots and re-exports; the fuzz targets, which are drivers.
- What the adapter answers with constants: kind and zone of the file system,
  other streams than the default one, deleted and unallocated streams.
- The bytes of a cached FAT in `FatOpen`: what a table cut short means to a chain
  is in `FatChain`.

## Plan

Done: every module of the inventory, every safety property of a passing run
proved, and the two refinements.

Next, in this order:

1. How deep a directory may be met first by the two walks: the audit marks it as
   seen before it looks at the depth (`forensic/src/lib.rs:371`).
2. The audit as an abstract search of the tree that it implements.
3. What the boot checks report, related to the image by a property of its own.

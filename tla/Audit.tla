-------------------------------- MODULE Audit --------------------------------
(***************************************************************************)
(* audit_reader (forensic/src/lib.rs): the boot sector, the exFAT boot     *)
(* checksum or the FAT mirror, then a walk of the directory tree for       *)
(* deleted entries, collect_deleted.  The recursion of the walk is a stack *)
(* of frames; a frame is what is left of a directory's listing.            *)
(*                                                                         *)
(* Any read may fail.  A failed read of the checks ends the audit with an  *)
(* error; one inside FatFs is passed over, and so are a directory that     *)
(* cannot be listed and one that lies too deep: `skipped` remembers which. *)
(***************************************************************************)
EXTENDS FatVolume, FiniteSets

CONSTANTS
  Images,
  MAX_DEPTH,
  ReadsFail     \* whether the underlying reader fails now and then

\* What the checks look at.  fat1 and fat2 are the FAT copies as far as the
\* image has them; the sums are those of the exFAT boot region, if it is whole.
Image ==
  [sig_ok : BOOLEAN, bpb_ok : BOOLEAN, num_fats : Nat, fat_bytes : Nat \ {0},
   fat1 : Seq(Nat), fat2 : Seq(Nat),
   region_whole : BOOLEAN, computed : Nat, stored : Nat, vol : Volume]

ASSUME AuditAssumption ==
  /\ Images \subseteq Image
  /\ MAX_DEPTH \in Nat \ {0}
  /\ ReadsFail \in BOOLEAN

VARIABLES
  img,          \* the image: fixed
  pc,
  out,          \* the anomalies
  stack,        \* the listings under way, that of the root first
  seen,
  skipped       \* history: what was passed over without a word

vars == <<img, pc, out, stack, seen, skipped>>

BootSignatureInvalid == [kind |-> "BootSignatureInvalid"]
BpbInvalid == [kind |-> "BpbInvalid"]
ExfatBootChecksumMismatch == [kind |-> "ExfatBootChecksumMismatch"]
FatMirrorMismatch(offset, differing) ==
  [kind |-> "FatMirrorMismatch", fat_offset |-> offset, differing_bytes |-> differing]
\* The id stands for the name, which is all the anomaly carries.
DeletedDirectoryEntry(id) == [kind |-> "DeletedDirectoryEntry", id |-> id]

AnomalyKind ==
  [kind : {"BootSignatureInvalid", "BpbInvalid", "ExfatBootChecksumMismatch"}]
    \cup [kind : {"FatMirrorMismatch"}, fat_offset : Nat, differing_bytes : Nat]
    \cup [kind : {"DeletedDirectoryEntry"}, id : FileId]

Init ==
  /\ img \in Images
  /\ pc = "boot"
  /\ out = <<>>
  /\ stack = <<>>
  /\ seen = {}
  /\ skipped = {}

-----------------------------------------------------------------------------
\* The boot sector is there; both parsers want the signature too.
Boot ==
  LET found == IF img.sig_ok THEN <<>> ELSE <<BootSignatureInvalid>>
      valid == img.sig_ok /\ img.bpb_ok
  IN  /\ pc = "boot"
      /\ out' = IF valid THEN found ELSE Append(found, BpbInvalid)
      /\ pc' = IF valid THEN "check" ELSE "ok"
      /\ UNCHANGED <<img, stack, seen, skipped>>

IsExFat == img.vol.variant = "ExFat"

\* Not compared when the region is cut off: "do not fabricate a mismatch".
CheckExfatChecksum ==
  /\ pc = "check" /\ IsExFat
  /\ out' = IF img.region_whole /\ img.computed # img.stored
            THEN Append(out, ExfatBootChecksumMismatch) ELSE out
  /\ pc' = "open"
  /\ UNCHANGED <<img, stack, seen, skipped>>

\* The first copy against the second, however many there are.
CheckFatMirror ==
  LET whole == /\ Len(img.fat1) = img.fat_bytes
               /\ Len(img.fat2) = img.fat_bytes
      differ == { i \in 1 .. img.fat_bytes : img.fat1[i] # img.fat2[i] }
  IN  /\ pc = "check" /\ ~IsExFat /\ img.num_fats >= 2
      /\ out' = IF whole /\ differ # {}
                THEN Append(out, FatMirrorMismatch(
                       (CHOOSE i \in differ : \A j \in differ : i <= j) - 1,
                       Cardinality(differ)))
                ELSE out
      /\ pc' = "open"
      /\ UNCHANGED <<img, stack, seen, skipped>>

NoMirror ==
  /\ pc = "check" /\ ~IsExFat /\ img.num_fats < 2
  /\ pc' = "open"
  /\ UNCHANGED <<img, out, stack, seen, skipped>>

\* A read of the boot sector or of a check fails: `?`.
CheckFails ==
  /\ ReadsFail
  /\ pc = "boot" \/ (pc = "check" /\ (IsExFat \/ img.num_fats >= 2))
  /\ pc' = "err"
  /\ UNCHANGED <<img, out, stack, seen, skipped>>

-----------------------------------------------------------------------------
\* Mutant: a level too many.
CollectDeeper(listed, below) ==
  \/ /\ Len(below) > MAX_DEPTH
     /\ stack' = below
     /\ skipped' = skipped \cup {"deep"}
  \/ /\ Len(below) <= MAX_DEPTH
     /\ ReadsFail
     /\ stack' = below
     /\ skipped' = skipped \cup {"failed"}
  \/ /\ Len(below) <= MAX_DEPTH
     /\ listed = Err
     /\ stack' = below
     /\ skipped' = skipped \cup {"unreadable"}
  \/ /\ Len(below) <= MAX_DEPTH
     /\ listed # Err
     /\ stack' = Append(below, listed.nodes)
     /\ UNCHANGED skipped

\* collect_deleted from a stack of frames `below`: what read_dir lists of the
\* directory becomes a frame, unless the directory lies too deep, a read fails, or
\* its id does not lead back to it.
Collect(listed, below) ==
  \/ /\ Len(below) >= MAX_DEPTH
     /\ stack' = below
     /\ skipped' = skipped \cup {"deep"}
  \/ /\ Len(below) < MAX_DEPTH
     /\ ReadsFail
     /\ stack' = below
     /\ skipped' = skipped \cup {"failed"}
  \/ /\ Len(below) < MAX_DEPTH
     /\ listed = Err
     /\ stack' = below
     /\ skipped' = skipped \cup {"unreadable"}
  \/ /\ Len(below) < MAX_DEPTH
     /\ listed # Err
     /\ stack' = Append(below, listed.nodes)
     /\ UNCHANGED skipped

\* FatFs::open succeeds, and the walk starts at the root.
Open ==
  /\ pc = "open"
  /\ Collect(read_dir(img.vol, Root), <<>>)
  /\ pc' = "walk"
  /\ UNCHANGED <<img, out, seen>>

\* `if let Ok(fs) = FatFs::open(reader)`.
OpenFails ==
  /\ ReadsFail
  /\ pc = "open"
  /\ pc' = "ok"
  /\ skipped' = skipped \cup {"open"}
  /\ UNCHANGED <<img, out, stack, seen>>

\* The entry the walk is at, and the frames once it is done with.
AtEntry == pc = "walk" /\ stack # <<>> /\ Last(stack) # <<>>
entry == Head(Last(stack))
Rest == Append(Front(stack), Tail(Last(stack)))

\* Mutant: a deleted directory entered like any other.
EnterDirDeleted ==
  /\ entry.name \notin Dots
  /\ entry.is_dir /\ ~entry.is_volume_label
  /\ entry.first_cluster \notin seen

IsLiveDir(n) ==
  n.name \notin Dots /\ ~n.is_deleted /\ n.is_dir /\ ~n.is_volume_label

\* A live directory whose cluster the walk has not seen.
EnterDir == IsLiveDir(entry) /\ entry.first_cluster \notin seen

Deleted ==
  /\ AtEntry
  /\ entry.name \notin Dots /\ entry.is_deleted
  /\ out' = Append(out, DeletedDirectoryEntry(entry.id))
  /\ stack' = Rest
  /\ UNCHANGED <<img, pc, seen, skipped>>

\* Mutant: no record of the directories walked.
DescendAgain ==
  /\ AtEntry
  /\ EnterDir
  /\ UNCHANGED seen
  /\ Collect(read_dir(img.vol, entry.id), Rest)
  /\ UNCHANGED <<img, pc, out>>

\* Mutant: the tail of the listing given up.
DescendOnly ==
  /\ AtEntry
  /\ EnterDir
  /\ seen' = seen \cup {entry.first_cluster}
  /\ Collect(read_dir(img.vol, entry.id), Append(Front(stack), <<>>))
  /\ UNCHANGED <<img, pc, out>>

Descend ==
  /\ AtEntry
  /\ EnterDir
  /\ seen' = seen \cup {entry.first_cluster}
  /\ Collect(read_dir(img.vol, entry.id), Rest)
  /\ UNCHANGED <<img, pc, out>>

\* Mutant: the entry looked at again.
PassStays ==
  /\ AtEntry
  /\ ~EnterDir
  /\ entry.name \in Dots \/ ~entry.is_deleted
  /\ UNCHANGED vars

\* Files, labels, dot entries, directories walked before.
Pass ==
  /\ AtEntry
  /\ ~EnterDir
  /\ entry.name \in Dots \/ ~entry.is_deleted
  /\ stack' = Rest
  /\ UNCHANGED <<img, pc, out, seen, skipped>>

\* The loop over a listing ends: back to the caller.
Return ==
  /\ pc = "walk" /\ stack # <<>> /\ Last(stack) = <<>>
  /\ stack' = Front(stack)
  /\ UNCHANGED <<img, pc, out, seen, skipped>>

Done ==
  /\ pc = "walk" /\ stack = <<>>
  /\ pc' = "ok"
  /\ UNCHANGED <<img, out, stack, seen, skipped>>

Next ==
  \/ Boot \/ CheckExfatChecksum \/ CheckFatMirror \/ NoMirror \/ CheckFails
  \/ Open \/ OpenFails \/ Deleted \/ Descend \/ Pass \/ Return \/ Done

\* The audit runs on its own and every step of it returns.
Spec == Init /\ [][Next]_vars /\ WF_vars(Next)

-----------------------------------------------------------------------------
\* The pieces have their types, and the walk recurses at most MAX_DEPTH deep
\* (lib.rs, MAX_DEPTH: "Recursion cap on the directory walk").
TypeOK ==
  /\ pc \in {"boot", "check", "open", "walk", "ok", "err"}
  /\ out \in Seq(AnomalyKind)
  /\ seen \subseteq 0 .. FIXED_ROOT
  /\ skipped \subseteq {"open", "deep", "failed", "unreadable"}
  /\ stack \in Seq(Seq(Node)) /\ Len(stack) <= MAX_DEPTH
  /\ stack # <<>> => pc = "walk"

RootMarker == source_marker(dir_source(img.vol, Root))

\* The entries of the directories walked, the root among them.
Walked(c) == Range(entries_under(img.vol, c))

\* Every directory met is found by its id, and read from below as from above:
\* on FAT as long as its slot has an index of its own (below MaxIndex).
AllFound ==
  \A c \in seen \cup {RootMarker} : \A n \in Walked(c) : IsLiveDir(n) =>
    ReadAlike(img.vol, n) /\ n.id.index < MaxIndex

\* A deleted entry is reported once however many entries, rings and cross links
\* lead to its directory; twice at most in a root that an entry leads back to,
\* for the root is not marked as seen (lib.rs, collect_deleted: "bounding
\* recursion depth and revisits").  Slots from MaxIndex on share their id.
ReportedOnce ==
  AllFound =>
    \A a \in Range(out) : a.kind = "DeletedDirectoryEntry" /\ a.id.index < MaxIndex =>
      Cardinality({ k \in 1 .. Len(out) : out[k] = a })
        <= (IF root_is_clustered(img.vol) /\ a.id.dir_cluster = RootMarker THEN 2 ELSE 1)

\* An audit of a tree that opened, met no directory too deep and had no read
\* fail has reported every deleted entry of the directories it walked, and walked
\* every live directory that has an entry in them: no deleted entry the tree leads
\* to is missed, and no directory is passed over because its id does not lead back
\* to it (lib.rs, collect_deleted: "unreachable: dir was already resolved as a
\* directory").
WalkIsComplete ==
  pc = "ok" /\ img.sig_ok /\ img.bpb_ok /\ skipped \subseteq {"unreadable"} /\ AllFound =>
    \A c \in seen \cup {RootMarker} : \A n \in Walked(c) :
      n.name \notin Dots =>
        IF n.is_deleted THEN DeletedDirectoryEntry(n.id) \in Range(out)
        ELSE IsLiveDir(n) => n.first_cluster \in seen

\* The walk goes into live directories only, and into those an entry of a
\* walked directory leads to: what hangs off a deleted directory is not
\* reported (lib.rs, collect_deleted: "its chain is untrusted").
OnlyLiveDirsWalked ==
  AllFound =>
    \A c \in seen : \E p \in seen \cup {RootMarker} : \E n \in Walked(p) :
      n.first_cluster = c /\ IsLiveDir(n)

\* The audit ends, on directory trees with rings too.
AuditEnds == <>(pc \in {"ok", "err"})

=============================================================================

--------------------------------- MODULE Cli ---------------------------------
(***************************************************************************)
(* fat4n6 (cli/src/main.rs, run and list): the volume is opened and its    *)
(* tree listed, then the same file is opened again and audited.  Listing   *)
(* and audit are two walks of one tree: the listing keeps no set of the    *)
(* directories it has seen and ends at a depth only.                       *)
(*                                                                         *)
(* An argument that is a path is given; --version and a missing path never *)
(* come near an image.  The words of a line are left out.                  *)
(***************************************************************************)
EXTENDS Audit

VARIABLES
  stage,        \* how far run is
  lstack,       \* the listings under way, as in `stack`
  lines,        \* the nodes printed
  lskipped,     \* history: what the listing passed over without a word
  code          \* the exit code

cli_vars == <<stage, lstack, lines, lskipped, code>>

NoCode == -1

CliInit ==
  /\ Init
  /\ stage = "open"
  /\ lstack = <<>>
  /\ lines = <<>>
  /\ lskipped = {}
  /\ code = NoCode

-----------------------------------------------------------------------------
\* list from a stack of frames `below`: the depth is looked at first, and a
\* directory that cannot be read is passed over.
List(listed, below) ==
  \/ /\ Len(below) >= MAX_DEPTH
     /\ lstack' = below
     /\ lskipped' = lskipped \cup {"deep"}
  \/ /\ Len(below) < MAX_DEPTH
     /\ ReadsFail \/ listed = Err
     /\ lstack' = below
     /\ lskipped' = lskipped \cup {"unreadable"}
  \/ /\ Len(below) < MAX_DEPTH
     /\ listed # Err
     /\ lstack' = Append(below, listed.nodes)
     /\ UNCHANGED lskipped

\* The file opens and FatFs::open accepts it; the root is listed.
OpenVolume ==
  /\ stage = "open"
  /\ img.sig_ok /\ img.bpb_ok
  /\ List(read_dir(img.vol, Root), <<>>)
  /\ stage' = "list"
  /\ UNCHANGED <<vars, lines, code>>

\* The file cannot be opened, or not read, or is no FAT or exFAT volume.
OpenVolumeFails ==
  /\ stage = "open"
  /\ ReadsFail \/ ~(img.sig_ok /\ img.bpb_ok)
  /\ stage' = "exit"
  /\ code' = 1
  /\ UNCHANGED <<vars, lstack, lines, lskipped>>

-----------------------------------------------------------------------------
\* The node the loop of list is at, and the frames once it is done with.
AtNode == stage = "list" /\ lstack # <<>> /\ Last(lstack) # <<>>
lnode == Head(Last(lstack))
ListRest == Append(Front(lstack), Tail(Last(lstack)))

NotListed == lnode.name \in Dots \/ lnode.is_volume_label

SkipNode ==
  /\ AtNode
  /\ NotListed
  /\ lstack' = ListRest
  /\ UNCHANGED <<vars, stage, lines, lskipped, code>>

\* Mutant: a deleted directory listed like any other.
ListsBelowDeleted == lnode.is_dir

\* A live directory is entered, a deleted one is named only.
ListsBelow == lnode.is_dir /\ ~lnode.is_deleted

\* Mutant: the node printed again and again.
PrintNodeStays ==
  /\ AtNode
  /\ ~NotListed /\ ~ListsBelow
  /\ UNCHANGED <<vars, cli_vars>>

PrintNode ==
  /\ AtNode
  /\ ~NotListed /\ ~ListsBelow
  /\ lines' = Append(lines, lnode)
  /\ lstack' = ListRest
  /\ UNCHANGED <<vars, stage, lskipped, code>>

ListDirectory ==
  /\ AtNode
  /\ ~NotListed /\ ListsBelow
  /\ lines' = Append(lines, lnode)
  /\ List(read_dir(img.vol, lnode.id), ListRest)
  /\ UNCHANGED <<vars, stage, code>>

ListReturns ==
  /\ stage = "list" /\ lstack # <<>> /\ Last(lstack) = <<>>
  /\ lstack' = Front(lstack)
  /\ UNCHANGED <<vars, stage, lines, lskipped, code>>

Listed ==
  /\ stage = "list" /\ lstack = <<>>
  /\ stage' = "audit"
  /\ UNCHANGED <<vars, lstack, lines, lskipped, code>>

\* audit_path on the path given: a step of audit_reader.
AuditStep ==
  /\ stage = "audit"
  /\ Next
  /\ UNCHANGED cli_vars

\* The anomalies are printed, or the error of the audit is.
Exit ==
  /\ stage = "audit" /\ pc \in {"ok", "err"}
  /\ stage' = "exit"
  /\ code' = 0
  /\ UNCHANGED <<vars, lstack, lines, lskipped>>

CliNext ==
  \/ OpenVolume \/ OpenVolumeFails
  \/ SkipNode \/ PrintNode \/ ListDirectory \/ ListReturns \/ Listed
  \/ AuditStep \/ Exit

\* The program runs on its own and every step of it returns.
CliSpec == CliInit /\ [][CliNext]_<<vars, cli_vars>> /\ WF_<<vars, cli_vars>>(CliNext)

-----------------------------------------------------------------------------
DeletedLines == { n.id : n \in { m \in Range(lines) : m.is_deleted } }
ReportedIds == { a.id : a \in { b \in Range(out) : b.kind = "DeletedDirectoryEntry" } }

IsLabel(id) ==
  LET n == resolve_entry(img.vol, id)
  IN  n # Err /\ n.is_volume_label

\* What the two walks say of one volume fits together.  A deleted entry the
\* audit reports, unless a volume label, is marked as deleted in the listing,
\* if every directory the listing came to could be read; and a deleted entry in
\* the listing is reported, if the audit passed nothing over - on rings and
\* cross links too, where the listing prints entries many times and the audit
\* reports them once (main.rs, list; lib.rs, collect_deleted).  Slots from
\* MaxIndex on share their id, and a label there cannot be told by it.
TwoWalksAgree ==
  stage = "exit" /\ pc = "ok" =>
    /\ "unreadable" \notin lskipped =>
         \A id \in ReportedIds :
           id.index < MaxIndex /\ ~IsLabel(id) => id \in DeletedLines
    /\ skipped = {} /\ AllFound => DeletedLines \subseteq ReportedIds

\* The program ends, on trees that lead back too, where the depth alone stops the
\* listing; how much it prints until then is not bounded (main.rs, run and list).
ListingEnds == <>(stage = "exit")
=============================================================================

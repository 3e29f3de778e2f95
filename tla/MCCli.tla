-------------------------------- MODULE MCCli --------------------------------
(***************************************************************************)
(* The trees of MCAudit without the variants that differ in the audit's    *)
(* bookkeeping only, and with labels, deleted ones among them.             *)
(***************************************************************************)
EXTENDS Cli, MCAudit

DeletedLabel == [Label EXCEPT !.deleted = TRUE]

FewTrees ==
  { Volume4(variant, NoLinks, Image_(<<Dir(2), x, u, y, v, z, w, Deleted1>>)) :
      variant \in {"Fat12", "Fat32"}, x \in {Deleted1, DeletedLabel},
      u \in {Dir(3), Dir(4), DeletedDir(4)}, y \in {Dir(4), Label},
      v \in {Dir(2), Dot("..", 2)}, z \in {Deleted1, Dir(4)},
      w \in {Dir(2), Dir(3), Blank} }

FewChecks == { Clean(Stub("Fat12")), [Clean(Stub("Fat12")) EXCEPT !.sig_ok = FALSE],
               [Clean(Stub("ExFat")) EXCEPT !.bpb_ok = FALSE],
               [Clean(Stub("ExFat")) EXCEPT !.stored = 2],
               [Clean(Stub("Fat12")) EXCEPT !.num_fats = 1] }

CliImages == { Clean(v) : v \in FewTrees \cup ExfatTrees } \cup FewChecks
=============================================================================

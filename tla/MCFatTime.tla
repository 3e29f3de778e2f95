------------------------------ MODULE MCFatTime ------------------------------
(***************************************************************************)
(* Every day from 1970 to 2107, with times at the limits of their fields.  *)
(***************************************************************************)
EXTENDS FatTime

At(hour, minute, two_sec, tenths) ==
  [hour |-> hour, minute |-> minute, two_sec |-> two_sec, tenths |-> tenths]

MCTimes ==
  { At(0, 0, 0, 0), At(0, 0, 0, 99), At(0, 0, 0, 100), At(0, 59, 29, 199),
    At(1, 0, 0, 0), At(23, 59, 29, 0), At(23, 59, 29, 199) }
=============================================================================

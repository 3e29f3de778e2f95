---------------------------- MODULE FatChainAbs -----------------------------
(***************************************************************************)
(* What follow_chain promises its callers (fs.rs, clusters): in one step,  *)
(* the longest walk along the FAT from `start` that the cap allows.        *)
(***************************************************************************)
EXTENDS FatTable

VARIABLES vol, start, returned, result

vars == <<vol, start, returned, result>>

Link(c) == fat_entry(vol.fat, vol.variant, c)

\* s is a walk along the FAT from `start`...
IsWalk(s) ==
  /\ \A i \in 1 .. Len(s) : s[i] >= 2
  /\ Len(s) > 0 => s[1] = start
  /\ \A i \in 1 .. Len(s) - 1 :
       s[i + 1] = Link(s[i]) /\ ~EndsChain(vol.variant, s[i + 1])

\* ...that cannot be made longer within the cap.
IsMaximal(s) ==
  \/ Len(s) = vol.count + 2
  \/ Len(s) = 0 /\ start < 2
  \/ Len(s) > 0 /\ EndsChain(vol.variant, Link(s[Len(s)]))

Init ==
  /\ vol \in [variant : FatVariant, fat : Seq(Byte), count : Nat]
  /\ start \in Nat
  /\ ~returned
  /\ result = <<>>

Return ==
  /\ ~returned
  /\ returned'
  /\ result' \in Seq(Nat)
  /\ Len(result') <= vol.count + 2
  /\ IsWalk(result')
  /\ IsMaximal(result')
  /\ UNCHANGED <<vol, start>>

Next == Return
=============================================================================

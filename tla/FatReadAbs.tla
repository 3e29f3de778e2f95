----------------------------- MODULE FatReadAbs -----------------------------
(***************************************************************************)
(* What a caller of FatFs sees of the reads: each call is answered once,   *)
(* in one step, with the bytes of the node it asked for or with an error,  *)
(* whatever the calls of the other threads do.                             *)
(***************************************************************************)
EXTENDS FatReadCalls

CONSTANT Threads

VARIABLES call, answer

vars == <<call, answer>>

Pending == [kind |-> "pending", bytes |-> <<>>]
Failed == [kind |-> "failed", bytes |-> <<>>]

Init ==
  /\ call \in [Threads -> Call]
  /\ answer = [t \in Threads |-> Pending]

Answer(t) ==
  /\ answer[t] = Pending
  /\ answer' = [answer EXCEPT ![t] = answer'[t]]
  /\ \/ answer'[t] = Failed
     \/ /\ answer'[t].kind = "ok"
        /\ IsResult(call[t], answer'[t].bytes)
  /\ UNCHANGED call

Next == \E t \in Threads : Answer(t)
=============================================================================

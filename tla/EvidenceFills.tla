---------------------------- MODULE EvidenceFills ----------------------------
(***************************************************************************)
(* What an execution venue promises about fills, without statuses, prices  *)
(* or cancels: every fill consumes one piece of market evidence that has   *)
(* not been used for that order before, is positive, and stays within what *)
(* the order asks for under that evidence.                                 *)
(***************************************************************************)
EXTENDS Integers

CONSTANTS Orders, Evidence, Asked(_, _)   \* Asked(o, e): quantity asked for under e
VARIABLES used, filled

vars == <<used, filled>>

Init ==
  /\ used = [o \in Orders |-> {}]
  /\ filled = [o \in Orders |-> 0]

Fill(o, e) ==
  /\ e \notin used[o]
  /\ used' = [used EXCEPT ![o] = @ \cup {e}]
  /\ \E q \in 1 .. Asked(o, e) - filled[o] : filled' = [filled EXCEPT ![o] = @ + q]

Next == \E o \in Orders, e \in Evidence : Fill(o, e)

Spec == Init /\ [][Next]_vars

===============================================================================

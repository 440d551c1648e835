---------------------------- MODULE SeedFunding ----------------------------
(***************************************************************************)
(* What replication promises its parent cell: every dollar of the pool is  *)
(* free, pledged to one proposal, or gone into one child, and never more   *)
(* dollars are committed than an allocation has.  A proposal is decided    *)
(* once: dropped, with its pledge returned, or approved by a human and     *)
(* then turned into one child that costs exactly the seed.                 *)
(***************************************************************************)
EXTENDS Integers

CONSTANTS Codes, Allocs, Amount, Seed, MaxPledge, Total(_)  \* Total: the sum of a pledge

VARIABLES phase, pledge, committed

Phases == {"IDLE", "PLEDGED", "APPROVED", "FUNDED", "DROPPED"}
Nothing == [a \in Allocs |-> 0]

Init ==
  /\ phase = [c \in Codes |-> "IDLE"]
  /\ pledge = [c \in Codes |-> Nothing]
  /\ committed = Nothing

Turns(c, from, to) == phase[c] = from /\ phase' = [phase EXCEPT ![c] = to]

Pledge(c, p) ==
  /\ Turns(c, "IDLE", "PLEDGED")
  /\ \A a \in Allocs : committed[a] + p[a] <= Amount[a] \/ p[a] = 0
  /\ pledge' = [pledge EXCEPT ![c] = p]
  /\ committed' = [a \in Allocs |-> committed[a] + p[a]]

Approve(c) == Turns(c, "PLEDGED", "APPROVED") /\ UNCHANGED <<pledge, committed>>

Drop(c) ==
  /\ Turns(c, "PLEDGED", "DROPPED")
  /\ committed' = [a \in Allocs |-> committed[a] - pledge[c][a]]
  /\ pledge' = [pledge EXCEPT ![c] = Nothing]

Fund(c) ==
  /\ Turns(c, "APPROVED", "FUNDED")
  /\ Total(pledge[c]) = Seed
  /\ UNCHANGED <<pledge, committed>>

Next ==
  \/ \E c \in Codes : \E p \in [Allocs -> 0..MaxPledge] : Pledge(c, p)
  \/ \E c \in Codes : Approve(c) \/ Drop(c) \/ Fund(c)

Spec == Init /\ [][Next]_<<phase, pledge, committed>>
=============================================================================

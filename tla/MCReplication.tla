--------------------------- MODULE MCReplication ---------------------------
(* Small pools for TLC. *)
EXTENDS Replication

CONSTANTS s1, s2, c1, c2

Two == {s1, s2}
One == {s1}
BothCodes == {c1, c2}
FirstCode == {c1}
SecondCode == {c2}
NoCodes == {}

\* One dollar too many for one seed: a second proposal needs what the first frees.
UnevenPool == <<2, 1>>
=============================================================================

--------------------------- MODULE FlywheelAudit ----------------------------
(***************************************************************************)
(* The conservation proof at the end of FlywheelRunner.run_replay          *)
(* (engine/replay/flywheel_runner.py): the rows of the siphon and of the   *)
(* treasury of a cell are read once more and compared with each other,     *)
(* with the profit that is booked and with what replications have taken.   *)
(* The replay is the one thread that writes meanwhile.  Replication has a  *)
(* module of its own, which shows what its rows may say: here they are     *)
(* what the audit finds, one of Reports.                                   *)
(***************************************************************************)
EXTENDS Treasury

CONSTANT
  Reports  \* by siphon, what is reserved and consumed of its pool allocation,
           \* held and spent of Replication; whether no row lacks its owner

ASSUME ReportAssumption ==
  Reports \subseteq [held : [Slots -> Nat], spent : [Slots -> Nat], zeroOrphans : BOOLEAN]

AuditQualified == MapThenSumSet(LAMBDA i : siphons[i].qualified, DOMAIN siphons)

BucketTotals ==
  LET total(Part(_)) == MapThenSumSet(LAMBDA i : Part(siphons[i].qualified), DOMAIN siphons)
  IN [SAFETY_RESERVE |-> total(ReservePart), TARGET_TREASURY |-> total(TargetPart),
      REPLICATION_POOL |-> total(PoolPart)]

\* To the nearest cent.
ExactEvents_Fault ==
  \A i \in DOMAIN siphons :
    LET q == siphons[i].qualified
        twoFifths == FloorCents((4 * q + 5 * Cent) \div 10)
    IN /\ q = ReservePart(q) + TargetPart(q) + PoolPart(q)
       /\ ReservePart(q) = twoFifths /\ TargetPart(q) = twoFifths

\* The audit has its 40 percent written down, the siphon its policy.
ExactEvents ==
  \A i \in DOMAIN siphons :
    LET q == siphons[i].qualified
        twoFifths == FloorCents((2 * q) \div 5)
    IN /\ q = ReservePart(q) + TargetPart(q) + PoolPart(q)
       /\ ReservePart(q) = twoFifths /\ TargetPart(q) = twoFifths

\* Every simulated fill of the cell, settled or not.
NetPnl == Net(booked)

\* A reservation and a consumption name an allocation, hence a siphon.
ReplicationUncommitted(r) ==
  BucketTotals.REPLICATION_POOL - Total(r.spent, DOMAIN siphons) - Total(r.held, DOMAIN siphons)

CellPassed(r) ==
  LET qualified == AuditQualified
      buckets == BucketTotals
      treasury_unconsumed == buckets.TARGET_TREASURY - Total(spent, DOMAIN siphons)
  IN /\ ExactEvents
     /\ qualified = buckets.SAFETY_RESERVE + buckets.TARGET_TREASURY + buckets.REPLICATION_POOL
     /\ qualified <= NetPnl
     /\ treasury_unconsumed >= 0
     /\ ReplicationUncommitted(r) >= 0

\* What the executions add up to is what is held.
ProjectionEquivalent ==
  [j \in {j \in Instruments : bought[j] # Nothing} |-> bought[j]]
    = [j \in {j \in Instruments : holdings[j] # Nothing} |-> holdings[j]]

ConservationProofPassed(r) == CellPassed(r) /\ r.zeroOrphans /\ ProjectionEquivalent

\* The audit runs when the calls of the replay are through.
Audit == \A s \in Sessions : Idle(s)

\* What Replication guarantees: no allocation is committed for more than it has
\* (NeverOvercommitted) and every row has its owner (HasZeroOrphans).
GoodReport(r) ==
  /\ r.zeroOrphans
  /\ \A i \in DOMAIN siphons : r.spent[i] + r.held[i] <= PoolPart(siphons[i].qualified)

\* The proof fails a cell by losses alone.  While every account stands at the
\* most it has ever made, the profit siphoned is still there: no interleaving
\* of siphons of old and new evidence, of purchases and of replications makes
\* the proof of such a cell fail.
ProofFailsOnlyByLosses ==
  (Audit /\ Net(booked) >= MapThenSumSet(Peak, Accounts))
    => \A r \in Reports : GoodReport(r) => ConservationProofPassed(r)
=============================================================================

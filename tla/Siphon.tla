------------------------------- MODULE Siphon -------------------------------
(***************************************************************************)
(* The siphon of one cell and one economic domain: SiphonManager           *)
(* (engine/siphon/siphon_manager.py) turns settled realized profit into    *)
(* allocations, checked by the triggers of migration 0011.                 *)
(*                                                                         *)
(* qualify_and_allocate is a READ COMMITTED transaction: it locks the      *)
(* settled fill facts of its evidence, then reads what they have been      *)
(* attributed, what the cell has siphoned and what it has reserved, one    *)
(* statement after the other, then writes and commits.  Calls of different *)
(* accounts lock different facts and so run between each other's           *)
(* statements.  A call may bring any settlement evidence, an old one too.  *)
(*                                                                         *)
(* Money is counted in units of which Cent make a cent.  The facts are     *)
(* numbered in (occurred_at, fill_id) order and recorded in this order     *)
(* within an account; a settlement cutoff is a number of facts.            *)
(***************************************************************************)
EXTENDS Integers, Sequences, FiniteSets, FiniteSetsExt

CONSTANTS
  Sessions,
  Accounts,
  Last,         \* the facts are 1..Last
  Account,      \* broker_account_id of each fact's fill
  Profit,       \* realized_pnl_usd of each fact, 0 for an opening fill
  Fee,          \* commission_fee_usd of each fill
  Evidence,     \* settlement evidence the callers may bring
  Configs,      \* cell_treasury_configs of the cell
  Cent,
  ReservePct, TargetPct,  \* the rest goes to the replication pool
  MinimumSiphon,          \* minimum_siphon_threshold_usd
  SeedFloor,              \* protected_seed_floor_usd
  MaxSiphons              \* bound on the siphon events

Facts == 1..Last
EvidenceType == [accounts : SUBSET Accounts, upto : 0..Last, cash : Nat, committed : Nat]

ASSUME SiphonAssumption ==
  /\ IsFiniteSet(Sessions) /\ IsFiniteSet(Accounts)
  /\ Last \in Nat /\ MaxSiphons \in Nat
  /\ Account \in [Facts -> Accounts]
  /\ Profit \in [Facts -> Int] /\ Fee \in [Facts -> Nat]
  /\ Evidence \subseteq EvidenceType
  /\ Cent \in Nat \ {0} /\ MinimumSiphon \in Nat \ {0} /\ SeedFloor \in Nat
  /\ ReservePct \in Nat /\ TargetPct \in Nat /\ ReservePct + TargetPct <= 100

VARIABLES
  booked,      \* fill_realized_pnl
  target,      \* the active target configuration, in a set
  versions,    \* the configurations created so far
  attributed,  \* SUM(attributed_profit_usd) of each fact
  siphons,     \* siphon_events with their allocations
  calls        \* the open call of each session, in a set

siphonVars == <<booked, target, versions, attributed, siphons, calls>>

SiphonInit ==
  /\ booked = {} /\ target = {} /\ versions = {}
  /\ attributed = [f \in Facts |-> 0]
  /\ siphons = <<>>
  /\ calls = [s \in Sessions |-> {}]

-----------------------------------------------------------------------------
(* Facts and targets. *)

RecordCanonicalRealizedPnl(f) ==
  /\ f \notin booked
  /\ \A g \in 1..(f - 1) : Account[g] = Account[f] => g \in booked
  /\ booked' = booked \cup {f}
  /\ UNCHANGED <<target, versions, attributed, siphons, calls>>

\* uq_cell_treasury_one_active and uq_cell_treasury_version: one active target,
\* each version of it once.
CreateTargetConfig(c) ==
  /\ target = {} /\ target' = {c}
  /\ c \notin versions /\ versions' = versions \cup {c}
  /\ UNCHANGED <<booked, attributed, siphons, calls>>

\* An operator deactivates the target; no code in the repository does.
DeactivateTarget ==
  /\ target # {} /\ target' = {}
  /\ UNCHANGED <<booked, versions, attributed, siphons, calls>>

-----------------------------------------------------------------------------
(* Money. *)

Total(amount, S) == MapThenSumSet(LAMBDA x : amount[x], S)
FloorCents(x) == (x \div Cent) * Cent
AtLeastZero(x) == IF x > 0 THEN x ELSE 0

\* allocate_exact_cents: two shares rounded down, the pool takes what is left.
ReservePart(q) == FloorCents((q * ReservePct) \div 100)
TargetPart(q) == FloorCents((q * TargetPct) \div 100)
PoolPart(q) == q - ReservePart(q) - TargetPart(q)

\* What the cell has siphoned, which is also what it has reserved.
Siphoned == MapThenSumSet(LAMBDA i : siphons[i].qualified, DOMAIN siphons)

-----------------------------------------------------------------------------
(* qualify_and_allocate *)

\* Facts not recorded yet included.
Settled_Fault(e) == {f \in Facts : Account[f] \in e.accounts /\ f <= e.upto}

\* What the evidence settles: the facts of its accounts before its cutoff.
Settled(e) == {f \in booked : Account[f] \in e.accounts /\ f <= e.upto}

\* No session waits here for a lock: the call is what the first statement saw.
Begin(s, e) == \E c \in target :
  /\ calls[s] = {}
  /\ calls' = [calls EXCEPT ![s] =
       {[phase |-> "WAITING", evidence |-> e, target |-> c, rows |-> Settled(e),
         left |-> [f \in {} |-> 0], prior |-> 0, reserved |-> 0]}]
  /\ UNCHANGED <<booked, target, versions, attributed, siphons>>

\* The rows other sessions have locked.
LockedRows(s) ==
  UNION {IF c.phase = "WAITING" THEN {} ELSE c.rows :
           c \in UNION {calls[t] : t \in Sessions \ {s}}}

Steps(s, c, d) ==
  /\ calls' = [calls EXCEPT ![s] = {d}]
  /\ UNCHANGED <<booked, target, versions, attributed, siphons>>

Sources(c) == {f \in c.rows : Profit[f] > 0}

\* The locks are taken in one order, so they are waited for, not deadlocked
\* on; the attributions of locked facts are then read.
Lock(s) == \E c \in calls[s] :
  /\ c.phase = "WAITING" /\ c.rows \cap LockedRows(s) = {}
  /\ Steps(s, c, [c EXCEPT !.phase = "LOCKED",
                    !.left = [f \in Sources(c) |-> AtLeastZero(Profit[f] - attributed[f])]])

ReadPrior(s) == \E c \in calls[s] :
  /\ c.phase = "LOCKED"
  /\ Steps(s, c, [c EXCEPT !.phase = "COUNTED", !.prior = Siphoned])

ReadReserves(s) == \E c \in calls[s] :
  /\ c.phase = "COUNTED"
  /\ Steps(s, c, [c EXCEPT !.phase = "READY", !.reserved = Siphoned])

Net(rows) == Total(Profit, rows) - Total(Fee, rows)

Unsiphoned(c) == FloorCents(Total(c.left, DOMAIN c.left))

RemainingNet_Fault(c) == FloorCents(AtLeastZero(Net(c.rows)))

RemainingNet(c) == FloorCents(AtLeastZero(Net(c.rows) - c.prior))

Headroom(c) ==
  AtLeastZero(c.evidence.cash - SeedFloor - c.evidence.committed - c.reserved)

Qualified(c) == FloorCents(Min({Unsiphoned(c), RemainingNet(c), Headroom(c)}))

\* Each source in turn gives what it has left in whole cents.
Attribution(c) ==
  LET before(f) == {g \in DOMAIN c.left : g < f}
      whole == [f \in DOMAIN c.left |-> FloorCents(c.left[f])]
  IN [f \in DOMAIN c.left |->
        Min({whole[f], AtLeastZero(Qualified(c) - Total(whole, before(f)))})]

Attributable(c) == Total(Attribution(c), DOMAIN c.left) = Qualified(c)

\* Below the minimum nothing is written.
TooLittle(s) == \E c \in calls[s] :
  /\ c.phase = "READY" /\ Qualified(c) < MinimumSiphon
  /\ calls' = [calls EXCEPT ![s] = {}]
  /\ UNCHANGED <<booked, target, versions, attributed, siphons>>

\* The CHECKs of the event, the attributions and the allocations, and the
\* ceiling trigger of each attribution.
Accepted(c) ==
  LET q == Qualified(c)
  IN /\ q \in Nat \ {0} /\ Attribution(c) \in [DOMAIN c.left -> Nat]
     /\ ReservePart(q) > 0 /\ TargetPart(q) > 0 /\ PoolPart(q) > 0
     /\ \A f \in DOMAIN c.left : attributed[f] + Attribution(c)[f] <= AtLeastZero(Profit[f])

Allocate(s) == \E c \in calls[s] :
  /\ c.phase = "READY" /\ Qualified(c) >= MinimumSiphon
  /\ Attributable(c) /\ Accepted(c)
  /\ Len(siphons) < MaxSiphons
  /\ siphons' = Append(siphons, [qualified |-> Qualified(c), target |-> c.target,
                                 evidence |-> c.evidence])
  /\ attributed' = [f \in Facts |->
       attributed[f] + IF f \in DOMAIN c.left THEN Attribution(c)[f] ELSE 0]
  /\ calls' = [calls EXCEPT ![s] = {}]
  /\ UNCHANGED <<booked, target, versions>>

\* Refused by a check, a trigger or the exact-attribution guard, or lost.
RollBack(s) ==
  /\ calls[s] # {} /\ calls' = [calls EXCEPT ![s] = {}]
  /\ UNCHANGED <<booked, target, versions, attributed, siphons>>

QualifyAndAllocate(s) ==
  \/ Lock(s) \/ ReadPrior(s) \/ ReadReserves(s)
  \/ TooLittle(s) \/ Allocate(s) \/ RollBack(s)

SiphonNext ==
  \/ \E f \in Facts : RecordCanonicalRealizedPnl(f)
  \/ \E c \in Configs : CreateTargetConfig(c)
  \/ DeactivateTarget
  \/ \E s \in Sessions : QualifyAndAllocate(s) \/ \E e \in Evidence : Begin(s, e)

SiphonSpec == SiphonInit /\ [][SiphonNext]_siphonVars

-----------------------------------------------------------------------------
(* Properties. *)

\* The most settled net profit the account's facts have shown at any cutoff.
Peak(a) ==
  Max({0} \cup {Net({f \in booked : Account[f] = a /\ f <= n}) : n \in Facts})

\* However the calls of the accounts interleave, and however old their
\* evidence, all that the cell siphons stays within the sum of what each of its
\* accounts has had at its best, net of losses and fees.  Of a single account
\* nothing is said here: a call that names none takes of the cell's profit.
SiphonedWithinProfit == Siphoned <= MapThenSumSet(Peak, Accounts)

\* Each siphon left the protected seed in the settled cash it was based on,
\* next to the cash committed to orders and all that was siphoned before from
\* the same account.  This is of the calls of one account: a synthetic call
\* need not name one, may then run beside a call whose facts it did not see.
SeedFloorProtected ==
  \A i \in DOMAIN siphons :
    LET e == siphons[i].evidence
        same == {j \in 1..i : siphons[j].evidence.accounts = e.accounts}
    IN Cardinality(e.accounts) = 1 =>
         Total([j \in same |-> siphons[j].qualified], same) + e.committed + SeedFloor <= e.cash

\* The cell's siphons stay within the best of its accounts, and those of one
\* account leave its seed.
SiphonWithinMeans == SiphonedWithinProfit /\ SeedFloorProtected
=============================================================================

---------------------------- MODULE Replication ----------------------------
(***************************************************************************)
(* Replication of a parent cell: ReplicationManager proposes and releases, *)
(* HumanAuthorizationService decides, GenesisFactory executes, and the     *)
(* triggers of migrations 0014 and 0015 check every appended event.        *)
(*                                                                         *)
(* Each call is a READ COMMITTED transaction of some session.  Its first   *)
(* step takes the row locks the call starts with, its last one takes the   *)
(* rest, passes the triggers and commits; proposing also reads the         *)
(* allocations one by one in between.  The locks held are a function of    *)
(* the open transactions.  A transaction may roll back at any time:        *)
(* refused by a trigger, chosen as the victim of a deadlock, or lost with  *)
(* its process.  Calls that raise or return before writing change nothing  *)
(* and are left out.                                                       *)
(*                                                                         *)
(* A proposal is named by its child code, which is unique.  The current    *)
(* state of a proposal or reservation is its latest event by (occurred_at, *)
(* event_id); ids are hashes, so which of two events of one instant is the *)
(* latest is a choice.                                                     *)
(***************************************************************************)
EXTENDS Integers, FiniteSetsExt

CONSTANTS
  Sessions,
  Codes,            \* proposed_child_code of the proposals
  TakenCodes,       \* codes of cells that exist already
  Last,             \* allocations are 1..Last, in (occurred_at, id) order
  Amount,           \* allocated_usd of each REPLICATION_POOL allocation
  Threshold,        \* ReplicationPolicyConfig.threshold_usd
  Seed,             \* GenesisFactory.SEED
  MaxTime,          \* the callers' timestamps are 1..MaxTime
  SharedTimestamps  \* callers may give two calls the same timestamp

Allocs == 1..Last
Times == 1..MaxTime

ASSUME PoolAssumption ==
  /\ Last \in Nat /\ MaxTime \in Nat
  /\ Amount \in [Allocs -> Nat]
  /\ Threshold \in Nat \ {0} /\ Seed \in Nat \ {0}
  /\ SharedTimestamps \in BOOLEAN

VARIABLES
  funded,        \* the allocations the siphon has made
  refs,          \* reserved_usd of each proposal's reservations, {} before
  state,         \* state_to of the latest event of each proposal
  stateAt,       \* and its occurred_at
  reservation,   \* event_type of the latest event of each reservation
  reservationAt, \* and its occurred_at
  cancelledAt,   \* occurred_at of every RELEASED/CANCELLED pair appended
  decision,      \* replication_authorizations.decision
  consumed,      \* replication_cash_consumptions
  children,      \* proposals with a genesis event and a child cell
  held,          \* SUM(reserved_usd) of the RESERVED reservations
  spent,         \* SUM(consumed_usd) of each allocation
  tx             \* the open transaction of each session

proposal == <<refs, state, stateAt, decision, cancelledAt>>
cash == <<reservation, reservationAt, consumed, children, held, spent>>
vars == <<funded, proposal, cash, tx>>

States == {"INITIAL", "PENDING_AUTHORIZATION", "AUTHORIZED", "REJECTED", "EXECUTED", "CANCELLED"}
EventTypes == {"NONE", "RESERVED", "RELEASED", "CONSUMED"}
Decisions == {"NONE", "APPROVE", "REJECT"}
Nothing == [a \in Allocs |-> 0]
Total(f) == MapThenSumSet(LAMBDA a : f[a], Allocs)

Init ==
  /\ funded = {}
  /\ refs = [c \in Codes |-> Nothing]
  /\ state = [c \in Codes |-> "INITIAL"]
  /\ stateAt = [c \in Codes |-> 0]
  /\ reservation = [c \in Codes |-> [a \in Allocs |-> "NONE"]]
  /\ reservationAt = [c \in Codes |-> Nothing]
  /\ cancelledAt = [c \in Codes |-> {}]
  /\ decision = [c \in Codes |-> "NONE"]
  /\ consumed = [c \in Codes |-> Nothing]
  /\ children = {}
  /\ held = Nothing
  /\ spent = Nothing
  /\ tx = [s \in Sessions |-> {}]

-----------------------------------------------------------------------------
(* Open transactions and the rows they lock. *)

Tx == [op : {"PROPOSE", "RELEASE", "AUTHORIZE", "GENESIS"}, code : Codes, at : Times,
       decision : Decisions, rows : SUBSET Allocs, next : 1..(Last + 1),
       refs : [Allocs -> 0..Threshold], remaining : 0..Threshold]

Opened(op, c, t, d, rows) ==
  [op |-> op, code |-> c, at |-> t, decision |-> d, rows |-> rows,
   next |-> 1, refs |-> Nothing, remaining |-> Threshold]

Open(s, x) == tx[s] = {} /\ tx' = [tx EXCEPT ![s] = {x}]
Close(s) == tx' = [tx EXCEPT ![s] = {}]

AllocationLocked_Fault(a) == FALSE

AllocationLocked(a) == \E s \in Sessions : \E x \in tx[s] : x.op = "PROPOSE" /\ a \in x.rows
ReservationsLocked(c) == \E s \in Sessions : \E x \in tx[s] : x.op = "RELEASE" /\ x.code = c
ProposalLocked(c) ==
  \E s \in Sessions : \E x \in tx[s] : x.op \in {"AUTHORIZE", "GENESIS"} /\ x.code = c

-----------------------------------------------------------------------------
(* Latest events. *)

\* The triggers' "timestamp cannot move backward".  Callers that give every
\* call a time of its own never meet the equality.
NotBackward(t, last) == IF SharedTimestamps THEN t >= last ELSE t > last

\* Whether an event of time t is read as the latest after one of time last.
BecomesLatest(t, last) == IF t > last THEN {TRUE} ELSE {TRUE, FALSE}

\* check_proposal_event_transition_v2: the transition starts at the latest state.
Append(c, from, to, t) ==
  /\ state[c] = from
  /\ NotBackward(t, stateAt[c])
  /\ \E latest \in BecomesLatest(t, stateAt[c]) :
       state' = [state EXCEPT ![c] = IF latest THEN to ELSE @]
  /\ stateAt' = [stateAt EXCEPT ![c] = t]

Reserved(c) == {a \in Allocs : refs[c][a] > 0}
Holding(c) == {a \in Allocs : reservation[c][a] = "RESERVED"}

\* RELEASED is appended to the reservations rows; won are those it closes.
ReleaseRows(c, rows, won, t) ==
  /\ won \subseteq rows
  /\ \A a \in rows : NotBackward(t, reservationAt[c][a])
  /\ \A a \in rows \ won : t = reservationAt[c][a]
  /\ reservation' = [reservation EXCEPT ![c] =
                       [a \in Allocs |-> IF a \in won THEN "RELEASED" ELSE @[a]]]
  /\ reservationAt' = [reservationAt EXCEPT ![c] =
                         [a \in Allocs |-> IF a \in rows THEN t ELSE @[a]]]
  /\ held' = [a \in Allocs |-> IF a \in won THEN held[a] - refs[c][a] ELSE held[a]]
  /\ UNCHANGED <<consumed, children, spent>>

-----------------------------------------------------------------------------
(* ReplicationManager.create_proposal *)

SiphonAllocates(a) ==
  /\ a \notin funded
  /\ funded' = funded \cup {a}
  /\ UNCHANGED <<proposal, cash, tx>>

\* SELECT ... FOR UPDATE of the parent's pool, in first-in first-out order.
ProposeLock(s, c, t) ==
  /\ \A a \in funded : ~AllocationLocked(a)
  /\ Open(s, Opened("PROPOSE", c, t, "NONE", funded))
  /\ UNCHANGED <<funded, proposal, cash>>

\* _available_for_allocation
Available(a) == Amount[a] - spent[a] - held[a]

\* What the proposal takes of an allocation: what is left of it, as far as the
\* threshold still needs it.
Takes(x, a) ==
  IF a \notin x.rows \/ Available(a) <= 0 THEN 0
  ELSE IF Available(a) <= x.remaining THEN Available(a) ELSE x.remaining

ProposeRead(s) == \E x \in tx[s] :
  /\ x.op = "PROPOSE" /\ x.next \in Allocs
  /\ tx' = [tx EXCEPT ![s] = {[x EXCEPT !.next = @ + 1, !.refs[x.next] = Takes(x, x.next),
                                        !.remaining = @ - Takes(x, x.next)]}]
  /\ UNCHANGED <<funded, proposal, cash>>

\* check_replication_reservation_ceiling, for a RESERVED event.
Fits(a, amount) == spent[a] + held[a] + amount <= Amount[a]

\* The code may be that of another proposal.
ProposeCommit_Fault(s) == \E x \in tx[s] :
  /\ x.op = "PROPOSE" /\ x.next = Last + 1 /\ x.remaining = 0
  /\ \A a \in Allocs : x.refs[a] > 0 => Fits(a, x.refs[a])
  /\ refs' = [refs EXCEPT ![x.code] = x.refs]
  /\ state' = [state EXCEPT ![x.code] = "PENDING_AUTHORIZATION"]
  /\ stateAt' = [stateAt EXCEPT ![x.code] = x.at]
  /\ reservation' = [reservation EXCEPT ![x.code] =
                       [a \in Allocs |-> IF x.refs[a] > 0 THEN "RESERVED" ELSE "NONE"]]
  /\ reservationAt' = [reservationAt EXCEPT ![x.code] = [a \in Allocs |-> x.at]]
  /\ held' = [a \in Allocs |-> held[a] + x.refs[a]]
  /\ Close(s)
  /\ UNCHANGED <<funded, decision, cancelledAt, consumed, children, spent>>

\* Proposal, reservations and their first events.  A pool that falls short of
\* the threshold, or a code that is taken by a proposal, writes nothing.
ProposeCommit(s) == \E x \in tx[s] :
  /\ x.op = "PROPOSE" /\ x.next = Last + 1 /\ x.remaining = 0
  /\ state[x.code] = "INITIAL"
  /\ \A a \in Allocs : x.refs[a] > 0 => Fits(a, x.refs[a])
  /\ refs' = [refs EXCEPT ![x.code] = x.refs]
  /\ state' = [state EXCEPT ![x.code] = "PENDING_AUTHORIZATION"]
  /\ stateAt' = [stateAt EXCEPT ![x.code] = x.at]
  /\ reservation' = [reservation EXCEPT ![x.code] =
                       [a \in Allocs |-> IF x.refs[a] > 0 THEN "RESERVED" ELSE "NONE"]]
  /\ reservationAt' = [reservationAt EXCEPT ![x.code] = [a \in Allocs |-> x.at]]
  /\ held' = [a \in Allocs |-> held[a] + x.refs[a]]
  /\ Close(s)
  /\ UNCHANGED <<funded, decision, cancelledAt, consumed, children, spent>>

-----------------------------------------------------------------------------
(* ReplicationManager.release_proposal *)

ReleaseLock(s, c, t) ==
  /\ state[c] # "INITIAL"
  /\ ~ReservationsLocked(c)
  /\ Open(s, Opened("RELEASE", c, t, "NONE", {}))
  /\ UNCHANGED <<funded, proposal, cash>>

\* No reservation may be in a terminal state, whatever the proposal's is.
Releasable(c) == Reserved(c) \subseteq Holding(c)

\* Event ids carry the timestamp: the same release twice is refused.
ReleaseCommit(s) == \E x \in tx[s] :
  /\ x.op = "RELEASE"
  /\ ~ProposalLocked(x.code)
  /\ Releasable(x.code)
  /\ x.at \notin cancelledAt[x.code]
  /\ \E won \in SUBSET Reserved(x.code) : ReleaseRows(x.code, Reserved(x.code), won, x.at)
  /\ Append(x.code, "PENDING_AUTHORIZATION", "CANCELLED", x.at)
  /\ cancelledAt' = [cancelledAt EXCEPT ![x.code] = @ \cup {x.at}]
  /\ Close(s)
  /\ UNCHANGED <<funded, refs, decision>>

-----------------------------------------------------------------------------
(* HumanAuthorizationService.authorize *)

AuthorizeLock(s, c, d, t) ==
  /\ ~ProposalLocked(c)
  /\ decision[c] = "NONE"
  /\ state[c] = "PENDING_AUTHORIZATION"
  /\ Open(s, Opened("AUTHORIZE", c, t, d, {}))
  /\ UNCHANGED <<funded, proposal, cash>>

Approve(s) == \E x \in tx[s] :
  /\ x.op = "AUTHORIZE" /\ x.decision = "APPROVE"
  /\ decision[x.code] = "NONE"
  /\ decision' = [decision EXCEPT ![x.code] = "APPROVE"]
  /\ Append(x.code, "PENDING_AUTHORIZATION", "AUTHORIZED", x.at)
  /\ Close(s)
  /\ UNCHANGED <<funded, refs, cancelledAt, cash>>

RejectedRows_Fault(c) == {}

\* Only reservations read as RESERVED are released.
RejectedRows(c) == Holding(c)

Reject(s) == \E x \in tx[s] :
  /\ x.op = "AUTHORIZE" /\ x.decision = "REJECT"
  /\ decision[x.code] = "NONE"
  /\ ~ReservationsLocked(x.code)
  /\ decision' = [decision EXCEPT ![x.code] = "REJECT"]
  /\ \E won \in SUBSET RejectedRows(x.code) :
       ReleaseRows(x.code, RejectedRows(x.code), won, x.at)
  /\ Append(x.code, "PENDING_AUTHORIZATION", "REJECTED", x.at)
  /\ Close(s)
  /\ UNCHANGED <<funded, refs, cancelledAt>>

-----------------------------------------------------------------------------
(* GenesisFactory.instantiate_child_cell *)

GenesisLock(s, c, t) ==
  /\ ~ProposalLocked(c)
  /\ c \notin children
  /\ state[c] = "AUTHORIZED" /\ decision[c] = "APPROVE"
  /\ Threshold = Seed
  /\ Open(s, Opened("GENESIS", c, t, "NONE", {}))
  /\ UNCHANGED <<funded, proposal, cash>>

GenesisHolds(c) == Reserved(c) # {} /\ Reserved(c) \subseteq Holding(c)

\* Consumptions are recorded and the reservations stay RESERVED.
ConsumeRows_Fault(c, t) ==
  /\ consumed' = [consumed EXCEPT ![c] = refs[c]]
  /\ spent' = [a \in Allocs |-> spent[a] + refs[c][a]]
  /\ UNCHANGED <<reservation, reservationAt, held>>

\* A consumption and a CONSUMED event for every reservation.
ConsumeRows(c, t) ==
  /\ \A a \in Reserved(c) : NotBackward(t, reservationAt[c][a])
  /\ consumed' = [consumed EXCEPT ![c] = refs[c]]
  /\ spent' = [a \in Allocs |-> spent[a] + refs[c][a]]
  /\ reservation' = [reservation EXCEPT ![c] =
                       [a \in Allocs |-> IF a \in Reserved(c) THEN "CONSUMED" ELSE @[a]]]
  /\ reservationAt' = [reservationAt EXCEPT ![c] =
                         [a \in Allocs |-> IF a \in Reserved(c) THEN t ELSE @[a]]]
  /\ held' = [a \in Allocs |-> held[a] - refs[c][a]]

\* The child, its evidence, its cash and the genesis event, in one savepoint.
\* The triggers require the proposal to be AUTHORIZED still and every
\* reservation to be read as CONSUMED.
GenesisCommit(s) == \E x \in tx[s] :
  LET c == x.code IN
  /\ x.op = "GENESIS"
  /\ ~ReservationsLocked(c)
  /\ \A a \in Reserved(c) : ~AllocationLocked(a)
  /\ Total(refs[c]) = Seed
  /\ GenesisHolds(c)
  /\ c \notin TakenCodes
  /\ children' = children \cup {c}
  /\ ConsumeRows(c, x.at)
  /\ Append(c, "AUTHORIZED", "EXECUTED", x.at)
  /\ Close(s)
  /\ UNCHANGED <<funded, refs, decision, cancelledAt>>

-----------------------------------------------------------------------------

Rollback(s) == tx[s] # {} /\ Close(s) /\ UNCHANGED <<funded, proposal, cash>>

Next ==
  \/ \E a \in Allocs : SiphonAllocates(a)
  \/ \E s \in Sessions : \E c \in Codes : \E t \in Times :
       \/ ProposeLock(s, c, t)
       \/ ReleaseLock(s, c, t)
       \/ AuthorizeLock(s, c, "APPROVE", t) \/ AuthorizeLock(s, c, "REJECT", t)
       \/ GenesisLock(s, c, t)
  \/ \E s \in Sessions :
       \/ ProposeRead(s) \/ ProposeCommit(s) \/ ReleaseCommit(s)
       \/ Approve(s) \/ Reject(s) \/ GenesisCommit(s) \/ Rollback(s)

Spec == Init /\ [][Next]_vars

-----------------------------------------------------------------------------
(* Properties. *)

\* Type invariant.
TypeOK ==
  /\ funded \subseteq Allocs
  /\ refs \in [Codes -> [Allocs -> 0..Threshold]]
  /\ state \in [Codes -> States]
  /\ stateAt \in [Codes -> Nat]
  /\ reservation \in [Codes -> [Allocs -> EventTypes]]
  /\ reservationAt \in [Codes -> [Allocs -> Nat]]
  /\ cancelledAt \in [Codes -> SUBSET Times]
  /\ decision \in [Codes -> Decisions]
  /\ consumed \in [Codes -> [Allocs -> Nat]]
  /\ children \subseteq Codes
  /\ held \in [Allocs -> Int]
  /\ spent \in [Allocs -> Nat]
  /\ tx \in [Sessions -> SUBSET Tx]
  /\ \A s \in Sessions : \A x, y \in tx[s] : x = y

\* No dollar of the pool is committed twice: what proposals hold and children
\* have spent never exceeds an allocation, however proposals, decisions and
\* geneses of concurrent sessions interleave.
NeverOvercommitted == \A a \in Allocs : spent[a] + held[a] <= Amount[a]

\* A proposal that has read the pool under its locks still finds there what it
\* read when it comes to reserve it: the ceiling trigger never refuses it.
PlannedCashStaysAvailable ==
  \A s \in Sessions : \A x \in tx[s] :
    x.op = "PROPOSE" => \A a \in Allocs : x.refs[a] > 0 => Fits(a, x.refs[a])

\* A child exists only for a proposal a human approved, and its cash is exactly
\* the seed, all of it from that proposal's reservations.
ChildrenAreFunded ==
  \A c \in children :
    /\ decision[c] = "APPROVE"
    /\ Total(consumed[c]) = Seed
    /\ \A a \in Allocs : reservation[c][a] = IF consumed[c][a] > 0 THEN "CONSUMED" ELSE "NONE"

\* FlywheelRunner's audit: a consumption has its reservation, and a reservation
\* an event.
HasZeroOrphans ==
  \A c \in Codes : \A a \in Allocs :
    /\ consumed[c][a] > 0 => refs[c][a] > 0
    /\ refs[c][a] > 0 => reservation[c][a] # "NONE"

\* The dollars of proposals that were cancelled or rejected are free again.
ClosedProposalsHoldNothing ==
  \A c \in Codes : state[c] \in {"CANCELLED", "REJECTED"} => Holding(c) = {}

\* A proposal that reached an end stays there: nothing that happens later
\* reopens it or changes what it holds.
EndsAreFinal ==
  [][\A c \in Codes : state[c] \in {"CANCELLED", "REJECTED", "EXECUTED"} =>
       UNCHANGED <<state[c], reservation[c], consumed[c]>>]_vars

\* test_genesis_engine.py: a released reservation is never consumed.
ReleasedCashNeverConsumed == \A c \in children : cancelledAt[c] = {}

Phase(c) ==
  IF c \in children THEN "FUNDED"
  ELSE IF state[c] = "INITIAL" THEN "IDLE"
  ELSE IF state[c] = "PENDING_AUTHORIZATION" THEN "PLEDGED"
  ELSE IF state[c] = "AUTHORIZED" THEN "APPROVED"
  ELSE "DROPPED"

Funding == INSTANCE SeedFunding WITH
  MaxPledge <- Threshold,
  phase <- [c \in Codes |-> Phase(c)],
  pledge <- [c \in Codes |-> IF Phase(c) = "DROPPED" THEN Nothing ELSE refs[c]],
  committed <- [a \in Allocs |-> held[a] + spent[a]]

\* Whatever the sessions do, the dollars move as SeedFunding says.
ImplementsFunding == Funding!Spec

\* What is reserved, and what a call is about to reserve, is there.
PoolHolds == NeverOvercommitted /\ PlannedCashStaysAvailable

\* A proposal that has come to its end holds no dollar of the pool, a child has
\* been approved and paid, and the audit of the flywheel finds no orphan.
ProposalsAreSettled ==
  TypeOK /\ ClosedProposalsHoldNothing /\ ChildrenAreFunded /\ HasZeroOrphans
=============================================================================

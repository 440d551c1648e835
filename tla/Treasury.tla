------------------------------ MODULE Treasury ------------------------------
(***************************************************************************)
(* The treasury of the cell: TreasuryManager.execute_available             *)
(* (engine/treasury/treasury_manager.py) buys the cell's target with its   *)
(* TARGET_TREASURY allocations, beside the siphon that makes them.         *)
(*                                                                         *)
(* The call's one SELECT ... FOR UPDATE reads the allocations with what    *)
(* has been consumed of them and then waits for their row locks.  The rows *)
(* are append-only, so a call that waited goes on with the sums it read    *)
(* before: only the ceiling trigger of migration 0012 sees the consumption *)
(* of the call it waited for.  The call commits as a whole or not at all.  *)
(*                                                                         *)
(* Allocations are numbered in the order they are committed, taken to be   *)
(* that of their occurred_at.  Shares are counted in quanta of             *)
(* share_precision, Quantum of which make a share.                         *)
(***************************************************************************)
EXTENDS Siphon

CONSTANTS
  Instruments,
  InstrumentOf,      \* target_instrument_id of each configuration
  Quotes,            \* market snapshots a caller may bring: gate, ask
  NoQuote,
  Quantum,
  EffectiveMinimum,  \* effective_minimum_usd
  BrokerMinimum,     \* broker_fractional_minimum_usd
  Fees               \* estimated and actual fee of a call

ASSUME TreasuryAssumption ==
  /\ IsFiniteSet(Configs) /\ IsFiniteSet(Instruments)
  /\ InstrumentOf \in [Configs -> Instruments]
  /\ Quotes \subseteq [passes : BOOLEAN, ask : Nat \ {0}] /\ NoQuote \notin Quotes
  /\ Quantum \in Nat \ {0} /\ EffectiveMinimum \in Nat /\ BrokerMinimum \in Nat
  /\ Fees \subseteq [estimated : Nat, actual : Nat]

VARIABLES
  spent,     \* SUM(consumed_usd) of each allocation
  bought,    \* shares and net amount of the treasury_executions, by instrument
  holdings,  \* ownership_treasury_holdings, by instrument
  blocked,   \* configurations a BLOCKED observation was recorded for
  orders     \* the open call of each session, in a set

treasuryVars == <<spent, bought, holdings, blocked, orders>>
vars == <<siphonVars, treasuryVars>>

Slots == 1..MaxSiphons
Nothing == [shares |-> 0, basis |-> 0]

Init ==
  /\ SiphonInit
  /\ spent = [i \in Slots |-> 0]
  /\ bought = [j \in Instruments |-> Nothing]
  /\ holdings = [j \in Instruments |-> Nothing]
  /\ blocked = {}
  /\ orders = [s \in Sessions |-> {}]

-----------------------------------------------------------------------------
(* What a call does with the allocations of one configuration. *)

Allocated(i) == TargetPart(siphons[i].qualified)

\* The allocations the call has read for this configuration.
Rows(o, c) == {i \in DOMAIN o.seen : siphons[i].target = c}
Available(o, c) == Total(o.seen, Rows(o, c))
Eligible(o) == {c \in Configs : Rows(o, c) # {} /\ Available(o, c) >= EffectiveMinimum}
Quoted(o) == {c \in Eligible(o) : o.quote[c] # NoQuote}
Gated(o) == {c \in Quoted(o) : ~o.quote[c].passes}

SharesFor(o, c, fee) ==
  (AtLeastZero(Available(o, c) - fee) * Quantum) \div o.quote[c].ask
Gross(o, c, shares) == FloorCents((shares * o.quote[c].ask) \div Quantum)

\* Sized for the estimated fee, and once more when the actual one is too much.
Shares(o, c) ==
  LET first == SharesFor(o, c, o.fees.estimated)
  IN IF first = 0 \/ Gross(o, c, first) + o.fees.actual <= Available(o, c) THEN first
     ELSE SharesFor(o, c, o.fees.actual)
Paid(o, c) == Gross(o, c, Shares(o, c)) + o.fees.actual

\* The configurations the call buys for.
Buys(o) ==
  {c \in Quoted(o) \ Gated(o) :
     Shares(o, c) > 0 /\ BrokerMinimum <= Paid(o, c) /\ Paid(o, c) <= Available(o, c)}

Needed(o, c) == IF c \in Buys(o) THEN Paid(o, c) ELSE 0

\* The newest allocation first.
Consumed_Fault(o, i) ==
  LET newer == {k \in Rows(o, siphons[i].target) : k > i}
  IN Min({o.seen[i], AtLeastZero(Needed(o, siphons[i].target) - Total(o.seen, newer))})

\* The oldest allocation first, each until nothing is needed.
Consumed(o, i) ==
  LET older == {k \in Rows(o, siphons[i].target) : k < i}
  IN Min({o.seen[i], AtLeastZero(Needed(o, siphons[i].target) - Total(o.seen, older))})

Spending(o) == [i \in Slots |-> IF i \in DOMAIN o.seen THEN Consumed(o, i) ELSE 0]

\* The executions of the call, by instrument.
Executed(o) ==
  [j \in Instruments |->
     LET cs == {c \in Buys(o) : InstrumentOf[c] = j}
     IN [shares |-> Total([c \in cs |-> Shares(o, c)], cs),
         basis |-> Total([c \in cs |-> Paid(o, c)], cs)]]

Plus(x, y) ==
  [j \in Instruments |-> [shares |-> x[j].shares + y[j].shares, basis |-> x[j].basis + y[j].basis]]

-----------------------------------------------------------------------------
(* execute_available *)

Idle(s) == calls[s] = {} /\ orders[s] = {}

Proceeds(s, o) ==
  /\ orders' = [orders EXCEPT ![s] = {o}]
  /\ UNCHANGED <<siphonVars, spent, bought, holdings, blocked>>

\* What the SELECT sees: the allocations with something left.
Select(s, quote, fees) ==
  /\ Idle(s)
  /\ Proceeds(s,
       [phase |-> "WAITING", quote |-> quote, fees |-> fees,
        seen |-> [i \in {i \in DOMAIN siphons : Allocated(i) > spent[i]} |->
                    Allocated(i) - spent[i]],
        total |-> bought, written |-> {}])

\* The allocations other sessions have locked.
LockedAllocations(s) ==
  UNION {IF o.phase = "WAITING" THEN {} ELSE DOMAIN o.seen :
           o \in UNION {orders[t] : t \in Sessions \ {s}}}

AcquireRows_Fault(s) == \E o \in orders[s] :
  /\ o.phase = "WAITING"
  /\ Proceeds(s, [o EXCEPT !.phase = "LOCKED"])

\* The rows are as the SELECT saw them, whatever it has waited for.
AcquireRows(s) == \E o \in orders[s] :
  /\ o.phase = "WAITING" /\ DOMAIN o.seen \cap LockedAllocations(s) = {}
  /\ Proceeds(s, [o EXCEPT !.phase = "LOCKED"])

\* The CHECKs of treasury_executions and treasury_cash_consumptions.
Storable(o) ==
  /\ Spending(o) \in [Slots -> Nat]
  /\ Executed(o) \in [Instruments -> [shares : Nat, basis : Nat]]
  /\ \A c \in Buys(o) : Gross(o, c, Shares(o, c)) \in Nat \ {0}

\* Every consumption passes the ceiling trigger, which reads the committed sum.
Buy(s) == \E o \in orders[s] :
  /\ o.phase = "LOCKED"
  /\ Quoted(o) = Eligible(o) /\ Storable(o)
  /\ \A i \in DOMAIN siphons : spent[i] + Spending(o)[i] <= Allocated(i)
  /\ Proceeds(s, [o EXCEPT !.phase = "BOUGHT"])

\* rebuild_holdings_projection sums what is committed and what the call has
\* bought, and updates the holdings that differ; its statements are one step.
Rebuild(s) == \E o \in orders[s] :
  LET total == Plus(bought, Executed(o))
  IN /\ o.phase = "BOUGHT" /\ Buys(o) # {}
     /\ Proceeds(s, [o EXCEPT !.phase = "REBUILT", !.total = total,
                       !.written = {j \in Instruments : total[j] # holdings[j]}])

\* A call that bought nothing keeps its observations.
Commit(s) == \E o \in orders[s] :
  /\ o.phase = IF Buys(o) = {} THEN "BOUGHT" ELSE "REBUILT"
  /\ spent' = [i \in Slots |-> spent[i] + Spending(o)[i]]
  /\ bought' = Plus(bought, Executed(o))
  /\ holdings' = [j \in Instruments |-> IF j \in o.written THEN o.total[j] ELSE holdings[j]]
  /\ blocked' = blocked \cup Gated(o)
  /\ orders' = [orders EXCEPT ![s] = {}]
  /\ UNCHANGED siphonVars

\* A missing snapshot or a trigger, or the call is lost.
Abort(s) ==
  /\ orders[s] # {} /\ orders' = [orders EXCEPT ![s] = {}]
  /\ UNCHANGED <<siphonVars, spent, bought, holdings, blocked>>

ExecuteAvailable(s) == AcquireRows(s) \/ Buy(s) \/ Rebuild(s) \/ Commit(s) \/ Abort(s)

Next ==
  \/ SiphonNext /\ (\A s \in Sessions : calls'[s] = {} \/ orders[s] = {})
       /\ UNCHANGED treasuryVars
  \/ \E s \in Sessions : ExecuteAvailable(s)
  \/ \E s \in Sessions : \E quote \in [Configs -> Quotes \cup {NoQuote}], fees \in Fees :
       Select(s, quote, fees)

Spec == Init /\ [][Next]_vars

-----------------------------------------------------------------------------
(* Properties. *)

\* Every variable holds a value of its table's domain.
TypeOK ==
  /\ booked \subseteq Facts /\ target \subseteq versions /\ versions \subseteq Configs
  /\ attributed \in [Facts -> Nat]
  /\ siphons \in Seq([qualified : Nat, target : Configs, evidence : Evidence])
  /\ Len(siphons) <= MaxSiphons
  /\ DOMAIN calls = Sessions /\ DOMAIN orders = Sessions
  /\ \A s \in Sessions : \A c \in calls[s] :
       /\ c.phase \in {"WAITING", "LOCKED", "COUNTED", "READY"}
       /\ c.evidence \in Evidence /\ c.target \in Configs /\ c.rows \subseteq booked
  /\ spent \in [Slots -> Nat]
  /\ bought \in [Instruments -> [shares : Nat, basis : Nat]]
  /\ holdings \in [Instruments -> [shares : Nat, basis : Nat]]
  /\ blocked \subseteq Configs
  /\ \A s \in Sessions : \A o \in orders[s] :
       /\ o.phase \in {"WAITING", "LOCKED", "BOUGHT", "REBUILT"}
       /\ DOMAIN o.seen \subseteq DOMAIN siphons
       /\ o.total \in [Instruments -> [shares : Nat, basis : Nat]]

\* No dollar of profit buys twice: an allocation is never consumed for more
\* than it has, also by calls that read it before they waited for each other.
AllocationsSpentOnce == \A i \in DOMAIN siphons : spent[i] <= Allocated(i)

\* Every execution is paid for out of allocations to the cent, fee included.
ExecutionsArePaid ==
  MapThenSumSet(LAMBDA j : bought[j].basis, Instruments) = Total(spent, Slots)

\* The older allocations of a target are used up before a newer one is touched.
OldestFirst ==
  \A i, k \in DOMAIN siphons :
    (i < k /\ siphons[i].target = siphons[k].target /\ spent[k] > 0) => spent[i] = Allocated(i)

\* The holdings are the sum of the executions, though they are rebuilt
\* by a read and a later write that nothing but the allocations' locks guards.
HoldingsAreExecutions == holdings = bought

\* A dollar of an allocation is spent once, and what is held is what was bought.
SpendingIsHeld == AllocationsSpentOnce /\ HoldingsAreExecutions

\* A purchase takes what it costs, from the oldest allocation that has it.
PurchasesAreDue == ExecutionsArePaid /\ OldestFirst
=============================================================================

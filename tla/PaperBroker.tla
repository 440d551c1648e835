----------------------------- MODULE PaperBroker -----------------------------
(***************************************************************************)
(* The simulated venue of engine/execution/paper_broker.py, with its price *)
(* model (fill_model.py), liquidity model (liquidity.py), cancellation and *)
(* lineage gate.  Orders are submitted, matched against market evidence,   *)
(* retried with the same or other evidence, and cancelled, in any order;   *)
(* every call is one database transaction of a single engine.              *)
(*                                                                         *)
(* Prices and quantities are small integers; a notional order's quantity   *)
(* is an integer quotient.  Slippage is an adverse price increment.        *)
(***************************************************************************)
EXTENDS Integers, FiniteSets

CONSTANTS
  Orders,         \* submitted to the engine, each with one intent
  Intent,         \* side, type, limit, sizing, size of each order
  Authorized,     \* orders whose risk decision is AUTHORIZED
  Snapshots,      \* persisted market snapshots
  Quote,          \* the evidence of each snapshot
  NoSnapshot,
  Slippage,       \* default_slippage_bps, as a price increment
  RejectIlliquid  \* PaperEngineConfig.reject_illiquid_quotes

Sides == {"BUY", "SELL"}
IntentType == [side : Sides, type : {"MARKET", "LIMIT", "STOP"}, limit : Nat \ {0},
               sizing : {"QUANTITY", "NOTIONAL"}, size : Nat \ {0}]
\* Reference price and size per side: ask and bid, the last print twice, or
\* the bar's high and low (sizes not looked at).
QuoteType == [tier : {"QUOTE_DEPTH", "TRADE_HISTORY", "BAR_ONLY"},
              ref : [Sides -> Nat \ {0}], size : [Sides -> Nat]]
Statuses == {"NEW", "ACCEPTED", "PENDING_MATCH", "REJECTED", "PARTIALLY_FILLED", "FILLED",
             "CANCEL_REQUESTED", "CANCELED", "TOO_LATE_ALREADY_FILLED"}

ASSUME InputAssumption ==
  /\ Intent \in [Orders -> IntentType]
  /\ Quote \in [Snapshots -> QuoteType]
  /\ Authorized \subseteq Orders
  /\ NoSnapshot \notin Snapshots
  /\ Slippage \in Nat
  /\ RejectIlliquid \in BOOLEAN

VARIABLES
  status,        \* kairo_orders.status
  submitted,     \* kairo_orders.broker_order_id is set
  observations,  \* order_observations: order, message key, status
  fills,         \* fills: order, snapshot, quantity, price
  filled,        \* SUM(fills.quantity) of each order
  brokerActive   \* broker_accounts.status = ACTIVE and not retired

vars == <<status, submitted, observations, fills, filled, brokerActive>>

Init ==
  /\ status = [o \in Orders |-> "NEW"]
  /\ submitted = {}
  /\ observations = {}
  /\ fills = {}
  /\ filled = [o \in Orders |-> 0]
  /\ brokerActive = TRUE

-----------------------------------------------------------------------------
(* Price, target and liquidity. *)

Least(a, b) == IF a <= b THEN a ELSE b
Greatest(a, b) == IF a >= b THEN a ELSE b

Marketable(o, s) ==
  LET i == Intent[o]   ref == Quote[s].ref[i.side]
  IN i.type = "LIMIT" => IF i.side = "BUY" THEN ref <= i.limit ELSE ref >= i.limit

\* Slipped against the order, then capped by its limit; prices stay positive.
ExecutionPrice(o, s) ==
  LET i == Intent[o]
      slipped == IF i.side = "BUY" THEN Quote[s].ref["BUY"] + Slippage
                 ELSE Greatest(1, Quote[s].ref["SELL"] - Slippage)
  IN IF i.type # "LIMIT" THEN slipped
     ELSE IF i.side = "BUY" THEN Least(slipped, i.limit)
     ELSE Greatest(slipped, i.limit)

\* A notional order has no quantity of its own: the quote at hand gives it one,
\* and a limit the quote does not reach makes it zero.
TargetQuantity(o, s) ==
  IF Intent[o].sizing = "QUANTITY" THEN Intent[o].size
  ELSE IF ~Marketable(o, s) THEN 0
  ELSE Intent[o].size \div ExecutionPrice(o, s)

\* Notional orders are given sizes their prices divide, where the code keeps
\* ten decimals.
ASSUME ExactAssumption ==
  \A o \in Orders, s \in Snapshots :
    Intent[o].sizing = "NOTIONAL" => Intent[o].size % ExecutionPrice(o, s) = 0

Remaining_Fault(o, s) == TargetQuantity(o, s)

Remaining(o, s) == Greatest(0, TargetQuantity(o, s) - filled[o])

\* Depth or print size caps the fill; a bar fills whatever remains.
FillQuantity(o, s) ==
  IF Quote[s].tier = "BAR_ONLY" THEN Remaining(o, s)
  ELSE Least(Remaining(o, s), Quote[s].size[Intent[o].side])

-----------------------------------------------------------------------------
(* Observations: the idempotency keys of the engine. *)

Observation(o, key, st) == [order |-> o, key |-> key, status |-> st]
Observed(o, key) == \E b \in observations : b.order = o /\ b.key = key
MatchKey(s) == <<"MATCH", s>>
Key(name) == <<name, NoSnapshot>>

-----------------------------------------------------------------------------
(* Matching. *)

\* The lineage gate: it looks at the decision, the account and the evidence,
\* never at the status the order has reached.
GatePasses(o) == o \in Authorized /\ brokerActive

Replayed_Fault(o, s) == FALSE

\* This order has been matched against this evidence before.
Replayed(o, s) == Observed(o, MatchKey(s))

\* The status _match leaves the order in, when it has not been replayed.
MatchStatus(o, s) ==
  IF Remaining(o, s) = 0 THEN "FILLED"
  ELSE IF ~Marketable(o, s) THEN "PENDING_MATCH"
  ELSE IF FillQuantity(o, s) = 0
       THEN IF RejectIlliquid THEN "REJECTED" ELSE "PENDING_MATCH"
  ELSE IF filled[o] + FillQuantity(o, s) >= TargetQuantity(o, s) THEN "FILLED"
  ELSE "PARTIALLY_FILLED"

Executes(o, s) ==
  ~Replayed(o, s) /\ Remaining(o, s) > 0 /\ Marketable(o, s) /\ FillQuantity(o, s) > 0

\* _match, after "acked" observations were appended by the same call.  An
\* order with nothing left is marked filled without an observation.
Match(o, s, acked) ==
  /\ status' = [status EXCEPT ![o] = IF Replayed(o, s) THEN @ ELSE MatchStatus(o, s)]
  /\ observations' = observations \cup acked \cup
       (IF Replayed(o, s) \/ Remaining(o, s) = 0 THEN {}
        ELSE {Observation(o, MatchKey(s), MatchStatus(o, s))})
  /\ IF Executes(o, s)
     THEN /\ fills' = fills \cup {[order |-> o, snapshot |-> s,
                                   quantity |-> FillQuantity(o, s),
                                   price |-> ExecutionPrice(o, s)]}
          /\ filled' = [filled EXCEPT ![o] = @ + FillQuantity(o, s)]
     ELSE UNCHANGED <<fills, filled>>

\* Submitting twice only matches again.
SubmitOrder(o, s) ==
  /\ GatePasses(o)
  /\ submitted' = submitted \cup {o}
  /\ Match(o, s, IF Observed(o, Key("SUBMITTED")) THEN {}
                 ELSE {Observation(o, Key("SUBMITTED"), "SUBMITTED"),
                       Observation(o, Key("ACCEPTED"), "ACCEPTED")})
  /\ UNCHANGED brokerActive

ProcessQuote(o, s) ==
  \/ o \notin submitted /\ SubmitOrder(o, s)
  \/ /\ o \in submitted
     /\ GatePasses(o)
     /\ Match(o, s, {})
     /\ UNCHANGED <<submitted, brokerActive>>

-----------------------------------------------------------------------------
(* Cancellation; neither call goes through the gate. *)

RequestCancel_Fault(o) ==
  /\ o \in submitted
  /\ observations' = observations \cup
       {Observation(o, Key("CANCEL_REQUESTED"), "CANCEL_REQUESTED")}
  /\ status' = [status EXCEPT ![o] = "CANCEL_REQUESTED"]
  /\ UNCHANGED <<submitted, fills, filled, brokerActive>>

RequestCancel(o) ==
  /\ o \in submitted
  /\ observations' = observations \cup
       {Observation(o, Key("CANCEL_REQUESTED"), "CANCEL_REQUESTED")}
  /\ status' = [status EXCEPT ![o] = IF @ = "FILLED" THEN @ ELSE "CANCEL_REQUESTED"]
  /\ UNCHANGED <<submitted, fills, filled, brokerActive>>

ResolveCancel(o) ==
  LET outcome == IF status[o] = "FILLED" THEN "TOO_LATE_ALREADY_FILLED" ELSE "CANCELED"
  IN /\ o \in submitted
     /\ Observed(o, Key("CANCEL_REQUESTED"))
     /\ observations' = observations \cup {Observation(o, Key(outcome), outcome)}
     /\ status' = [status EXCEPT ![o] = outcome]
     /\ UNCHANGED <<submitted, fills, filled, brokerActive>>

\* An operator deactivates the account (outside the engine).
RetireBroker ==
  /\ brokerActive
  /\ brokerActive' = FALSE
  /\ UNCHANGED <<status, submitted, observations, fills, filled>>

Next ==
  \/ \E o \in Orders, s \in Snapshots : SubmitOrder(o, s) \/ ProcessQuote(o, s)
  \/ \E o \in Orders : RequestCancel(o) \/ ResolveCancel(o)
  \/ RetireBroker

Spec == Init /\ [][Next]_vars

-----------------------------------------------------------------------------
(* What is checked and proved. *)

\* Every variable holds a value of its column's domain.
TypeOK ==
  /\ status \in [Orders -> Statuses]
  /\ submitted \subseteq Orders
  /\ filled \in [Orders -> Nat]
  /\ fills \subseteq [order : Orders, snapshot : Snapshots, quantity : Nat \ {0},
                      price : Nat \ {0}]
  /\ \A b \in observations : b.order \in Orders
  /\ brokerActive \in BOOLEAN

\* However often and with whatever evidence an order of fixed quantity is
\* submitted, matched, cancelled and matched again, it never fills for more
\* than it asked.
NeverOverfilled ==
  \A o \in Orders : Intent[o].sizing = "QUANTITY" => filled[o] <= Intent[o].size

\* What the broker says of a full fill, FILLED or TOO_LATE as the answer to a
\* cancel, is true of an order of fixed quantity: it has it all.  Of a notional
\* order it says less: that it has what one of the quotes made of its size, or
\* that a quote did not reach its limit, which _match takes for a quantity of
\* zero and so for FILLED, whatever was filled, nothing included.
FilledIsTrue ==
  \A o \in Orders : status[o] \in {"FILLED", "TOO_LATE_ALREADY_FILLED"} =>
    IF Intent[o].sizing = "QUANTITY" THEN filled[o] = Intent[o].size
    ELSE \E s \in Snapshots : ~Marketable(o, s) \/ filled[o] >= TargetQuantity(o, s)

\* A limit order never trades through its limit, slippage included.
LimitRespected ==
  \A f \in fills : Intent[f.order].type = "LIMIT" =>
    IF Intent[f.order].side = "BUY" THEN f.price <= Intent[f.order].limit
    ELSE f.price >= Intent[f.order].limit

\* A cancel request, or evidence that arrives late, never reopens an order of
\* fixed quantity that is filled: it leaves FILLED only through the resolution
\* of a cancel that says so.
CancelNeverHidesFill ==
  [][\A o \in Orders :
       (Intent[o].sizing = "QUANTITY" /\ status[o] = "FILLED") =>
         status'[o] \in {"FILLED", "TOO_LATE_ALREADY_FILLED"}]_status

\* resolve_cancellation: a fully filled order is too late to cancel.
FilledOrderNeverCanceled ==
  \A o \in Orders :
    (Intent[o].sizing = "QUANTITY" /\ filled[o] = Intent[o].size) => status[o] # "CANCELED"

\* The evidence each order has been filled against.
UsedEvidence == [o \in Orders |-> {f.snapshot : f \in {g \in fills : g.order = o}}]

Venue == INSTANCE EvidenceFills
           WITH Evidence <- Snapshots, Asked <- TargetQuantity, used <- UsedEvidence

\* The engine, retries and cancels included, implements the abstract venue:
\* each fill uses fresh evidence and stays within the target it implies, for
\* orders of fixed quantity and of fixed notional alike.
ImplementsVenue == Venue!Spec

\* No order fills beyond its quantity or its limit.
FillsAreDue == TypeOK /\ NeverOverfilled /\ LimitRespected

\* What the status of an order says of its fills is true, as far as it goes for
\* a notional order, and a cancel does not hide it.
StatusesAreTrue == []FilledIsTrue /\ CancelNeverHidesFill
===============================================================================

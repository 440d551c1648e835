--------------------------- MODULE ReplaySession ---------------------------
(***************************************************************************)
(* A replayed trading session of one cell: ReplayOrchestrator              *)
(* (engine/execution/replay_orchestrator.py) feeds market events to the    *)
(* risk governor and to EMACrossStrategy (engine/strategy/), routes the    *)
(* strategy's signals through the governor to the paper broker, and writes *)
(* the fills back to the positions, the strategy and the governor.         *)
(*                                                                         *)
(* The replay is one thread in one transaction; what makes it hard is that *)
(* one event is a chain of governor operations with the portfolio, the     *)
(* strategy and the P&L updated at different links.  Each link is a step,  *)
(* the governor's part of it the very action of RiskGovernor.              *)
(*                                                                         *)
(* The average is abstracted to the side of it the close is on.  Orders    *)
(* are limit orders at the quote, so they fill at the limit, for what the  *)
(* quote's depth allows, without commission; they are never matched again. *)
(* The virtual clock never goes back, so one time stands for all.          *)
(***************************************************************************)
EXTENDS RiskGovernor

CONSTANTS
  Symbols,         \* the underlyings
  Underlying,      \* the instrument of each symbol
  Contracts,       \* the options of each symbol and right
  Account,         \* ReplaySessionConfig.broker_account_id
  Cash,            \* ReplaySessionConfig.initial_cash_usd
  Quotes,          \* what the option chain may say of a contract
  Unquoted,        \* a contract the chain of an event does not have
  UnderlyingMark,  \* the mark of an underlying: no position depends on it
  MaxFills         \* bound on the fills of a session

Rights == {"CALL", "PUT"}

ASSUME ReplayAssumption ==
  /\ Account \in Accounts
  /\ Underlying \in [Symbols -> Instruments \ Options]
  /\ Contracts \in [Symbols -> [Rights -> SUBSET Options]]
  /\ \A s, t \in Symbols, r, q \in Rights :
       <<s, r>> # <<t, q>> => Contracts[s][r] \cap Contracts[t][q] = {}
  /\ Cash \in Nat /\ MaxFills \in Nat
  /\ Quotes \subseteq [bid : Nat, ask : Nat, depth : Nat] /\ Unquoted \notin Quotes
  /\ \A q \in Quotes : \A p \in {q.bid, q.ask} : p > 0 => [price |-> p, at |-> 1] \in Marks
  /\ UnderlyingMark \in Marks

VARIABLES
  at,             \* where the orchestrator is in the event it processes
  symbol,         \* the event's symbol, in a set
  chain,          \* its option chain
  unmarked,       \* open contracts of the chain still to be marked
  order,          \* the order being routed, in a set
  fill,           \* the fill being applied, in a set
  hours,          \* TRADING to 15:45, FLATTENING to 16:00, CLOSED
  side,           \* per symbol, side of the average of the last close
  held,           \* EMACrossStrategy._positions, at most one per symbol
  losses,         \* consecutive_losses
  entriesHalted,
  rows,           \* contracts with a current_positions row
  fills,          \* fills so far
  earned          \* SUM(fill_realized_pnl.realized_pnl_usd)

event == <<symbol, chain, unmarked>>
strategy == <<side, held, losses, entriesHalted>>
replay == <<at, event, order, fill, hours, strategy, rows, fills, earned>>
governor == <<session, opState, pnl, marks, ledger, decision, commands>>

Sides == {"UNREADY", "BELOW", "ON", "ABOVE"}
Hours == {"TRADING", "FLATTENING", "CLOSED"}
NoChain == [i \in Options |-> Unquoted]
Holding(i) == <<Account, i>>
Lot(i) == positions[Holding(i)]

ReplayInit ==
  /\ Init
  /\ at = "START"
  /\ symbol = {} /\ chain = NoChain /\ unmarked = {}
  /\ order = {} /\ fill = {}
  /\ hours = "TRADING"
  /\ side = [s \in Symbols |-> "UNREADY"]
  /\ held = [s \in Symbols |-> {}]
  /\ losses = 0 /\ entriesHalted = FALSE
  /\ rows = {} /\ fills = 0 /\ earned = 0

-----------------------------------------------------------------------------
(* initialize *)

StartSession(s) ==
  /\ at = "START" /\ InitializeSession(s)
  /\ at' = "ARM"
  /\ UNCHANGED <<event, order, fill, hours, strategy, rows, fills, earned>>

\* execution_authorized_for_replay decides whether the session is armed.
ArmSession ==
  /\ at = "ARM"
  /\ Arm \/ UNCHANGED vars
  /\ at' = "IDLE"
  /\ UNCHANGED <<event, order, fill, hours, strategy, rows, fills, earned>>

-----------------------------------------------------------------------------
(* _process_event: marks before strategy. *)

Idle ==
  /\ at' = "IDLE"
  /\ symbol' = {} /\ chain' = NoChain /\ unmarked' = {}
  /\ order' = {} /\ fill' = {}

Later(h, g) == h = g \/ h = "TRADING" \/ g = "CLOSED"

\* A chain holds contracts of the event's own symbol.
TakeEvent(s, quoted, h) ==
  /\ at = "IDLE" /\ fills < MaxFills
  /\ \A i \in Options : quoted[i] # Unquoted => \E r \in Rights : i \in Contracts[s][r]
  /\ Later(hours, h) /\ hours' = h
  /\ symbol' = {s} /\ chain' = quoted
  /\ at' = "UNDERLYING"
  /\ UNCHANGED <<vars, unmarked, order, fill, strategy, rows, fills, earned>>

\* A long position is marked at the bid, a short one at the ask.
LiquidationMark(i) == IF Lot(i).qty > 0 THEN chain[i].bid ELSE chain[i].ask

\* The open positions the event's chain has a liquidation mark for.
ToMark == {i \in Options : /\ Holding(i) \in OpenHoldings /\ chain[i] # Unquoted
                           /\ LiquidationMark(i) > 0}

MarkUnderlying ==
  /\ at = "UNDERLYING"
  /\ \E s \in symbol : RecordMarketMark(Underlying[s], UnderlyingMark)
  /\ at' = "MARKS" /\ unmarked' = ToMark
  /\ UNCHANGED <<symbol, chain, order, fill, hours, strategy, rows, fills, earned>>

MarkPosition(i) ==
  /\ at = "MARKS" /\ i \in unmarked
  /\ RecordMarketMark(i, [price |-> LiquidationMark(i), at |-> 1])
  /\ unmarked' = unmarked \ {i}
  /\ UNCHANGED <<at, symbol, chain, order, fill, hours, strategy, rows, fills, earned>>

\* An observation that completes no minute, or comes after 16:00.
NoBar ==
  /\ at = "MARKS" /\ unmarked = {}
  /\ Idle
  /\ UNCHANGED <<vars, hours, strategy, rows, fills, earned>>

-----------------------------------------------------------------------------
(* EMACrossStrategy.on_bar *)

\* Both sides of the quote are needed for it to be an execution quote.
Executable(i) == chain[i] # Unquoted /\ chain[i].bid > 0 /\ chain[i].ask > 0

OrderFor(i, s, sd, q, p, purpose) ==
  [instrument |-> i, symbol |-> s, side |-> sd, qty |-> q, price |-> p, purpose |-> purpose]

Reversed(right, now) == now = (IF right = "CALL" THEN "BELOW" ELSE "ABOVE")

\* Why position p is to be left at this bid: forced flatten, ten percent up,
\* five percent down, trend reversal, in this order.
ExitPurpose(p, bid, now) ==
  IF hours = "FLATTENING" THEN {"EMERGENCY_EXIT"}
  ELSE IF 10 * (bid - p.entry) >= p.entry THEN {"TAKE_PROFIT"}
  ELSE IF 20 * (bid - p.entry) <= -p.entry THEN {"STOP_LOSS"}
  ELSE IF Reversed(p.right, now) THEN {"EMERGENCY_EXIT"} ELSE {}

\* A signal without an execution quote of its own contract is dropped.
ExitOrders(s, now) ==
  UNION {LET bid == chain[p.instrument].bid
         IN {OrderFor(p.instrument, s, "SELL", p.qty, bid, purpose) :
               purpose \in ExitPurpose(p, bid, now)} :
           p \in {p \in held[s] : Executable(p.instrument)}}

\* The right a cross of the average buys.
CrossRights(was, now) ==
  IF was \in {"BELOW", "ON"} /\ now = "ABOVE" THEN {"CALL"}
  ELSE IF was \in {"ABOVE", "ON"} /\ now = "BELOW" THEN {"PUT"} ELSE {}

\* A third of half the cash, in whole contracts.
EntryQty(i) == Cash \div (6 * chain[i].ask * Multiplier[i])

MayEnter_Fault == hours = "TRADING"

MayEnter == hours = "TRADING" /\ ~entriesHalted

\* The orders an entry may give: the resolver picks one eligible contract.
EntryOrders(s, now) ==
  {OrderFor(i, s, "BUY", EntryQty(i), chain[i].ask, "ENTRY") :
     i \in {i \in UNION {Contracts[s][r] : r \in CrossRights(side[s], now)} :
              MayEnter /\ Executable(i) /\ EntryQty(i) >= 1}}

\* No order comes of an entry when the resolver finds no eligible contract.
OnBar(now) == \E s \in symbol :
  /\ at = "MARKS" /\ unmarked = {}
  /\ hours # "CLOSED"
  /\ now = "UNREADY" => side[s] = "UNREADY"
  /\ side' = [side EXCEPT ![s] = now]
  /\ LET orders == IF held[s] # {} THEN ExitOrders(s, now) ELSE EntryOrders(s, now)
     IN \/ \E o \in orders :
             /\ order' = {o} /\ at' = "ROUTE"
             /\ UNCHANGED <<event, fill>>
        \/ (orders = {} \/ held[s] = {}) /\ Idle
  /\ UNCHANGED <<vars, hours, held, losses, entriesHalted, rows, fills, earned>>

-----------------------------------------------------------------------------
(* _route_signal *)

RequestOf(o) ==
  [purpose |-> o.purpose, side |-> o.side, holding |-> Holding(o.instrument),
   qty |-> o.qty, sizing |-> "QUANTITY", price |-> o.price, quote |-> "FRESH",
   registry |-> "OK", cleared |-> TRUE, capability |-> "LONG_ONLY", cash |-> Cash]

RouteSignal == \E o \in order :
  /\ at = "ROUTE"
  /\ RequestOf(o) \in Requests /\ Evaluate(RequestOf(o))
  /\ \/ Reason(RequestOf(o)) = "NONE" /\ at' = "SUBMIT" /\ UNCHANGED <<event, order, fill>>
     \/ Reason(RequestOf(o)) # "NONE" /\ Idle
  /\ UNCHANGED <<hours, strategy, rows, fills, earned>>

-----------------------------------------------------------------------------
(* submit_order and _apply_fills *)

FillOf(o, q, delta) ==
  [instrument |-> o.instrument, price |-> o.price, realized |-> delta, qty |-> q]

Filled(o) == IF o.qty <= chain[o.instrument].depth THEN o.qty ELSE chain[o.instrument].depth

Writes(i, lot) == lot \in Lots /\ positions' = [positions EXCEPT ![Holding(i)] = lot]

NotFilled ==
  /\ at = "SUBMIT" /\ \A o \in order : Filled(o) = 0
  /\ Idle
  /\ UNCHANGED <<vars, hours, strategy, rows, fills, earned>>

Bought(lot, q, p) ==
  [qty |-> lot.qty + q, avg |-> (lot.avg * lot.qty + p * q) \div (lot.qty + q)]

\* The strategy records the fill, not the lot it has become.
BuyFill == \E o \in order :
  LET i == o.instrument  q == Filled(o)
  IN /\ at = "SUBMIT" /\ o.side = "BUY" /\ q > 0
     /\ Lot(i).qty # 0 \/ i \notin rows
     /\ Writes(i, Bought(Lot(i), q, o.price))
     /\ rows' = rows \cup {i}
     /\ held' = [held EXCEPT ![o.symbol] =
                   {[instrument |-> i, qty |-> q, entry |-> o.price,
                     right |-> IF i \in Contracts[o.symbol]["CALL"] THEN "CALL" ELSE "PUT"]}]
     /\ fill' = {FillOf(o, q, 0)} /\ fills' = fills + 1
     /\ at' = "FILL_MARK"
     /\ UNCHANGED <<governor, event, order, hours, side, losses, entriesHalted, earned>>

\* The lot is looked up by quantity # 0, but its row is still there: a second
\* row is refused by uq_current_position_identity and the replay ends.
DuplicateRow == \E o \in order :
  /\ at = "SUBMIT" /\ o.side = "BUY" /\ Filled(o) > 0
  /\ Lot(o.instrument).qty = 0 /\ o.instrument \in rows
  /\ at' = "FAILED"
  /\ UNCHANGED <<vars, event, order, fill, hours, strategy, rows, fills, earned>>

SellFill_Fault == \E o \in order :
  LET i == o.instrument  q == Filled(o)
      delta == (o.price - Lot(i).avg) * q * Multiplier[i]
  IN /\ at = "SUBMIT" /\ o.side = "SELL" /\ q > 0
     /\ Writes(i, [Lot(i) EXCEPT !.qty = @ - q])
     /\ UNCHANGED held
     /\ losses' = (IF delta < 0 THEN losses + 1 ELSE 0)
     /\ entriesHalted' = (entriesHalted \/ losses' >= 2)
     /\ fill' = {FillOf(o, q, delta)} /\ fills' = fills + 1
     /\ earned' = earned + delta
     /\ at' = "FILL_MARK"
     /\ UNCHANGED <<governor, event, order, hours, side, rows>>

\* The strategy forgets its position, however much of it was sold.
SellFill == \E o \in order :
  LET i == o.instrument  q == Filled(o)
      delta == (o.price - Lot(i).avg) * q * Multiplier[i]
  IN /\ at = "SUBMIT" /\ o.side = "SELL" /\ q > 0
     /\ Writes(i, [Lot(i) EXCEPT !.qty = @ - q])
     /\ held' = [held EXCEPT ![o.symbol] = {}]
     /\ losses' = (IF delta < 0 THEN losses + 1 ELSE 0)
     /\ entriesHalted' = (entriesHalted \/ losses' >= 2)
     /\ fill' = {FillOf(o, q, delta)} /\ fills' = fills + 1
     /\ earned' = earned + delta
     /\ at' = "FILL_MARK"
     /\ UNCHANGED <<governor, event, order, hours, side, rows>>

\* The governor is given a mark at the fill price ...
MarkFill == \E f \in fill :
  /\ at = "FILL_MARK"
  /\ RecordMarketMark(f.instrument, [price |-> f.price, at |-> 1])
  /\ at' = "ACCOUNT"
  /\ UNCHANGED <<event, order, fill, hours, strategy, rows, fills, earned>>

\* The total without the net it is part of.
AccountFill_Fault == \E f \in fill :
  /\ at = "ACCOUNT"
  /\ realized' = realized + f.realized
  /\ Idle
  /\ UNCHANGED <<session, opState, unrealized, fees, net, marks, ledger, positions, decision>>
  /\ UNCHANGED <<commands, hours, strategy, rows, fills, earned>>

\* The mark at the fill price is taken for all the governor has to know.
AccountFill_Skip_Fault ==
  /\ at = "ACCOUNT"
  /\ Idle
  /\ UNCHANGED <<vars, hours, strategy, rows, fills, earned>>

\* ... and only then what the fill has realized.
AccountFill == \E f \in fill :
  /\ at = "ACCOUNT"
  /\ [realized |-> f.realized, fees |-> 0] \in FillEvents
  /\ RecordFillAccounting([realized |-> f.realized, fees |-> 0], OpenHoldings)
  /\ Idle
  /\ UNCHANGED <<hours, strategy, rows, fills, earned>>

-----------------------------------------------------------------------------

ReplayNext ==
  \/ \E s \in Sessions : StartSession(s)
  \/ ArmSession
  \/ \E s \in Symbols : \E quoted \in [Options -> Quotes \cup {Unquoted}] : \E h \in Hours :
       TakeEvent(s, quoted, h)
  \/ MarkUnderlying \/ \E i \in Options : MarkPosition(i)
  \/ NoBar \/ \E now \in Sides : OnBar(now)
  \/ RouteSignal
  \/ NotFilled \/ BuyFill \/ DuplicateRow \/ SellFill
  \/ MarkFill \/ AccountFill

ReplaySpec == ReplayInit /\ [][ReplayNext]_<<vars, replay>>

-----------------------------------------------------------------------------
(* Properties. *)

Order == [instrument : Options, symbol : Symbols, side : {"BUY", "SELL"}, qty : Nat,
          price : Nat, purpose : ExitPurposes \cup {"ENTRY"}]

\* Type invariant.
ReplayTypeOK ==
  /\ at \in {"START", "ARM", "IDLE", "UNDERLYING", "MARKS", "ROUTE", "SUBMIT",
             "FILL_MARK", "ACCOUNT", "FAILED"}
  /\ symbol \subseteq Symbols
  /\ chain \in [Options -> Quotes \cup {Unquoted}]
  /\ unmarked \subseteq Options
  /\ order \subseteq Order
  /\ fill \subseteq [instrument : Options, price : Nat, realized : Int, qty : Nat]
  /\ hours \in Hours
  /\ side \in [Symbols -> Sides]
  /\ held \in [Symbols -> SUBSET [instrument : Options, qty : Nat, entry : Nat, right : Rights]]
  /\ \A s \in Symbols : \A p \in held[s] :
       /\ p.instrument \in Contracts[s][p.right] /\ p.qty > 0
       /\ \A q \in held[s] : p = q
  /\ losses \in Nat /\ entriesHalted \in BOOLEAN
  /\ rows \subseteq Options
  /\ fills \in Nat /\ earned \in Int

\* What the strategy would sell is there: its position never exceeds the lot
\* of the account, whatever was filled in part, averaged or forgotten.
NeverOversells ==
  \A s \in Symbols : \A p \in held[s] : p.qty <= Lot(p.instrument).qty

\* Where the governor's P&L is to be that of the account: everywhere but while
\* a fill is on its way to it.
Settled == at \in {"IDLE", "UNDERLYING", "MARKS", "ROUTE", "SUBMIT"}

\* The P&L the governor judges by is what the fills have realized and what is
\* held at its marks, without commissions: whatever was bought and sold, every
\* realization on record is in its net, once.  And when the strategy decides, an
\* order is routed or filled, every open contract the event quotes is valued at
\* that quote.
NetIsTrue ==
  Settled =>
    /\ \A h \in OpenHoldings : marks[session][h[2]] # NoMark
    /\ net = NetPnl(earned, Unrealized(marks[session]), 0)
    /\ at \in {"MARKS", "ROUTE", "SUBMIT"} =>
         \A i \in ToMark \ unmarked : marks[session][i].price = LiquidationMark(i)

\* A position is opened or added to only while the session is armed, inside
\* its band, before 15:45 and with fewer than two losses in a row behind it.
EntriesOnlyWhenAllowed ==
  [][\A i \in Options : Lot(i)'.qty > Lot(i).qty =>
       /\ opState = "ARMED" /\ ~(net <= LossFloor) /\ ~(net >= ProfitLock)
       /\ hours = "TRADING" /\ ~entriesHalted]_positions

\* Whatever the tape, the replay only does to the governor what its callers
\* may do: every behaviour of a session is one of RiskGovernor.
ImplementsGovernor == Spec

\* ema_cross_behavior_map.md: a closed position permits re-entry.
ReentryNeverFails == at # "FAILED"

Pending == MapThenSumSet(LAMBDA f : f.realized, IF at = "ACCOUNT" THEN fill ELSE {})
Judged == NetPnl(realized + Pending, Unrealized(marks[session]), fees)

\* ema_cross_behavior_map.md: the hard loss and the profit lock are
\* boundaries of the session's net P&L, fills included.
StopsOnTrueNet ==
  [][Initialized /\ opState' # opState =>
       \/ opState' = "ARMED"
       \/ opState' = "HALTED_HARD" /\ Judged' <= LossFloor
       \/ opState' = "LOCKED_FOR_DAY" /\ Judged' >= ProfitLock]_vars

\* What the orchestrator holds in its hands between two links is what these
\* links may leave, and what the strategy would sell is there.
PositionsAgree == ReplayTypeOK /\ NeverOversells
=============================================================================

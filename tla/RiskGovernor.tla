----------------------------- MODULE RiskGovernor -----------------------------
(***************************************************************************)
(* The per-cell capital authority: the operational state machine of        *)
(* engine/risk/state_machine.py and the operations of                      *)
(* engine/risk/governor.py on it.  Every operation takes the cell's single *)
(* risk_governor_state row FOR UPDATE before it reads anything, so an      *)
(* operation is one action; the portfolio is written by somebody else (the *)
(* fill router) and may change between any two of them.                    *)
(*                                                                         *)
(* Money, prices and timestamps are small integers.  Slippage is left out: *)
(* it is telemetry that no guard and no total reads.                       *)
(*                                                                         *)
(* An operator named Xxx_Fault is a plausible slip in Xxx; it is not part  *)
(* of the model, and stands before Xxx so that it can be put in its place. *)
(***************************************************************************)
EXTENDS Integers, FiniteSets, FiniteSetsExt

CONSTANTS
  Sessions,        \* the trading sessions of the cell
  Accounts,        \* broker accounts holding the cell's positions
  Instruments,     \* tradable instruments
  Options,         \* the instruments whose asset class is OPTION
  Multiplier,      \* contract multiplier of each instrument
  LossFloor,       \* risk_policies.daily_loss_floor_usd
  ProfitLock,      \* risk_policies.daily_profit_lock_usd
  SeedCapital,     \* capital_cells.seed_capital, the cell's exposure authority
  NoSession,       \* the state row does not exist yet
  NoMark,          \* no mark persisted for an instrument
  Marks,           \* market marks that can be observed
  Lots,            \* position rows the fill router can write
  FillEvents,      \* fill accounting events: realized delta and commission
  Requests,        \* order intents that can be put to the governor
  MoneyBound       \* bound on the accumulated realized P&L and fees

States == {"DISARMED", "ARMED", "MANUAL_PAUSE", "LOCKED_FOR_DAY",
           "HALTED_HARD", "FLAT_LOCKED"}
Holdings == Accounts \X Instruments
Flat == [qty |-> 0, avg |-> 0]
ExitPurposes == {"TAKE_PROFIT", "STOP_LOSS", "EMERGENCY_EXIT"}

\* The CHECK constraints of risk_policies and capital_cells, and the shape of
\* the values the environment may supply.
ASSUME PolicyAssumption ==
  /\ LossFloor \in Int /\ LossFloor < 0
  /\ ProfitLock \in Int /\ ProfitLock > 0
  /\ SeedCapital \in Nat
ASSUME DomainAssumption ==
  /\ NoSession \notin Sessions
  /\ NoMark \notin Marks
  /\ Options \subseteq Instruments
  /\ Multiplier \in [Instruments -> Nat \ {0}]
  /\ MoneyBound \in Nat
ASSUME InputAssumption ==
  /\ Marks \subseteq [price : Nat \ {0}, at : Nat]
  /\ Lots \subseteq [qty : Int, avg : Nat]
  /\ FillEvents \subseteq [realized : Int, fees : Nat]
  /\ Requests \subseteq
       [purpose : ExitPurposes \cup {"ENTRY"}, side : {"BUY", "SELL"},
        holding : Holdings, qty : Nat \ {0}, sizing : {"QUANTITY", "NOTIONAL"},
        price : Nat \ {0}, quote : {"FRESH", "STALE", "INVALID"},
        registry : {"OK", "UNRESOLVED", "BAD_CLEARANCE"}, cleared : BOOLEAN,
        capability : {"ABSENT", "LONG_ONLY", "SHORTABLE"}, cash : Nat]

VARIABLES
  session,     \* risk_governor_state.current_session_id
  opState,     \* risk_governor_state.operational_state
  realized,    \* session_realized_pnl
  unrealized,  \* session_unrealized_pnl
  fees,        \* session_fees_usd
  net,         \* session_net_pnl
  marks,       \* risk_instrument_marks, keyed by session and instrument
  ledger,      \* risk_state_events: the states each session ever entered
  positions,   \* current_positions of the cell (external writer)
  decision,    \* the last risk_decisions row, in a set; {} before the first
  commands     \* what the last operation returned to its caller

pnl == <<realized, unrealized, fees, net>>
vars == <<session, opState, pnl, marks, ledger, positions, decision, commands>>

-----------------------------------------------------------------------------
(* The operational state machine. *)

AllowedTransitions ==
  [DISARMED       |-> {"ARMED", "MANUAL_PAUSE", "HALTED_HARD"},
   ARMED          |-> {"MANUAL_PAUSE", "LOCKED_FOR_DAY", "HALTED_HARD"},
   MANUAL_PAUSE   |-> {"ARMED", "HALTED_HARD"},
   LOCKED_FOR_DAY |-> {"FLAT_LOCKED", "HALTED_HARD"},
   HALTED_HARD    |-> {},
   FLAT_LOCKED    |-> {}]

Event(sess, new) == [session |-> sess, new |-> new]

\* lock_state() raises until a session has been initialized.
Initialized == session # NoSession

\* transition() with new state "to": raises, leaving no trace, when the
\* table does not allow it, and is a no-op on the state it is already in.
Transition(to) ==
  /\ to \in AllowedTransitions[opState]
  /\ opState' = to
  /\ ledger' = ledger \cup {Event(session, to)}

Init ==
  /\ session = NoSession
  /\ opState = "DISARMED"
  /\ realized = 0 /\ unrealized = 0 /\ fees = 0 /\ net = 0
  /\ marks = [s \in Sessions |-> [i \in Instruments |-> NoMark]]
  /\ ledger = {}
  /\ positions = [h \in Holdings |-> Flat]
  /\ decision = {}
  /\ commands = {}

InitializeSession_KeepState_Fault(s) ==
  /\ session # s
  /\ session' = s
  /\ realized' = 0 /\ unrealized' = 0 /\ fees' = 0 /\ net' = 0
  /\ ledger' = ledger \cup {Event(s, opState)}
  /\ commands' = {}
  /\ UNCHANGED <<opState, marks, positions, decision>>

\* Naming the current session again changes nothing (the early return);
\* naming any other session, a new one or an old one, starts it from zero.
InitializeSession(s) ==
  /\ session # s
  /\ session' = s
  /\ opState' = "DISARMED"
  /\ realized' = 0 /\ unrealized' = 0 /\ fees' = 0 /\ net' = 0
  /\ ledger' = ledger \cup {Event(s, "DISARMED")}
  /\ commands' = {}
  /\ UNCHANGED <<marks, positions, decision>>

-----------------------------------------------------------------------------
(* Commands handed back to the caller. *)

Notice(to) == [type |-> "STATE_TRANSITION", new |-> to]
Exit(h, q) == [type |-> "EMERGENCY_EXIT", holding |-> h,
               side |-> IF q > 0 THEN "SELL" ELSE "BUY",
               qty |-> IF q > 0 THEN q ELSE -q]

OpenHoldings == {h \in Holdings : positions[h].qty # 0}

LiquidationCommands_Fault(reported) == {Notice("HALTED_HARD")}

\* An exit for each reported position; cancels of pending risk-increasing
\* orders are abstracted away: they carry no state of the governor.
LiquidationCommands(reported) ==
  {Notice("HALTED_HARD")} \cup {Exit(h, positions[h].qty) : h \in reported}

\* The position list a caller passes: what is open, or the empty default.
Reports == {OpenHoldings, {}}

-----------------------------------------------------------------------------
(* Operator controls. *)

Arm ==
  /\ Initialized
  /\ Transition("ARMED")
  /\ commands' = {Notice("ARMED")}
  /\ UNCHANGED <<session, pnl, marks, positions, decision>>

HaltTrading ==
  /\ Initialized
  /\ Transition("MANUAL_PAUSE")
  /\ commands' = {Notice("MANUAL_PAUSE")}
  /\ UNCHANGED <<session, pnl, marks, positions, decision>>

\* Already halted: transition() returns None and nothing is emitted again.
FlattenAll(reported) ==
  /\ Initialized
  /\ \/ /\ Transition("HALTED_HARD")
        /\ commands' = LiquidationCommands(reported)
     \/ /\ opState = "HALTED_HARD"
        /\ commands' = {}
        /\ UNCHANGED <<opState, ledger>>
  /\ UNCHANGED <<session, pnl, marks, positions, decision>>

ReconcileConfirmedPositions(reported) ==
  /\ Initialized
  /\ \/ /\ opState = "LOCKED_FOR_DAY" /\ reported = {}
        /\ Transition("FLAT_LOCKED")
        /\ commands' = {Notice("FLAT_LOCKED")}
     \/ /\ opState # "LOCKED_FOR_DAY" \/ reported # {}
        /\ commands' = {}
        /\ UNCHANGED <<opState, ledger>>
  /\ UNCHANGED <<session, pnl, marks, positions, decision>>

-----------------------------------------------------------------------------
(* Profit and loss. *)

NetPnl(r, u, f) == r + u - f

\* Mark-to-market of the whole open portfolio of the cell, at the marks m.
Unrealized(m) ==
  MapThenSumSet(LAMBDA h : positions[h].qty * (m[h[2]].price - positions[h].avg)
                             * Multiplier[h[2]],
                OpenHoldings)

ApplyPnlBoundary_Fault(n, reported) ==
  \/ /\ n <= LossFloor /\ opState = "ARMED"
     /\ Transition("HALTED_HARD")
     /\ commands' = LiquidationCommands(reported)
  \/ /\ ~(n <= LossFloor /\ opState = "ARMED")
     /\ commands' = {}
     /\ UNCHANGED <<opState, ledger>>

\* _apply_pnl_boundary with the new net P&L n.
ApplyPnlBoundary(n, reported) ==
  LET lossHit   == n <= LossFloor /\ opState \notin {"HALTED_HARD", "FLAT_LOCKED"}
      profitHit == ~lossHit /\ n >= ProfitLock /\ opState = "ARMED"
  IN \/ /\ lossHit
        /\ Transition("HALTED_HARD")
        /\ commands' = LiquidationCommands(reported)
     \/ /\ profitHit
        /\ Transition("LOCKED_FOR_DAY")
        /\ commands' = {Notice("LOCKED_FOR_DAY")}
     \/ /\ ~lossHit /\ ~profitHit
        /\ commands' = {}
        /\ UNCHANGED <<opState, ledger>>

RecordFillAccounting_StaleFees_Fault(e, reported) ==
  /\ Initialized
  /\ realized + e.realized \in -MoneyBound .. MoneyBound
  /\ fees + e.fees <= MoneyBound
  /\ realized' = realized + e.realized
  /\ fees' = fees + e.fees
  /\ net' = NetPnl(realized', unrealized, fees)
  /\ UNCHANGED unrealized
  /\ ApplyPnlBoundary(net', reported)
  /\ UNCHANGED <<session, marks, positions, decision>>

RecordFillAccounting(e, reported) ==
  /\ Initialized
  /\ realized + e.realized \in -MoneyBound .. MoneyBound
  /\ fees + e.fees <= MoneyBound
  /\ realized' = realized + e.realized
  /\ fees' = fees + e.fees
  /\ net' = NetPnl(realized', unrealized, fees')
  /\ UNCHANGED unrealized
  /\ ApplyPnlBoundary(net', reported)
  /\ UNCHANGED <<session, marks, positions, decision>>

LatestMark_Fault(i, m) == m

\* The persisted mark of an instrument once m is in: a mark older than the
\* persisted one is not stored.
LatestMark(i, m) ==
  LET kept == marks[session][i]
  IN IF kept = NoMark THEN m ELSE IF m.at >= kept.at THEN m ELSE kept

\* The portfolio is revalued even for a mark that was not stored; with an
\* unmarked open instrument the last complete P&L is kept and the boundary is
\* not looked at.
RecordMarketMark(i, m) ==
  LET latest   == [marks[session] EXCEPT ![i] = LatestMark(i, m)]
      complete == \A h \in OpenHoldings : latest[h[2]] # NoMark
  IN /\ Initialized
     /\ marks' = [marks EXCEPT ![session] = latest]
     /\ \/ /\ complete
           /\ unrealized' = Unrealized(latest)
           /\ net' = NetPnl(realized, unrealized', fees)
           /\ ApplyPnlBoundary(net', OpenHoldings)
        \/ /\ ~complete
           /\ commands' = {}
           /\ UNCHANGED <<unrealized, net, opState, ledger>>
     /\ UNCHANGED <<session, realized, fees, positions, decision>>

\* The fill router rewrites a position row, under no lock of the governor's.
PositionChanges(h, lot) ==
  /\ positions[h] # lot
  /\ positions' = [positions EXCEPT ![h] = lot]
  /\ UNCHANGED <<session, opState, pnl, marks, ledger, decision, commands>>

-----------------------------------------------------------------------------
(* Pre-trade evaluation of one order intent. *)

Abs(n) == IF n < 0 THEN -n ELSE n
ValueAt(r, q) == Abs(q) * r.price * Multiplier[r.holding[2]]

CurrentQty(r) == positions[r.holding].qty
ProjectedQty(r) == CurrentQty(r) + (IF r.side = "BUY" THEN r.qty ELSE -r.qty)

\* classify_intent: by projected exposure, never by side or purpose.
IncreasesRisk(r) == ValueAt(r, ProjectedQty(r)) > ValueAt(r, CurrentQty(r))
RequestedCash(r) ==
  IF ~IncreasesRisk(r) THEN 0
  ELSE IF r.sizing = "NOTIONAL" THEN ValueAt(r, r.qty)
  ELSE ValueAt(r, ProjectedQty(r)) - ValueAt(r, CurrentQty(r))

CapabilityAllows_Fault(r) == r.capability # "ABSENT"

\* _capability_allows, for the capability row of (account, instrument).
CapabilityAllows(r) ==
  /\ r.capability # "ABSENT"
  /\ ProjectedQty(r) < 0 => r.capability = "SHORTABLE"

\* _exit_safety_reason: its early returns, in order.
ExitSafetyReason(r) ==
  LET held == CurrentQty(r)
  IN IF opState = "HALTED_HARD" /\ r.purpose # "EMERGENCY_EXIT" THEN "SYSTEM_HALTED"
     ELSE IF held = 0 THEN "NO_CLOSABLE_INVENTORY"
     ELSE IF \/ r.side # (IF held > 0 THEN "SELL" ELSE "BUY")
             \/ IncreasesRisk(r) THEN "EXIT_WOULD_INCREASE_RISK"
     ELSE IF r.qty > Abs(held) THEN "EXIT_EXCEEDS_POSITION_QTY"
     ELSE "NONE"

\* The rest of _evaluate_reason: the checks on new risk, in order.
EntryReason(r) ==
  IF opState = "LOCKED_FOR_DAY" THEN "PROFIT_CEILING_REACHED"
  ELSE IF opState \in {"HALTED_HARD", "FLAT_LOCKED"} THEN "SYSTEM_HALTED"
  ELSE IF opState # "ARMED" THEN "NOT_ARMED"
  ELSE IF r.quote = "INVALID" THEN "INVALID_MARKET_TIMESTAMP"
  ELSE IF r.quote = "STALE" THEN "MARKET_DATA_STALE"
  ELSE IF net <= LossFloor THEN "SESSION_LOSS_LIMIT_REACHED"
  ELSE IF net >= ProfitLock THEN "PROFIT_CEILING_REACHED"
  ELSE IF ~r.cleared THEN "STRATEGY_CLEARANCE_MISMATCH"
  ELSE IF ~CapabilityAllows(r) THEN "BROKER_CAPABILITY_UNSUPPORTED"
  ELSE IF ValueAt(r, ProjectedQty(r)) > SeedCapital THEN "CELL_EXPOSURE_EXCEEDED"
  ELSE IF RequestedCash(r) > r.cash THEN "INSUFFICIENT_AUTHORIZED_CASH"
  ELSE "NONE"

\* Canonicalization comes first; an exit label, or a reduction whatever its
\* label, takes the exit path and skips every capital check.
Reason(r) ==
  IF r.registry = "UNRESOLVED" THEN "POSITION_IDENTITY_MISMATCH"
  ELSE IF r.registry = "BAD_CLEARANCE" THEN "STRATEGY_CLEARANCE_MISMATCH"
  ELSE IF r.holding[2] \in Options /\ r.sizing = "NOTIONAL"
       THEN "OPTION_NOTIONAL_SIZING_PROHIBITED"
  ELSE IF r.purpose \in ExitPurposes \/ ~IncreasesRisk(r) THEN ExitSafetyReason(r)
  ELSE EntryReason(r)

\* The persisted risk_decisions row.
Decided(r) ==
  [session |-> session, state |-> opState, net |-> net,
   request |-> r, reason |-> Reason(r),
   verdict |-> IF Reason(r) = "NONE" THEN "AUTHORIZED" ELSE "REJECTED",
   increasing |-> IncreasesRisk(r),
   held |-> CurrentQty(r), projected |-> ProjectedQty(r)]

Evaluate(r) ==
  /\ Initialized
  /\ decision' = {Decided(r)}
  /\ commands' = {}
  /\ UNCHANGED <<session, opState, pnl, marks, ledger, positions>>

-----------------------------------------------------------------------------

Next ==
  \/ \E s \in Sessions : InitializeSession(s)
  \/ Arm
  \/ HaltTrading
  \/ \E reported \in Reports :
       FlattenAll(reported) \/ ReconcileConfirmedPositions(reported)
  \/ \E e \in FillEvents, reported \in Reports : RecordFillAccounting(e, reported)
  \/ \E i \in Instruments, m \in Marks : RecordMarketMark(i, m)
  \/ \E r \in Requests : Evaluate(r)
  \/ \E h \in Holdings, lot \in Lots : PositionChanges(h, lot)

Spec == Init /\ [][Next]_vars

-----------------------------------------------------------------------------
(* What is checked and proved. *)

\* Every variable holds a value of its column's domain.  (That unrealized is
\* an integer follows from the sum being one and is left to TLC.)
TypeOK ==
  /\ session \in Sessions \cup {NoSession}
  /\ opState \in States
  /\ realized \in Int
  /\ fees \in Nat
  /\ marks \in [Sessions -> [Instruments -> Marks \cup {NoMark}]]
  /\ ledger \subseteq [session : Sessions, new : States]
  /\ positions \in [Holdings -> Lots \cup {Flat}]

\* The accounting identity the database CHECKs on every write: the session's
\* net P&L is realized plus unrealized less fees, whichever of the two P&L
\* writers (a fill or a mark) came last.
NetPnlConsistent == net = NetPnl(realized, unrealized, fees)

\* A session whose net P&L has reached the loss floor is never left in a state
\* that could trade: whatever wrote the P&L also tripped the breaker, from
\* every state, armed or not, and nothing re-armed it since.
LossBreachStops == net <= LossFloor => opState \in {"HALTED_HARD", "FLAT_LOCKED"}

\* An order that adds risk is only ever authorized while the cell is armed, with
\* the session's P&L strictly inside its band, on a fresh quote, under the ENTRY
\* label, for a cleared strategy and a resolved instrument; the account may hold
\* what the order leaves it with (short only where shorting is allowed), which
\* is worth no more than the cell's capital, and what the order adds is worth no
\* more than the cash it was given.  An exit label, a pause, a breach or a re-arm
\* above the ceiling opens no way round any of these.
NewRiskOnlyInsideLimits ==
  \A d \in decision : (d.verdict = "AUTHORIZED" /\ d.increasing) =>
    LET r == d.request
        added == IF r.sizing = "NOTIONAL" THEN ValueAt(r, r.qty)
                 ELSE ValueAt(r, d.projected) - ValueAt(r, d.held)
    IN /\ d.state = "ARMED"
       /\ ~(d.net <= LossFloor) /\ ~(d.net >= ProfitLock)
       /\ r.purpose = "ENTRY"
       /\ r.quote = "FRESH" /\ r.cleared /\ r.registry = "OK"
       /\ ~(r.holding[2] \in Options /\ r.sizing = "NOTIONAL")
       /\ r.capability # "ABSENT"
       /\ d.projected < 0 => r.capability = "SHORTABLE"
       /\ ValueAt(r, d.projected) <= SeedCapital
       /\ added <= r.cash

\* An order authorized without the capital checks only ever shrinks the
\* position it names: it may flatten it but never reverses it.
ExitsOnlyShrink ==
  \A d \in decision : (d.verdict = "AUTHORIZED" /\ ~d.increasing) =>
    \/ d.held > 0 /\ d.projected \in 0 .. d.held - 1
    \/ d.held < 0 /\ d.projected \in d.held + 1 .. 0

\* The event ledger explains the projection: whenever a session runs, its
\* present state is the outcome of some recorded transition of that session.
LedgerExplainsState ==
  Initialized => \E e \in ledger : e.session = session /\ e.new = opState

\* Delivered late or out of order, a market mark never replaces a newer one.
MarksNeverRegress ==
  [][\A s \in Sessions, i \in Instruments :
       marks[s][i] # NoMark =>
         marks'[s][i] # NoMark /\ marks'[s][i].at >= marks[s][i].at]_marks

\* Once a session is stopped for the loss, nothing but the start of another
\* session takes the cell out of it, and its exits are emitted by the halting
\* operation alone, never a second time.
HaltIsFinal ==
  [][opState = "HALTED_HARD" /\ session' = session =>
       opState' = "HALTED_HARD" /\ commands' \in {commands, {}}]_vars

\* A mark that trips the breaker orders the exit of every open position of
\* the cell, those of instruments and accounts other than the mark's included.
MarkHaltLiquidatesAll ==
  [][(opState # "HALTED_HARD" /\ opState' = "HALTED_HARD" /\ unrealized' # unrealized) =>
       \A h \in OpenHoldings : Exit(h, positions[h].qty) \in commands']_vars

-----------------------------------------------------------------------------
(* The governor implements the abstract trading switch: armed is open, the    *)
(* three end-of-day states are stopped, anything else is closed.              *)

ModeOf(state) ==
  IF state = "ARMED" THEN "OPEN"
  ELSE IF state \in {"DISARMED", "MANUAL_PAUSE"} THEN "CLOSED"
  ELSE "STOPPED"

LastAnswer ==
  {[granted |-> d.verdict = "AUTHORIZED" /\ d.increasing, mode |-> ModeOf(d.state)] :
     d \in decision}

Switch == INSTANCE TradingSwitch
            WITH None <- NoSession, current <- session, mode <- ModeOf(opState),
                 answer <- LastAnswer

\* The whole governor, its P&L, marks and exits included, behaves as the
\* abstract switch: new risk is granted only while open, stopped is terminal
\* for a session, and a session always starts closed.
ImplementsSwitch == Switch!Spec

\* What is on record agrees with itself: the types, the net with its parts, the
\* state with the events that led to it.
RecordsAgree == TypeOK /\ NetPnlConsistent /\ LedgerExplainsState

\* What is let through, as an entry or as an exit, is inside its limits.
AuthorizedOrdersAreSafe == NewRiskOnlyInsideLimits /\ ExitsOnlyShrink

\* A halt lasts as long as its session, and is told of every position.
HaltsHold == HaltIsFinal /\ MarkHaltLiquidatesAll
===============================================================================

------------------------ MODULE ReplaySessionProofs ------------------------
(***************************************************************************)
(* Theorems about RiskGovernor, for every set of sessions, accounts and    *)
(* instruments, every policy with a negative floor and a positive ceiling, *)
(* and every set of marks, fills, positions and requests; and about        *)
(* ReplaySession, for every set of symbols and contracts and every tape of *)
(* quotes.                                                                 *)
(*                                                                         *)
(* The inductive invariant follows an order from the strategy to its fill: *)
(* a sell is the strategy's position, which the lot covers; a buy was      *)
(* allowed by the strategy when it was given and, once routed, by the      *)
(* governor in the state it is still in.                                   *)
(***************************************************************************)
EXTENDS ReplaySession, SumTheorems

-----------------------------------------------------------------------------
(* The governor. *)

\* Each state of the table only leads to known states.
LEMMA TransitionsStayInStates ==
  ASSUME NEW s \in States
  PROVE  AllowedTransitions[s] \subseteq States
  BY DEF AllowedTransitions, States

\* A transition lands in a known state and keeps the ledger well formed.
LEMMA TransitionType ==
  ASSUME TypeOK, Initialized, NEW to, Transition(to)
  PROVE  /\ opState' \in States
         /\ ledger' \subseteq [session : Sessions, new : States]
  <1>1. to \in States
    BY TransitionsStayInStates DEF Transition, TypeOK
  <1>2. session \in Sessions
    BY DEF TypeOK, Initialized
  <1> QED
    BY <1>1, <1>2 DEF Transition, Event, TypeOK

\* What the boundary check can do to the state and the ledger.
LEMMA BoundaryType ==
  ASSUME TypeOK, Initialized, NEW n, NEW reported, ApplyPnlBoundary(n, reported)
  PROVE  /\ opState' \in States
         /\ ledger' \subseteq [session : Sessions, new : States]
  BY TransitionType DEF ApplyPnlBoundary, TypeOK

\* After the boundary check with net P&L n, a breach is stopped.
LEMMA BoundaryStops ==
  ASSUME NEW n, NEW reported, ApplyPnlBoundary(n, reported), n <= LossFloor
  PROVE  opState' \in {"HALTED_HARD", "FLAT_LOCKED"}
  BY DEF ApplyPnlBoundary, Transition

-------------------------------------------------------------------------------

\* No operation leaves the types.
LEMMA TypeStep == TypeOK /\ [Next]_vars => TypeOK'
<1> SUFFICES ASSUME TypeOK, [Next]_vars PROVE TypeOK'
  OBVIOUS
<1>1. ASSUME NEW s \in Sessions, InitializeSession(s) PROVE TypeOK'
  BY <1>1 DEF InitializeSession, TypeOK, Event, States
<1>2. CASE Arm
  BY <1>2, TransitionType DEF Arm, TypeOK, pnl
<1>3. CASE HaltTrading
  BY <1>3, TransitionType DEF HaltTrading, TypeOK, pnl
<1>4. ASSUME NEW reported, FlattenAll(reported) PROVE TypeOK'
  BY <1>4, TransitionType DEF FlattenAll, TypeOK, pnl
<1>5. ASSUME NEW reported, ReconcileConfirmedPositions(reported) PROVE TypeOK'
  BY <1>5, TransitionType DEF ReconcileConfirmedPositions, TypeOK, pnl
<1>6. ASSUME NEW e \in FillEvents, NEW reported, RecordFillAccounting(e, reported)
      PROVE TypeOK'
  <2>1. e.realized \in Int /\ e.fees \in Nat
    BY InputAssumption
  <2>2. realized' \in Int /\ fees' \in Nat
    BY <1>6, <2>1 DEF RecordFillAccounting, TypeOK
  <2>3. /\ opState' \in States
        /\ ledger' \subseteq [session : Sessions, new : States]
    BY <1>6, BoundaryType DEF RecordFillAccounting
  <2> QED
    BY <1>6, <2>2, <2>3 DEF RecordFillAccounting, TypeOK
<1>7. ASSUME NEW i \in Instruments, NEW m \in Marks, RecordMarketMark(i, m)
      PROVE TypeOK'
  <2>1. /\ opState' \in States
        /\ ledger' \subseteq [session : Sessions, new : States]
    BY <1>7, BoundaryType DEF RecordMarketMark, TypeOK
  <2>2. session \in Sessions
    BY <1>7 DEF RecordMarketMark, TypeOK, Initialized
  <2>3. marks' \in [Sessions -> [Instruments -> Marks \cup {NoMark}]]
    BY <1>7, <2>2 DEF RecordMarketMark, LatestMark, TypeOK
  <2> QED
    BY <1>7, <2>1, <2>3 DEF RecordMarketMark, TypeOK
<1>8. ASSUME NEW r \in Requests, Evaluate(r) PROVE TypeOK'
  BY <1>8 DEF Evaluate, TypeOK, pnl
<1>9. ASSUME NEW h \in Holdings, NEW lot \in Lots, PositionChanges(h, lot)
      PROVE TypeOK'
  BY <1>9 DEF PositionChanges, TypeOK, pnl
<1>10. CASE UNCHANGED vars
  BY <1>10 DEF vars, pnl, TypeOK
<1> QED
  BY <1>1, <1>2, <1>3, <1>4, <1>5, <1>6, <1>7, <1>8, <1>9, <1>10 DEF Next

\* Every reachable state is well typed.
THEOREM TypeCorrect == Spec => []TypeOK
<1>1. Init => TypeOK
  <2> SUFFICES ASSUME Init PROVE TypeOK
    OBVIOUS
  <2> QED
    BY DEF Init, TypeOK, States, Flat
<1> QED
  BY <1>1, TypeStep, PTL DEF Spec

-------------------------------------------------------------------------------

\* The stored net P&L is always realized plus unrealized less fees.
THEOREM NetPnlIsConsistent == Spec => []NetPnlConsistent
<1>1. Init => NetPnlConsistent
  BY DEF Init, NetPnlConsistent, NetPnl
<1>2. NetPnlConsistent /\ [Next]_vars => NetPnlConsistent'
  <2> SUFFICES ASSUME NetPnlConsistent, [Next]_vars PROVE NetPnlConsistent'
    OBVIOUS
  <2>1. ASSUME NEW s \in Sessions, InitializeSession(s) PROVE NetPnlConsistent'
    BY <2>1 DEF InitializeSession, NetPnlConsistent, NetPnl
  <2>2. ASSUME NEW e \in FillEvents, NEW reported, RecordFillAccounting(e, reported)
        PROVE NetPnlConsistent'
    BY <2>2 DEF RecordFillAccounting, NetPnlConsistent
  <2>3. ASSUME NEW i \in Instruments, NEW m \in Marks, RecordMarketMark(i, m)
        PROVE NetPnlConsistent'
    BY <2>3 DEF RecordMarketMark, NetPnlConsistent
  <2>4. CASE UNCHANGED pnl
    BY <2>4 DEF pnl, NetPnlConsistent
  <2> QED
    BY <2>1, <2>2, <2>3, <2>4
    DEF Next, vars, pnl, Arm, HaltTrading, FlattenAll, ReconcileConfirmedPositions,
        Evaluate, PositionChanges
<1> QED
  BY <1>1, <1>2, PTL DEF Spec

-------------------------------------------------------------------------------

\* A session at or below its loss floor is stopped, whatever path led there.
\* The floor being negative, a fresh session starts above it; no transition
\* of the table leaves HALTED_HARD or FLAT_LOCKED.
THEOREM LossBreachAlwaysStops == Spec => []LossBreachStops
<1>1. Init => LossBreachStops
  BY PolicyAssumption DEF Init, LossBreachStops
<1>2. LossBreachStops /\ [Next]_vars => LossBreachStops'
  <2> SUFFICES ASSUME LossBreachStops, [Next]_vars PROVE LossBreachStops'
    OBVIOUS
  <2>1. ASSUME NEW s \in Sessions, InitializeSession(s) PROVE LossBreachStops'
    BY <2>1, PolicyAssumption DEF InitializeSession, LossBreachStops
  <2>2. ASSUME NEW to, Transition(to), UNCHANGED net PROVE LossBreachStops'
    BY <2>2 DEF Transition, LossBreachStops, AllowedTransitions, States
  <2>3. ASSUME NEW e \in FillEvents, NEW reported, RecordFillAccounting(e, reported)
        PROVE LossBreachStops'
    BY <2>3, BoundaryStops DEF RecordFillAccounting, LossBreachStops
  <2>4. ASSUME NEW i \in Instruments, NEW m \in Marks, RecordMarketMark(i, m)
        PROVE LossBreachStops'
    BY <2>4, BoundaryStops DEF RecordMarketMark, LossBreachStops
  <2>5. CASE UNCHANGED <<net, opState>>
    BY <2>5 DEF LossBreachStops
  <2> QED
    BY <2>1, <2>2, <2>3, <2>4, <2>5
    DEF Next, vars, pnl, Arm, HaltTrading, FlattenAll, ReconcileConfirmedPositions,
        Evaluate, PositionChanges
<1> QED
  BY <1>1, <1>2, PTL DEF Spec

-------------------------------------------------------------------------------

\* An order answered AUTHORIZED has no reason against it; if it adds risk it
\* went through the entry checks, and if not through the exit checks.
LEMMA AuthorizedDecision ==
  ASSUME NEW r \in Requests, Decided(r).verdict = "AUTHORIZED"
  PROVE  /\ IncreasesRisk(r) => EntryReason(r) = "NONE" /\ r.purpose \notin ExitPurposes
         /\ ~IncreasesRisk(r) => ExitSafetyReason(r) = "NONE"
<1>1. Reason(r) = "NONE"
  BY DEF Decided
<1>2. CASE r.purpose \in ExitPurposes \/ ~IncreasesRisk(r)
  <2>1. ExitSafetyReason(r) = "NONE"
    BY <1>1, <1>2 DEF Reason
  <2>2. ~IncreasesRisk(r)
    BY <2>1 DEF ExitSafetyReason
  <2> QED
    BY <2>1, <2>2
<1>3. CASE ~(r.purpose \in ExitPurposes \/ ~IncreasesRisk(r))
  BY <1>1, <1>3 DEF Reason
<1> QED
  BY <1>2, <1>3

\* Position rows hold integer quantities.
LEMMA QuantitiesAreIntegers ==
  ASSUME TypeOK, NEW r \in Requests
  PROVE  CurrentQty(r) \in Int /\ r.qty \in Nat \ {0} /\ r.side \in {"BUY", "SELL"}
<1>1. Lots \cup {Flat} \subseteq [qty : Int, avg : Nat]
  BY InputAssumption DEF Flat
<1>2. r.holding \in Holdings /\ r.qty \in Nat \ {0} /\ r.side \in {"BUY", "SELL"}
  BY InputAssumption
<1> QED
  BY <1>1, <1>2 DEF CurrentQty, TypeOK

\* The value of a quantity at an order's price is a number.
LEMMA ValuesAreIntegers ==
  ASSUME NEW r \in Requests, NEW q \in Int
  PROVE  ValueAt(r, q) \in Int
<1>1. r.price \in Int /\ r.holding \in Holdings
  BY InputAssumption
<1>2. Multiplier[r.holding[2]] \in Int
  BY <1>1, DomainAssumption DEF Holdings
<1>3. Abs(q) \in Int
  BY DEF Abs
<1>4. \A x, y, z \in Int : x * y * z \in Int
  OBVIOUS
<1> QED
  BY <1>1, <1>2, <1>3, <1>4 DEF ValueAt

\* An order authorized by the entry checks is within the account's capability,
\* the cell's capital and the cash it was given.
LEMMA EntryWithinCapital ==
  ASSUME TypeOK, NEW r \in Requests, EntryReason(r) = "NONE", IncreasesRisk(r)
  PROVE  /\ r.capability # "ABSENT"
         /\ ProjectedQty(r) < 0 => r.capability = "SHORTABLE"
         /\ ValueAt(r, ProjectedQty(r)) <= SeedCapital
         /\ (IF r.sizing = "NOTIONAL" THEN ValueAt(r, r.qty)
             ELSE ValueAt(r, ProjectedQty(r)) - ValueAt(r, CurrentQty(r))) <= r.cash
<1>1. /\ CapabilityAllows(r)
      /\ ~(ValueAt(r, ProjectedQty(r)) > SeedCapital)
      /\ ~(RequestedCash(r) > r.cash)
  BY DEF EntryReason
<1>2. CurrentQty(r) \in Int /\ r.qty \in Int /\ ProjectedQty(r) \in Int
  BY QuantitiesAreIntegers DEF ProjectedQty
<1>3. /\ ValueAt(r, ProjectedQty(r)) \in Int
      /\ ValueAt(r, CurrentQty(r)) \in Int
      /\ ValueAt(r, r.qty) \in Int
  BY <1>2, ValuesAreIntegers
<1>4. SeedCapital \in Int /\ r.cash \in Int
  BY PolicyAssumption, InputAssumption
<1>5. ValueAt(r, ProjectedQty(r)) <= SeedCapital
  BY <1>1, <1>3, <1>4
<1>6. RequestedCash(r) = IF r.sizing = "NOTIONAL" THEN ValueAt(r, r.qty)
                         ELSE ValueAt(r, ProjectedQty(r)) - ValueAt(r, CurrentQty(r))
  BY DEF RequestedCash
<1>7. RequestedCash(r) <= r.cash
  <2>1. RequestedCash(r) \in Int
    BY <1>3, <1>6
  <2> QED
    BY <2>1, <1>1, <1>4
<1> QED
  BY <1>1, <1>5, <1>6, <1>7 DEF CapabilityAllows

\* Whatever was authorized and adds risk is inside every limit of the governor:
\* state, P&L band, quote, label, clearance, capability, exposure and cash.
THEOREM NewRiskStaysInsideLimits == Spec => []NewRiskOnlyInsideLimits
<1>1. Init => NewRiskOnlyInsideLimits
  BY DEF Init, NewRiskOnlyInsideLimits
<1>2. TypeOK /\ NewRiskOnlyInsideLimits /\ [Next]_vars => NewRiskOnlyInsideLimits'
  <2> SUFFICES ASSUME TypeOK, NewRiskOnlyInsideLimits, [Next]_vars
               PROVE  NewRiskOnlyInsideLimits'
    OBVIOUS
  <2>1. ASSUME NEW r \in Requests, Evaluate(r) PROVE NewRiskOnlyInsideLimits'
    <3> DEFINE d == Decided(r)
    <3>1. decision' = {d} /\ d.request = r /\ d.state = opState /\ d.net = net
      BY <2>1 DEF Evaluate, Decided
    <3>2. /\ d.increasing = IncreasesRisk(r)
          /\ d.held = CurrentQty(r) /\ d.projected = ProjectedQty(r)
      BY DEF Decided
    <3>3. ASSUME d.verdict = "AUTHORIZED", IncreasesRisk(r)
          PROVE  /\ opState = "ARMED"
                 /\ ~(net <= LossFloor) /\ ~(net >= ProfitLock)
                 /\ r.purpose = "ENTRY"
                 /\ r.quote = "FRESH" /\ r.cleared /\ r.registry = "OK"
                 /\ ~(r.holding[2] \in Options /\ r.sizing = "NOTIONAL")
      <4>1. EntryReason(r) = "NONE" /\ r.purpose \notin ExitPurposes
        BY <3>3, AuthorizedDecision
      <4>2. /\ r.purpose \in ExitPurposes \cup {"ENTRY"}
            /\ r.quote \in {"FRESH", "STALE", "INVALID"}
            /\ r.registry \in {"OK", "UNRESOLVED", "BAD_CLEARANCE"}
        BY InputAssumption
      <4>3. Reason(r) = "NONE"
        BY <3>3 DEF Decided
      <4>4. /\ r.registry = "OK"
            /\ ~(r.holding[2] \in Options /\ r.sizing = "NOTIONAL")
        BY <4>2, <4>3 DEF Reason
      <4> QED
        BY <4>1, <4>2, <4>4 DEF EntryReason
    <3>4. ASSUME d.verdict = "AUTHORIZED", IncreasesRisk(r)
          PROVE  /\ r.capability # "ABSENT"
                 /\ ProjectedQty(r) < 0 => r.capability = "SHORTABLE"
                 /\ ValueAt(r, ProjectedQty(r)) <= SeedCapital
                 /\ (IF r.sizing = "NOTIONAL" THEN ValueAt(r, r.qty)
                     ELSE ValueAt(r, ProjectedQty(r)) - ValueAt(r, CurrentQty(r)))
                      <= r.cash
      <4>1. EntryReason(r) = "NONE"
        BY <3>4, AuthorizedDecision
      <4> QED
        BY <4>1, <3>4, EntryWithinCapital
    <3> HIDE DEF d
    <3> QED
      BY <3>1, <3>2, <3>3, <3>4 DEF NewRiskOnlyInsideLimits, ValueAt
  <2>2. CASE UNCHANGED decision
    BY <2>2 DEF NewRiskOnlyInsideLimits, ValueAt
  <2> QED
    BY <2>1, <2>2
    DEF Next, vars, InitializeSession, Arm, HaltTrading, FlattenAll,
        ReconcileConfirmedPositions, RecordFillAccounting, RecordMarketMark,
        PositionChanges
<1> QED
  BY <1>1, <1>2, TypeCorrect, PTL DEF Spec

\* An order authorized without the capital checks shrinks what it names.
THEOREM ExitsAlwaysShrink == Spec => []ExitsOnlyShrink
<1>1. Init => ExitsOnlyShrink
  BY DEF Init, ExitsOnlyShrink
<1>2. TypeOK /\ ExitsOnlyShrink /\ [Next]_vars => ExitsOnlyShrink'
  <2> SUFFICES ASSUME TypeOK, ExitsOnlyShrink, [Next]_vars PROVE ExitsOnlyShrink'
    OBVIOUS
  <2>1. ASSUME NEW r \in Requests, Evaluate(r) PROVE ExitsOnlyShrink'
    <3> DEFINE qty == CurrentQty(r)
    <3> SUFFICES ASSUME Decided(r).verdict = "AUTHORIZED", ~IncreasesRisk(r)
                 PROVE  \/ qty > 0 /\ ProjectedQty(r) \in 0 .. qty - 1
                        \/ qty < 0 /\ ProjectedQty(r) \in qty + 1 .. 0
      BY <2>1 DEF Evaluate, Decided, ExitsOnlyShrink
    <3>1. ExitSafetyReason(r) = "NONE"
      BY AuthorizedDecision
    <3>2. /\ qty # 0
          /\ r.side = IF qty > 0 THEN "SELL" ELSE "BUY"
          /\ ~(r.qty > Abs(qty))
      BY <3>1 DEF ExitSafetyReason
    <3>3. qty \in Int /\ r.qty \in Nat \ {0}
      BY QuantitiesAreIntegers
    <3>4. ProjectedQty(r) = IF qty > 0 THEN qty - r.qty ELSE qty + r.qty
      BY <3>2 DEF ProjectedQty
    <3> HIDE DEF qty
    <3> QED
      BY <3>2, <3>3, <3>4 DEF Abs
  <2>2. CASE UNCHANGED decision
    BY <2>2 DEF ExitsOnlyShrink
  <2> QED
    BY <2>1, <2>2
    DEF Next, vars, InitializeSession, Arm, HaltTrading, FlattenAll,
        ReconcileConfirmedPositions, RecordFillAccounting, RecordMarketMark,
        PositionChanges
<1> QED
  BY <1>1, <1>2, TypeCorrect, PTL DEF Spec

-------------------------------------------------------------------------------

\* A running session's present state is the outcome of a recorded transition.
THEOREM LedgerAlwaysExplainsState == Spec => []LedgerExplainsState
<1>1. Init => LedgerExplainsState
  BY DEF Init, LedgerExplainsState, Initialized
<1>2. LedgerExplainsState /\ [Next]_vars => LedgerExplainsState'
  <2> SUFFICES ASSUME LedgerExplainsState, [Next]_vars PROVE LedgerExplainsState'
    OBVIOUS
  <2>1. ASSUME NEW s \in Sessions, InitializeSession(s) PROVE LedgerExplainsState'
    <3>1. Event(s, "DISARMED") \in ledger' /\ session' = s /\ opState' = "DISARMED"
      BY <2>1 DEF InitializeSession
    <3>2. Event(s, "DISARMED").session = s /\ Event(s, "DISARMED").new = "DISARMED"
      BY DEF Event
    <3> QED
      BY <3>1, <3>2 DEF LedgerExplainsState
  <2>2. ASSUME NEW to, Transition(to), UNCHANGED session PROVE LedgerExplainsState'
    <3>1. Event(session, to) \in ledger' /\ opState' = to
      BY <2>2 DEF Transition
    <3>2. Event(session, to).session = session /\ Event(session, to).new = to
      BY DEF Event
    <3> QED
      BY <2>2, <3>1, <3>2 DEF LedgerExplainsState
  <2>3. CASE UNCHANGED <<session, opState, ledger>>
    BY <2>3 DEF LedgerExplainsState, Initialized
  <2> QED
    BY <2>1, <2>2, <2>3
    DEF Next, vars, Arm, HaltTrading, FlattenAll, ReconcileConfirmedPositions,
        RecordFillAccounting, RecordMarketMark, ApplyPnlBoundary, Evaluate,
        PositionChanges
<1> QED
  BY <1>1, <1>2, PTL DEF Spec

\* HALTED_HARD is left only by the start of another session, and its
\* liquidation commands are never emitted twice.
THEOREM HaltStaysFinal == Spec => HaltIsFinal
<1>1. [Next]_vars =>
        [opState = "HALTED_HARD" /\ session' = session =>
           opState' = "HALTED_HARD" /\ commands' \in {commands, {}}]_vars
  <2> SUFFICES ASSUME Next, opState = "HALTED_HARD", session' = session
               PROVE  opState' = "HALTED_HARD" /\ commands' \in {commands, {}}
    OBVIOUS
  <2>1. ASSUME NEW to, Transition(to) PROVE FALSE
    BY <2>1 DEF Transition, AllowedTransitions
  <2>2. ASSUME NEW n, NEW reported, ApplyPnlBoundary(n, reported)
        PROVE  opState' = "HALTED_HARD" /\ commands' = {}
    BY <2>1, <2>2 DEF ApplyPnlBoundary
  <2> QED
    BY <2>1, <2>2
    DEF Next, InitializeSession, Arm, HaltTrading, FlattenAll,
        ReconcileConfirmedPositions, RecordFillAccounting, RecordMarketMark,
        Evaluate, PositionChanges
<1> QED
  BY <1>1, PTL DEF Spec, HaltIsFinal

\* A persisted mark is only ever replaced by one at least as recent.
THEOREM MarksNeverGoBack == Spec => MarksNeverRegress
<1> DEFINE Step == \A s \in Sessions, i \in Instruments :
                     marks[s][i] # NoMark =>
                       marks'[s][i] # NoMark /\ marks'[s][i].at >= marks[s][i].at
<1>1. TypeOK /\ [Next]_vars => [Step]_marks
  <2> SUFFICES ASSUME TypeOK, Next, marks' # marks PROVE Step
    BY DEF vars
  <2>1. PICK j \in Instruments, m \in Marks : RecordMarketMark(j, m)
    BY DEF Next, InitializeSession, Arm, HaltTrading, FlattenAll,
           ReconcileConfirmedPositions, RecordFillAccounting, Evaluate, PositionChanges
  <2> SUFFICES ASSUME NEW s \in Sessions, NEW i \in Instruments, marks[s][i] # NoMark
               PROVE  marks'[s][i] # NoMark /\ marks'[s][i].at >= marks[s][i].at
    OBVIOUS
  <2>2. marks[s][i] \in Marks /\ marks \in [Sessions -> [Instruments -> Marks \cup {NoMark}]]
    BY DEF TypeOK
  <2>3. \A x \in Marks : x.at \in Nat /\ x # NoMark
    BY InputAssumption, DomainAssumption
  <2>4. CASE s = session /\ i = j
    <3>1. marks'[s][i] = IF m.at >= marks[s][i].at THEN m ELSE marks[s][i]
      BY <2>1, <2>2, <2>4 DEF RecordMarketMark, LatestMark
    <3> QED
      BY <2>2, <2>3, <3>1
  <2>5. CASE ~(s = session /\ i = j)
    <3>1. marks'[s][i] = marks[s][i]
      BY <2>1, <2>2, <2>5 DEF RecordMarketMark
    <3> QED
      BY <2>2, <2>3, <3>1
  <2> QED
    BY <2>4, <2>5
<1> QED
  BY <1>1, TypeCorrect, PTL DEF Spec, MarksNeverRegress

\* A halt that comes from a mark orders every open position of the cell closed.
THEOREM MarkHaltsLiquidateAll == Spec => MarkHaltLiquidatesAll
<1> DEFINE Step ==
      (opState # "HALTED_HARD" /\ opState' = "HALTED_HARD" /\ unrealized' # unrealized) =>
        \A h \in OpenHoldings : Exit(h, positions[h].qty) \in commands'
<1>1. [Next]_vars => [Step]_vars
  <2> SUFFICES ASSUME Next, opState # "HALTED_HARD", opState' = "HALTED_HARD",
                      unrealized' # unrealized
               PROVE  \A h \in OpenHoldings : Exit(h, positions[h].qty) \in commands'
    OBVIOUS
  <2>1. PICK i \in Instruments, m \in Marks : RecordMarketMark(i, m)
    BY DEF Next, InitializeSession, Arm, HaltTrading, FlattenAll, pnl,
           ReconcileConfirmedPositions, RecordFillAccounting, Evaluate, PositionChanges
  <2>2. ApplyPnlBoundary(net', OpenHoldings)
    BY <2>1 DEF RecordMarketMark
  <2>3. commands' = LiquidationCommands(OpenHoldings)
    BY <2>2 DEF ApplyPnlBoundary, Transition
  <2> QED
    BY <2>3 DEF LiquidationCommands
<1> QED
  BY <1>1, PTL DEF Spec, MarkHaltLiquidatesAll

-------------------------------------------------------------------------------

\* A transition of the governor opens, closes or stops the switch, or is
\* between two stopped states.
LEMMA TransitionMapsToSwitch ==
  ASSUME TypeOK, Initialized, NEW to, Transition(to), UNCHANGED <<session, decision>>
  PROVE  Switch!Next \/ UNCHANGED Switch!vars
<1> USE DEF ModeOf, LastAnswer
<1>1. UNCHANGED <<session, LastAnswer>>
  OBVIOUS
<1>2. session # NoSession /\ opState' = to /\ opState \in States
  BY DEF Initialized, Transition, TypeOK
<1>3. to \in AllowedTransitions[opState]
  BY DEF Transition
<1> QED
  BY <1>1, <1>2, <1>3
  DEF AllowedTransitions, States, Switch!Next, Switch!vars, Switch!Open, Switch!Close,
      Switch!Stop

\* The governor implements the abstract trading switch.
THEOREM GovernorImplementsSwitch == Spec => ImplementsSwitch
<1>1. Init => Switch!Init
  BY DEF Init, Switch!Init, ModeOf, LastAnswer
<1>2. TypeOK /\ [Next]_vars => [Switch!Next]_(Switch!vars)
  <2> SUFFICES ASSUME TypeOK, [Next]_vars
               PROVE  Switch!Next \/ UNCHANGED Switch!vars
    OBVIOUS
  <2>1. ASSUME NEW s \in Sessions, InitializeSession(s) PROVE Switch!Next
    BY <2>1 DEF InitializeSession, Switch!Next, Switch!Begin, ModeOf, LastAnswer
  <2>2. ASSUME NEW to, Initialized, Transition(to), UNCHANGED <<session, decision>>
        PROVE  Switch!Next \/ UNCHANGED Switch!vars
    BY <2>2, TransitionMapsToSwitch
  <2>3. ASSUME NEW r \in Requests, Evaluate(r) PROVE Switch!Next
    <3> DEFINE granted == Decided(r).verdict = "AUTHORIZED" /\ IncreasesRisk(r)
    <3>1. granted \in BOOLEAN
      BY DEF IncreasesRisk
    <3>2. granted => opState = "ARMED"
      BY AuthorizedDecision DEF EntryReason
    <3>3. decision' = {Decided(r)}
      BY <2>3 DEF Evaluate
    <3>4. LastAnswer' = {[granted |-> granted, mode |-> ModeOf(opState)]}
      BY <3>3 DEF LastAnswer, Decided
    <3>5. Switch!Answer(granted)
      BY <2>3, <3>2, <3>4 DEF Evaluate, Switch!Answer, Initialized, ModeOf
    <3> QED
      BY <3>1, <3>5 DEF Switch!Next
  <2>4. CASE UNCHANGED <<session, opState, decision>>
    BY <2>4 DEF Switch!vars, LastAnswer, ModeOf
  <2> QED
    BY <2>1, <2>2, <2>3, <2>4
    DEF Next, vars, Arm, HaltTrading, FlattenAll, ReconcileConfirmedPositions,
        RecordFillAccounting, RecordMarketMark, ApplyPnlBoundary, PositionChanges
<1> QED
  BY <1>1, <1>2, TypeCorrect, PTL DEF Spec, ImplementsSwitch, Switch!Spec

\* The net is what its parts say, the state what its events say, whatever
\* sessions are initialized in between.
THEOREM RecordsAlwaysAgree == Spec => []RecordsAgree
  BY TypeCorrect, NetPnlIsConsistent, LedgerAlwaysExplainsState, PTL DEF RecordsAgree

\* An authorized order has passed every limit, or it only shrinks a position.
THEOREM AuthorizedOrdersStaySafe == Spec => []AuthorizedOrdersAreSafe
  BY NewRiskStaysInsideLimits, ExitsAlwaysShrink, PTL DEF AuthorizedOrdersAreSafe

\* A halt lasts as long as its session, and a mark that causes it orders the
\* exit of every position.
THEOREM HaltsAlwaysHold == Spec => HaltsHold
  BY HaltStaysFinal, MarkHaltsLiquidateAll DEF HaltsHold
-----------------------------------------------------------------------------
(* The session. *)

Markable(p) == [price |-> p, at |-> 1] \in Marks
OfSymbol(o) == \E r \in Rights : o.instrument \in Contracts[o.symbol][r]

\* Where no event is being processed.
Between == {"START", "ARM", "IDLE"}

\* Between events nothing is queued, and what is queued inside one can be
\* handed to the governor.
Flow ==
  /\ at \in Between => symbol = {} /\ unmarked = {} /\ order = {} /\ fill = {}
  /\ at # "MARKS" => unmarked = {}
  /\ \A i \in unmarked : chain[i] # Unquoted /\ LiquidationMark(i) > 0
  /\ \A o \in order : /\ o.qty > 0 /\ Markable(o.price) /\ OfSymbol(o)
                       /\ chain[o.instrument] # Unquoted /\ order = {o}
  /\ \A f \in fill : Markable(f.price)

CoveredSell(o) ==
  /\ o.side = "SELL" /\ o.purpose \in ExitPurposes
  /\ \E p \in held[o.symbol] : p.instrument = o.instrument /\ p.qty = o.qty

AllowedBuy(o) ==
  /\ o.side = "BUY" /\ o.purpose = "ENTRY"
  /\ held[o.symbol] = {}
  /\ hours = "TRADING" /\ ~entriesHalted
  /\ at = "SUBMIT" => opState = "ARMED" /\ ~(net <= LossFloor) /\ ~(net >= ProfitLock)

Underway == at \in {"ROUTE", "SUBMIT"} => \A o \in order : CoveredSell(o) \/ AllowedBuy(o)

LongOnly == \A i \in Options : Lot(i).qty >= 0

ReplayInv == ReplayTypeOK /\ Flow /\ Underway /\ LongOnly /\ NeverOversells

-------------------------------------------------------------------------------

\* The lots of the account's options are whole numbers at whole prices.
LEMMA LotType ==
  ASSUME TypeOK, NEW i \in Options
  PROVE  /\ Holding(i) \in Holdings
         /\ Lot(i).qty \in Int /\ Lot(i).avg \in Nat
<1>1. Holding(i) \in Holdings
  BY ReplayAssumption, DomainAssumption DEF Holding, Holdings
<1>2. Lot(i) \in Lots \cup {Flat}
  BY <1>1 DEF TypeOK, Lot
<1> QED
  BY <1>1, <1>2, InputAssumption DEF Flat

\* A quoted side of a contract is a mark the governor may be given.
LEMMA QuotedSideIsMark ==
  ASSUME ReplayTypeOK, NEW i \in Options, chain[i] # Unquoted
  PROVE  /\ chain[i].bid \in Nat /\ chain[i].ask \in Nat /\ chain[i].depth \in Nat
         /\ chain[i].bid > 0 => Markable(chain[i].bid)
         /\ chain[i].ask > 0 => Markable(chain[i].ask)
<1>1. chain[i] \in Quotes
  BY DEF ReplayTypeOK
<1> QED
  BY <1>1, ReplayAssumption DEF Markable

\* What fills is some of the order.
LEMMA FilledIsPart ==
  ASSUME ReplayTypeOK, Flow, NEW o \in order
  PROVE  Filled(o) \in Nat /\ Filled(o) <= o.qty
<1>1. o.instrument \in Options /\ o.qty \in Nat
  BY DEF ReplayTypeOK, Order
<1> QED
  BY <1>1, QuotedSideIsMark DEF Filled, Flow

\* Two positions of the strategy are never of the same contract.
LEMMA HeldApart ==
  ASSUME ReplayTypeOK, NEW s \in Symbols, NEW t \in Symbols, s # t,
         NEW p \in held[s], NEW r \in Rights, NEW i \in Contracts[t][r]
  PROVE  p.instrument # i
<1>1. p.instrument \in Contracts[s][p.right]
  BY DEF ReplayTypeOK
<1>2. p.right \in Rights
  BY DEF ReplayTypeOK
<1> QED
  BY <1>1, <1>2, ReplayAssumption

-------------------------------------------------------------------------------

\* Each step does to the governor what one of its callers may do.
LEMMA GovernorStep ==
  ASSUME TypeOK, ReplayTypeOK, Flow, [ReplayNext]_<<vars, replay>>
  PROVE  [Next]_vars
<1>1. ASSUME NEW s \in Sessions, StartSession(s) PROVE Next
  BY <1>1 DEF StartSession, Next
<1>2. CASE ArmSession
  BY <1>2 DEF ArmSession, Next
<1>3. CASE MarkUnderlying
  <2>1. PICK s \in symbol : RecordMarketMark(Underlying[s], UnderlyingMark)
    BY <1>3 DEF MarkUnderlying
  <2>2. Underlying[s] \in Instruments /\ UnderlyingMark \in Marks
    BY ReplayAssumption DEF ReplayTypeOK
  <2> QED
    BY <2>1, <2>2 DEF Next
<1>4. ASSUME NEW i \in Options, MarkPosition(i) PROVE Next
  <2>1. i \in Instruments
    BY DomainAssumption
  <2>2. [price |-> LiquidationMark(i), at |-> 1] \in Marks
    BY <1>4, QuotedSideIsMark DEF MarkPosition, Flow, LiquidationMark, Markable
  <2> QED
    BY <1>4, <2>1, <2>2 DEF MarkPosition, Next
<1>5. CASE RouteSignal
  BY <1>5 DEF RouteSignal, Next
<1>6. CASE BuyFill \/ SellFill
  <2>1. PICK i \in Options, lot \in Lots :
          positions' = [positions EXCEPT ![Holding(i)] = lot] /\ UNCHANGED governor
    <3>1. CASE BuyFill
      <4>1. PICK o \in order :
              /\ Writes(o.instrument, Bought(Lot(o.instrument), Filled(o), o.price))
              /\ UNCHANGED governor
        BY <3>1 DEF BuyFill
      <4> QED
        BY <4>1 DEF Writes, ReplayTypeOK, Order
    <3>2. CASE SellFill
      <4>1. PICK o \in order :
              /\ Writes(o.instrument, [Lot(o.instrument) EXCEPT !.qty = @ - Filled(o)])
              /\ UNCHANGED governor
        BY <3>2 DEF SellFill
      <4> QED
        BY <4>1 DEF Writes, ReplayTypeOK, Order
    <3> QED
      BY <1>6, <3>1, <3>2
  <2>2. Holding(i) \in Holdings
    BY LotType
  <2>3. CASE positions[Holding(i)] = lot
    BY <2>1, <2>2, <2>3 DEF TypeOK, governor, vars, pnl
  <2>4. CASE positions[Holding(i)] # lot
    BY <2>1, <2>2, <2>4 DEF PositionChanges, governor, pnl, Next
  <2> QED
    BY <2>3, <2>4
<1>7. CASE MarkFill
  <2>1. PICK f \in fill : RecordMarketMark(f.instrument, [price |-> f.price, at |-> 1])
    BY <1>7 DEF MarkFill
  <2>2. f.instrument \in Instruments /\ [price |-> f.price, at |-> 1] \in Marks
    BY DomainAssumption DEF ReplayTypeOK, Flow, Markable
  <2> QED
    BY <2>1, <2>2 DEF Next
<1>8. CASE AccountFill
  BY <1>8 DEF AccountFill, Next, Reports
<1>9. CASE UNCHANGED vars
  BY <1>9
<1> QED
  BY <1>1, <1>2, <1>3, <1>4, <1>5, <1>6, <1>7, <1>8, <1>9
  DEF ReplayNext, TakeEvent, NoBar, OnBar, NotFilled, DuplicateRow

-------------------------------------------------------------------------------

\* A market mark leaves the positions alone, and so does every operation of
\* the governor the replay calls.
LEMMA MarksLeavePositions ==
  ASSUME NEW i, NEW m, RecordMarketMark(i, m)
  PROVE  UNCHANGED positions
  BY DEF RecordMarketMark

\* Steps that neither move a position nor queue an order keep the invariant.
LEMMA QuietStep ==
  ASSUME ReplayInv,
         UNCHANGED <<positions, hours, strategy, rows, fills, earned>>,
         \/ Idle
         \/ /\ UNCHANGED <<symbol, chain, order, fill>> /\ unmarked' \subseteq unmarked
            /\ (at' \in Between => at \in Between) /\ (at' # "MARKS" => at # "MARKS")
            /\ at' \in {"START", "ARM", "IDLE", "MARKS", "ACCOUNT", "FAILED"}
  PROVE  ReplayInv'
<1> USE DEF strategy
<1>1. ReplayTypeOK'
  BY DEF ReplayInv, ReplayTypeOK, Idle, NoChain
<1>2. Flow'
  BY DEF ReplayInv, Flow, Idle, LiquidationMark, Lot, OfSymbol
<1>3. Underway'
  BY DEF Underway, Idle
<1>4. LongOnly' /\ NeverOversells'
  BY DEF ReplayInv, LongOnly, NeverOversells, Lot
<1> QED
  BY <1>1, <1>2, <1>3, <1>4 DEF ReplayInv

\* An event begins with nothing under way.
LEMMA TakeEventStep ==
  ASSUME ReplayInv, NEW s \in Symbols, NEW quoted \in [Options -> Quotes \cup {Unquoted}],
         NEW h \in Hours, TakeEvent(s, quoted, h)
  PROVE  ReplayInv'
<1>1. ReplayTypeOK'
  BY DEF TakeEvent, ReplayInv, ReplayTypeOK, strategy
<1>2. Flow' /\ Underway'
  BY DEF TakeEvent, ReplayInv, Flow, Underway, Between
<1>3. LongOnly' /\ NeverOversells'
  BY DEF TakeEvent, ReplayInv, LongOnly, NeverOversells, Lot, vars, strategy
<1> QED
  BY <1>1, <1>2, <1>3 DEF ReplayInv

\* The positions to be marked are those with a liquidation mark.
LEMMA MarkUnderlyingStep ==
  ASSUME ReplayInv, MarkUnderlying
  PROVE  ReplayInv'
<1>1. UNCHANGED positions
  BY MarksLeavePositions DEF MarkUnderlying
<1>2. ReplayTypeOK'
  BY DEF MarkUnderlying, ReplayInv, ReplayTypeOK, strategy, ToMark
<1>3. Flow' /\ Underway'
  BY <1>1 DEF MarkUnderlying, ReplayInv, Flow, Underway, Between, ToMark, LiquidationMark,
              Lot, OfSymbol
<1>4. LongOnly' /\ NeverOversells'
  BY <1>1 DEF MarkUnderlying, ReplayInv, LongOnly, NeverOversells, Lot, strategy
<1> QED
  BY <1>2, <1>3, <1>4 DEF ReplayInv

\* An exit order is for the strategy's whole position, at its bid.
LEMMA ExitOrderIsCovered ==
  ASSUME ReplayInv, NEW s \in Symbols, NEW now, NEW o \in ExitOrders(s, now)
  PROVE  /\ o \in Order /\ o.qty > 0 /\ Markable(o.price) /\ OfSymbol(o)
         /\ chain[o.instrument] # Unquoted
         /\ CoveredSell(o)
<1>1. PICK p \in held[s], purpose \in ExitPurposes :
        /\ Executable(p.instrument)
        /\ o = OrderFor(p.instrument, s, "SELL", p.qty, chain[p.instrument].bid, purpose)
  BY DEF ExitOrders, ExitPurpose, ExitPurposes
<1>2. /\ p \in [instrument : Options, qty : Nat, entry : Nat, right : Rights]
      /\ p.instrument \in Contracts[s][p.right] /\ p.qty > 0
  BY DEF ReplayInv, ReplayTypeOK
<1>3. /\ chain[p.instrument].bid \in Nat /\ Markable(chain[p.instrument].bid)
      /\ chain[p.instrument] # Unquoted
  BY <1>1, <1>2, QuotedSideIsMark DEF ReplayInv, Executable
<1> QED
  BY <1>1, <1>2, <1>3 DEF OrderFor, Order, CoveredSell, OfSymbol

\* An entry order is for at least one contract, at its ask.
LEMMA EntryOrderIsAllowed ==
  ASSUME ReplayInv, NEW s \in Symbols, NEW now, NEW o \in EntryOrders(s, now)
  PROVE  /\ o \in Order /\ o.qty > 0 /\ Markable(o.price) /\ OfSymbol(o)
         /\ chain[o.instrument] # Unquoted
         /\ o.symbol = s /\ o.side = "BUY" /\ o.purpose = "ENTRY" /\ MayEnter
<1>1. PICK r \in Rights, i \in UNION {Contracts[s][q] : q \in Rights} :
        /\ i \in Contracts[s][r]
        /\ MayEnter /\ Executable(i) /\ EntryQty(i) >= 1
        /\ o = OrderFor(i, s, "BUY", EntryQty(i), chain[i].ask, "ENTRY")
  BY DEF EntryOrders, CrossRights, Rights
<1>2. i \in Options /\ i \in Instruments
  BY ReplayAssumption, DomainAssumption
<1>3. /\ chain[i].ask \in Nat \ {0} /\ Markable(chain[i].ask)
      /\ chain[i] # Unquoted
  BY <1>1, <1>2, QuotedSideIsMark DEF ReplayInv, Executable
<1>4. EntryQty(i) \in Nat /\ EntryQty(i) > 0
  <2>1. 6 * chain[i].ask * Multiplier[i] \in Nat \ {0}
    BY <1>2, <1>3, DomainAssumption
  <2>2. Cash \in Nat
    BY ReplayAssumption
  <2>3. EntryQty(i) \in Int
    BY <2>1, <2>2 DEF EntryQty
  <2> QED
    BY <1>1, <2>3
<1> QED
  BY <1>1, <1>2, <1>3, <1>4 DEF OrderFor, Order, OfSymbol

\* The order a bar gives is covered or allowed.
LEMMA OnBarStep ==
  ASSUME ReplayInv, NEW now \in Sides, OnBar(now)
  PROVE  ReplayInv'
<1>1. PICK s \in symbol :
        /\ unmarked = {}
        /\ side' = [side EXCEPT ![s] = now]
        /\ UNCHANGED <<vars, hours, held, losses, entriesHalted, rows, fills, earned>>
        /\ \/ /\ \E o \in IF held[s] # {} THEN ExitOrders(s, now) ELSE EntryOrders(s, now) :
                    order' = {o}
              /\ at' = "ROUTE"
              /\ UNCHANGED <<event, fill>>
           \/ Idle
  BY DEF OnBar
<1>2. s \in Symbols
  BY DEF ReplayInv, ReplayTypeOK
<1>3. ASSUME NEW o, order' = {o}, at' = "ROUTE", UNCHANGED <<event, fill>>,
             o \in Order, o.qty > 0, Markable(o.price), OfSymbol(o),
             chain[o.instrument] # Unquoted, CoveredSell(o)' \/ AllowedBuy(o)'
      PROVE  ReplayTypeOK' /\ Flow' /\ Underway'
  <2>1. ReplayTypeOK'
    BY <1>1, <1>2, <1>3 DEF ReplayInv, ReplayTypeOK, event
  <2>2. Flow'
    BY <1>1, <1>3 DEF ReplayInv, Flow, event, Between, LiquidationMark, Lot, vars, OfSymbol
  <2> QED
    BY <1>3, <2>1, <2>2 DEF Underway
<1>4. ASSUME Idle PROVE ReplayTypeOK' /\ Flow' /\ Underway'
  <2>1. ReplayTypeOK'
    BY <1>1, <1>2, <1>4 DEF Idle, ReplayInv, ReplayTypeOK, NoChain
  <2> QED
    BY <1>4, <2>1 DEF Idle, Flow, Underway
<1>5. ASSUME NEW o \in ExitOrders(s, now), order' = {o}, at' = "ROUTE",
             UNCHANGED <<event, fill>>
      PROVE  ReplayTypeOK' /\ Flow' /\ Underway'
  <2>1. CoveredSell(o)'
    BY <1>1, <1>2, ExitOrderIsCovered DEF CoveredSell
  <2> QED
    BY <1>2, <1>3, <1>5, <2>1, ExitOrderIsCovered
<1>6. ASSUME NEW o \in EntryOrders(s, now), held[s] = {}, order' = {o}, at' = "ROUTE",
             UNCHANGED <<event, fill>>
      PROVE  ReplayTypeOK' /\ Flow' /\ Underway'
  <2>1. AllowedBuy(o)'
    BY <1>1, <1>2, <1>6, EntryOrderIsAllowed DEF AllowedBuy, MayEnter
  <2> QED
    BY <1>2, <1>3, <1>6, <2>1, EntryOrderIsAllowed
<1>7. LongOnly' /\ NeverOversells'
  BY <1>1 DEF ReplayInv, LongOnly, NeverOversells, Lot, vars
<1> QED
  BY <1>1, <1>4, <1>5, <1>6, <1>7 DEF ReplayInv

\* A buy of a long-only account adds risk, so only the entry checks let it by.
LEMMA RoutedBuyIsInsideLimits ==
  ASSUME ReplayInv, TypeOK, NEW o \in order, AllowedBuy(o),
         RequestOf(o) \in Requests, Reason(RequestOf(o)) = "NONE"
  PROVE  opState = "ARMED" /\ ~(net <= LossFloor) /\ ~(net >= ProfitLock)
<1> DEFINE r == RequestOf(o)
<1>1. r.side = "BUY" /\ r.purpose = "ENTRY" /\ r.holding = Holding(o.instrument)
  BY DEF RequestOf, AllowedBuy
<1>2. CurrentQty(r) \in Nat
  BY <1>1, LotType DEF ReplayInv, ReplayTypeOK, Order, LongOnly, CurrentQty, Lot
<1>3. ExitSafetyReason(r) # "NONE"
  BY <1>1, <1>2 DEF ExitSafetyReason
<1>4. Decided(r).verdict = "AUTHORIZED"
  BY DEF Decided
<1>5. EntryReason(r) = "NONE"
  BY <1>3, <1>4, AuthorizedDecision
<1> QED
  BY <1>5 DEF EntryReason, States, TypeOK

\* What the governor lets by, it lets by in the state it answered in.
LEMMA RouteStep ==
  ASSUME ReplayInv, TypeOK, RouteSignal
  PROVE  ReplayInv'
<1>1. PICK o \in order :
        /\ at = "ROUTE" /\ RequestOf(o) \in Requests /\ Evaluate(RequestOf(o))
        /\ \/ Reason(RequestOf(o)) = "NONE" /\ at' = "SUBMIT" /\ UNCHANGED <<event, order, fill>>
           \/ Idle
        /\ UNCHANGED <<hours, strategy, rows, fills, earned>>
  BY DEF RouteSignal
<1>2. UNCHANGED <<positions, opState, net>>
  BY <1>1 DEF Evaluate, pnl
<1>3. CASE Idle
  BY <1>1, <1>2, <1>3, QuietStep
<1>4. CASE Reason(RequestOf(o)) = "NONE" /\ at' = "SUBMIT" /\ UNCHANGED <<event, order, fill>>
  <2>1. ReplayTypeOK'
    BY <1>1, <1>4 DEF ReplayInv, ReplayTypeOK, event, strategy
  <2>2. Flow'
    BY <1>1, <1>2, <1>4 DEF ReplayInv, Flow, Between, event, OfSymbol
  <2>3. Underway'
    <3>1. CASE CoveredSell(o)
      BY <1>1, <1>4, <2>2, <3>1 DEF Flow, Underway, CoveredSell, strategy
    <3>2. CASE AllowedBuy(o)
      BY <1>1, <1>2, <1>4, <2>2, <3>2, RoutedBuyIsInsideLimits
      DEF Flow, Underway, AllowedBuy, strategy
    <3> QED
      BY <1>1, <3>1, <3>2 DEF ReplayInv, Underway
  <2>4. LongOnly' /\ NeverOversells'
    BY <1>1, <1>2 DEF ReplayInv, LongOnly, NeverOversells, Lot, strategy
  <2> QED
    BY <2>1, <2>2, <2>3, <2>4 DEF ReplayInv
<1> QED
  BY <1>1, <1>3, <1>4

-------------------------------------------------------------------------------

\* A buy adds to the lot at least what the strategy is told of.
LEMMA BuyStep ==
  ASSUME ReplayInv, TypeOK, TypeOK', BuyFill
  PROVE  ReplayInv'
<1>1. PICK o \in order :
        LET i == o.instrument  q == Filled(o)
        IN /\ at = "SUBMIT" /\ o.side = "BUY" /\ q > 0
           /\ Writes(i, Bought(Lot(i), q, o.price))
           /\ rows' = rows \cup {i}
           /\ held' = [held EXCEPT ![o.symbol] =
                         {[instrument |-> i, qty |-> q, entry |-> o.price,
                           right |-> IF i \in Contracts[o.symbol]["CALL"] THEN "CALL" ELSE "PUT"]}]
           /\ fill' = {FillOf(o, q, 0)} /\ fills' = fills + 1
           /\ at' = "FILL_MARK"
           /\ UNCHANGED <<governor, event, order, hours, side, losses, entriesHalted, earned>>
  BY DEF BuyFill
<1> DEFINE i == o.instrument
           q == Filled(o)
<1>2. /\ o \in Order /\ o.qty > 0 /\ Markable(o.price) /\ OfSymbol(o)
      /\ q \in Nat /\ q > 0
  BY <1>1, FilledIsPart DEF ReplayInv, ReplayTypeOK, Flow
<1>3. i \in Options /\ Holding(i) \in Holdings /\ Lot(i).qty \in Nat
  BY <1>2, LotType DEF ReplayInv, LongOnly, Order
<1>4. /\ Lot(i)'.qty = Lot(i).qty + q
      /\ \A j \in Options \ {i} : Lot(j)' = Lot(j)
  <2>1. Lot(i)' = Bought(Lot(i), q, o.price)
    BY <1>1, <1>3 DEF Writes, Lot, TypeOK
  <2>2. ASSUME NEW j \in Options \ {i} PROVE Lot(j)' = Lot(j)
    BY <1>1, <1>3 DEF Writes, Lot, TypeOK, Holding
  <2> QED
    BY <2>1, <2>2 DEF Bought
<1>5. LongOnly'
  BY <1>2, <1>3, <1>4 DEF ReplayInv, LongOnly
<1>6. ReplayTypeOK'
  <2> DEFINE new == [instrument |-> i, qty |-> q, entry |-> o.price,
                     right |-> IF i \in Contracts[o.symbol]["CALL"] THEN "CALL" ELSE "PUT"]
  <2>1. /\ new \in [instrument : Options, qty : Nat, entry : Nat, right : Rights]
        /\ new.instrument \in Contracts[o.symbol][new.right] /\ new.qty > 0
    BY <1>2, <1>3 DEF Order, OfSymbol, Rights
  <2>2. held' = [held EXCEPT ![o.symbol] = {new}]
    BY <1>1
  <2>3. fill' \subseteq [instrument : Options, price : Nat, realized : Int, qty : Nat]
    BY <1>1, <1>2, <1>3 DEF FillOf, Order
  <2>4. /\ held' \in [Symbols -> SUBSET [instrument : Options, qty : Nat, entry : Nat,
                                         right : Rights]]
        /\ \A s \in Symbols : \A p \in held'[s] :
             /\ p.instrument \in Contracts[s][p.right] /\ p.qty > 0
             /\ \A x \in held'[s] : p = x
    <3>1. o.symbol \in Symbols
      BY <1>2 DEF Order
    <3> HIDE DEF new
    <3> QED
      BY <2>1, <2>2, <3>1 DEF ReplayInv, ReplayTypeOK
  <2> HIDE DEF new
  <2> QED
    BY <1>1, <1>3, <2>3, <2>4 DEF ReplayInv, ReplayTypeOK, event
<1>7. Flow' /\ Underway'
  <2>1. UNCHANGED <<order, chain, unmarked>> /\ unmarked = {}
    BY <1>1 DEF event, ReplayInv, Flow
  <2> QED
    BY <1>1, <1>2, <2>1 DEF ReplayInv, Flow, Underway, FillOf, Between, OfSymbol
<1>8. NeverOversells'
  <2> SUFFICES ASSUME NEW s \in Symbols, NEW p \in held'[s]
               PROVE  p.qty <= Lot(p.instrument)'.qty
    BY DEF NeverOversells
  <2>1. CASE s = o.symbol
    <3>1. p.instrument = i /\ p.qty = q
      BY <1>1, <2>1 DEF ReplayInv, ReplayTypeOK
    <3> QED
      BY <1>2, <1>3, <1>4, <3>1
  <2>2. CASE s # o.symbol
    <3>1. p \in held[s]
      BY <1>1, <2>2 DEF ReplayInv, ReplayTypeOK
    <3>2. p.instrument # i /\ p.instrument \in Options
      BY <1>2, <2>2, <3>1, HeldApart DEF ReplayInv, ReplayTypeOK, OfSymbol, Order
    <3> QED
      BY <1>4, <3>1, <3>2 DEF ReplayInv, NeverOversells
  <2> QED
    BY <2>1, <2>2
<1> QED
  BY <1>5, <1>6, <1>7, <1>8 DEF ReplayInv

\* A sell takes no more of the lot than the strategy's position, which goes.
LEMMA SellStep ==
  ASSUME ReplayInv, TypeOK, TypeOK', SellFill
  PROVE  ReplayInv'
<1>1. PICK o \in order :
        LET i == o.instrument  q == Filled(o)
            delta == (o.price - Lot(i).avg) * q * Multiplier[i]
        IN /\ at = "SUBMIT" /\ o.side = "SELL" /\ q > 0
           /\ Writes(i, [Lot(i) EXCEPT !.qty = @ - q])
           /\ held' = [held EXCEPT ![o.symbol] = {}]
           /\ losses' = (IF delta < 0 THEN losses + 1 ELSE 0)
           /\ entriesHalted' = (entriesHalted \/ losses' >= 2)
           /\ fill' = {FillOf(o, q, delta)} /\ fills' = fills + 1
           /\ earned' = earned + delta
           /\ at' = "FILL_MARK"
           /\ UNCHANGED <<governor, event, order, hours, side, rows>>
  BY DEF SellFill
<1> DEFINE i == o.instrument
           q == Filled(o)
<1>2. /\ o \in Order /\ o.qty > 0 /\ Markable(o.price) /\ OfSymbol(o)
      /\ q \in Nat /\ q > 0 /\ q <= o.qty
  BY <1>1, FilledIsPart DEF ReplayInv, ReplayTypeOK, Flow
<1>3. i \in Options /\ Holding(i) \in Holdings /\ Lot(i).qty \in Nat /\ Lot(i).avg \in Nat
  BY <1>2, LotType DEF ReplayInv, LongOnly, Order
<1>4. o.qty <= Lot(i).qty
  <2>1. PICK p \in held[o.symbol] : p.instrument = i /\ p.qty = o.qty
    BY <1>1 DEF ReplayInv, Underway, CoveredSell, AllowedBuy
  <2> QED
    BY <1>2, <2>1 DEF ReplayInv, NeverOversells, Order
<1>5. /\ Lot(i)'.qty = Lot(i).qty - q
      /\ \A j \in Options \ {i} : Lot(j)' = Lot(j)
  <2>1. Lot(i)' = [Lot(i) EXCEPT !.qty = @ - q]
    BY <1>1, <1>3 DEF Writes, Lot, TypeOK
  <2>2. ASSUME NEW j \in Options \ {i} PROVE Lot(j)' = Lot(j)
    BY <1>1, <1>3 DEF Writes, Lot, TypeOK, Holding
  <2>3. Lot(i) \in Lots \cup {Flat}
    BY <1>3 DEF TypeOK, Lot
  <2>4. Lot(i)'.qty = Lot(i).qty - q
    BY <2>1, <2>3, InputAssumption DEF Flat
  <2> QED
    BY <2>2, <2>4
<1>6. LongOnly'
  BY <1>2, <1>3, <1>4, <1>5 DEF ReplayInv, LongOnly, Order
<1>7. ReplayTypeOK'
  <2>1. (o.price - Lot(i).avg) * q * Multiplier[i] \in Int
    BY <1>2, <1>3, DomainAssumption DEF Order
  <2>2. fill' \subseteq [instrument : Options, price : Nat, realized : Int, qty : Nat]
    BY <1>1, <1>2, <1>3, <2>1 DEF FillOf, Order
  <2>3. losses' \in Nat
    BY <1>1, <2>1 DEF ReplayInv, ReplayTypeOK
  <2>4. entriesHalted' \in BOOLEAN
    BY <1>1, <2>3 DEF ReplayInv, ReplayTypeOK
  <2>5. /\ held' \in [Symbols -> SUBSET [instrument : Options, qty : Nat, entry : Nat,
                                         right : Rights]]
        /\ \A s \in Symbols : \A p \in held'[s] :
             /\ p.instrument \in Contracts[s][p.right] /\ p.qty > 0
             /\ \A x \in held'[s] : p = x
    <3>1. held' = [held EXCEPT ![o.symbol] = {}]
      BY <1>1
    <3>2. \A s \in Symbols : held'[s] \subseteq held[s]
      BY <3>1 DEF ReplayInv, ReplayTypeOK
    <3> QED
      BY <3>1, <3>2 DEF ReplayInv, ReplayTypeOK
  <2>6. earned' \in Int
    <3> HIDE DEF i, q
    <3> QED
      BY <1>1, <2>1 DEF ReplayInv, ReplayTypeOK, i, q
  <2> QED
    BY <1>1, <2>2, <2>3, <2>4, <2>5, <2>6 DEF ReplayInv, ReplayTypeOK, event
<1>8. Flow' /\ Underway'
  <2>1. UNCHANGED <<order, chain, unmarked>> /\ unmarked = {}
    BY <1>1 DEF event, ReplayInv, Flow
  <2> QED
    BY <1>1, <1>2, <2>1 DEF ReplayInv, Flow, Underway, FillOf, Between, OfSymbol
<1>9. NeverOversells'
  <2> SUFFICES ASSUME NEW s \in Symbols, NEW p \in held'[s]
               PROVE  p.qty <= Lot(p.instrument)'.qty
    BY DEF NeverOversells
  <2>1. s # o.symbol /\ p \in held[s]
    BY <1>1 DEF ReplayInv, ReplayTypeOK
  <2>2. p.instrument # i /\ p.instrument \in Options
    BY <1>2, <2>1, HeldApart DEF ReplayInv, ReplayTypeOK, OfSymbol, Order
  <2> QED
    BY <1>5, <2>1, <2>2 DEF ReplayInv, NeverOversells
<1> QED
  BY <1>6, <1>7, <1>8, <1>9 DEF ReplayInv

-------------------------------------------------------------------------------

\* The invariant is inductive, relative to the governor's types.
LEMMA ReplayStep ==
  ASSUME ReplayInv, TypeOK, [ReplayNext]_<<vars, replay>>
  PROVE  ReplayInv' /\ TypeOK'
<1>1. TypeOK'
  BY GovernorStep, TypeStep DEF ReplayInv
<1> SUFFICES ReplayInv'
  BY <1>1
<1>2. ASSUME NEW s \in Sessions, StartSession(s) PROVE ReplayInv'
  BY <1>2, QuietStep DEF StartSession, InitializeSession, Between, event
<1>3. CASE ArmSession
  BY <1>3, QuietStep DEF ArmSession, Arm, vars, Between, event
<1>4. ASSUME NEW s \in Symbols, NEW quoted \in [Options -> Quotes \cup {Unquoted}],
             NEW h \in Hours, TakeEvent(s, quoted, h)
      PROVE  ReplayInv'
  BY <1>4, TakeEventStep
<1>5. CASE MarkUnderlying
  BY <1>5, MarkUnderlyingStep
<1>6. ASSUME NEW i \in Options, MarkPosition(i) PROVE ReplayInv'
  BY <1>6, QuietStep, MarksLeavePositions DEF MarkPosition, Between
<1>7. CASE NoBar
  BY <1>7, QuietStep DEF NoBar, vars
<1>8. ASSUME NEW now \in Sides, OnBar(now) PROVE ReplayInv'
  BY <1>8, OnBarStep
<1>9. CASE RouteSignal
  BY <1>9, RouteStep
<1>10. CASE NotFilled
  BY <1>10, QuietStep DEF NotFilled, vars
<1>11. CASE BuyFill
  BY <1>1, <1>11, BuyStep
<1>12. CASE DuplicateRow
  BY <1>12, QuietStep DEF DuplicateRow, vars, Between, event
<1>13. CASE SellFill
  BY <1>1, <1>13, SellStep
<1>14. CASE MarkFill
  BY <1>14, QuietStep, MarksLeavePositions DEF MarkFill, Between, event
<1>15. CASE AccountFill
  BY <1>15, QuietStep DEF AccountFill, RecordFillAccounting
<1>16. CASE UNCHANGED <<vars, replay>>
  <2>1. ReplayTypeOK'
    BY <1>16 DEF replay, event, strategy, ReplayInv, ReplayTypeOK
  <2>2. Flow' /\ LongOnly' /\ NeverOversells'
    BY <1>16 DEF replay, vars, event, strategy, ReplayInv, Flow, LiquidationMark, OfSymbol,
                 LongOnly, Lot, NeverOversells
  <2>3. Underway'
    BY <1>16 DEF replay, vars, pnl, strategy, ReplayInv, Underway, CoveredSell, AllowedBuy
  <2> QED
    BY <2>1, <2>2, <2>3 DEF ReplayInv
<1> QED
  BY <1>1, <1>2, <1>3, <1>4, <1>5, <1>6, <1>7, <1>8, <1>9, <1>10, <1>11, <1>12, <1>13, <1>14,
     <1>15, <1>16 DEF ReplayNext

\* It holds at the start of a replay.
LEMMA ReplayStarts == ReplayInit => ReplayInv /\ TypeOK
<1> SUFFICES ASSUME ReplayInit PROVE ReplayInv /\ TypeOK
  OBVIOUS
<1>1. TypeOK
  BY DEF ReplayInit, Init, TypeOK, States, Flat
<1>2. ReplayTypeOK
  <2>1. losses \in Nat /\ fills \in Nat /\ earned \in Int /\ rows \subseteq Options
    BY DEF ReplayInit
  <2>2. chain \in [Options -> Quotes \cup {Unquoted}] /\ side \in [Symbols -> Sides]
    BY DEF ReplayInit, NoChain, Sides
  <2>3. /\ held \in [Symbols -> SUBSET [instrument : Options, qty : Nat, entry : Nat,
                                        right : Rights]]
        /\ \A s \in Symbols : held[s] = {}
    BY DEF ReplayInit
  <2> QED
    BY <2>1, <2>2, <2>3 DEF ReplayInit, ReplayTypeOK, Hours
<1>3. Flow /\ Underway /\ NeverOversells
  BY DEF ReplayInit, Flow, Underway, NeverOversells
<1>4. LongOnly
  BY LotType, <1>1 DEF ReplayInit, Init, LongOnly, Lot, Flat
<1> QED
  BY <1>1, <1>2, <1>3, <1>4 DEF ReplayInv

\* The inductive invariant of the replay.
THEOREM ReplayInvariant == ReplaySpec => [](ReplayInv /\ TypeOK)
  BY ReplayStarts, ReplayStep, PTL DEF ReplaySpec

\* Every state of a replay is well typed, on every tape.
THEOREM ReplayTypeCorrect == ReplaySpec => []ReplayTypeOK
<1>1. ReplayInv => ReplayTypeOK
  BY DEF ReplayInv
<1> QED
  BY <1>1, ReplayInvariant, PTL

\* The strategy's position is always covered by the account's lot.
THEOREM ReplayNeverOversells == ReplaySpec => []NeverOversells
<1>1. ReplayInv => NeverOversells
  BY DEF ReplayInv
<1> QED
  BY <1>1, ReplayInvariant, PTL

\* Whatever the tape, a replay is a behaviour of the risk governor.
THEOREM ReplayImplementsGovernor == ReplaySpec => ImplementsGovernor
<1>1. ReplayInit => Init
  BY DEF ReplayInit
<1>2. ReplayInv /\ TypeOK /\ [ReplayNext]_<<vars, replay>> => [Next]_vars
  BY GovernorStep DEF ReplayInv
<1> QED
  BY <1>1, <1>2, ReplayInvariant, PTL DEF ReplaySpec, ImplementsGovernor, Spec

\* So a replay that has lost its limit is stopped, whatever the tape.
THEOREM ReplayStopsOnBreach == ReplaySpec => []LossBreachStops
  BY ReplayImplementsGovernor, LossBreachAlwaysStops DEF ImplementsGovernor

\* Positions grow only in an armed session inside its band, before 15:45 and
\* without two losses in a row: the fill comes in the state the order was let
\* by in.
THEOREM ReplayEntersOnlyWhenAllowed == ReplaySpec => EntriesOnlyWhenAllowed
<1> DEFINE Allowed == \A i \in Options : Lot(i)'.qty > Lot(i).qty =>
             /\ opState = "ARMED" /\ ~(net <= LossFloor) /\ ~(net >= ProfitLock)
             /\ hours = "TRADING" /\ ~entriesHalted
<1>1. ReplayInv /\ TypeOK /\ [ReplayNext]_<<vars, replay>> => [Allowed]_positions
  <2> SUFFICES ASSUME ReplayInv, TypeOK, [ReplayNext]_<<vars, replay>>, positions' # positions
               PROVE  Allowed
    OBVIOUS
  <2>1. CASE BuyFill
    <3>1. PICK o \in order : at = "SUBMIT" /\ o.side = "BUY"
      BY <2>1 DEF BuyFill
    <3>2. AllowedBuy(o)
      BY <3>1 DEF ReplayInv, Underway, CoveredSell
    <3> QED
      BY <3>1, <3>2 DEF AllowedBuy
  <2>2. CASE SellFill
    <3>1. PICK o \in order :
            /\ Writes(o.instrument, [Lot(o.instrument) EXCEPT !.qty = @ - Filled(o)])
            /\ Filled(o) > 0
      BY <2>2 DEF SellFill
    <3> DEFINE i == o.instrument
               q == Filled(o)
    <3>2. i \in Options /\ Holding(i) \in Holdings /\ Lot(i).qty \in Int /\ q \in Nat
      BY LotType, FilledIsPart DEF ReplayInv, ReplayTypeOK, Order
    <3>3. Lot(i) \in Lots \cup {Flat}
      BY <3>2 DEF TypeOK, Lot
    <3>4. Lot(i)'.qty = Lot(i).qty - q
      BY <3>1, <3>2, <3>3, InputAssumption DEF Writes, Lot, TypeOK, Flat
    <3>5. \A j \in Options \ {i} : Lot(j)' = Lot(j)
      BY <3>1, <3>2 DEF Writes, Lot, TypeOK, Holding
    <3>6. \A j \in Options : ~(Lot(j)'.qty > Lot(j).qty)
      BY <3>1, <3>2, <3>4, <3>5, LotType
    <3> QED
      BY <3>6
  <2> QED
    BY <2>1, <2>2, MarksLeavePositions
    DEF ReplayNext, StartSession, InitializeSession, ArmSession, Arm, TakeEvent, MarkUnderlying,
        MarkPosition, NoBar, OnBar, RouteSignal, Evaluate, NotFilled, DuplicateRow, MarkFill,
        AccountFill, RecordFillAccounting, vars
<1> QED
  BY <1>1, ReplayInvariant, PTL DEF ReplaySpec, EntriesOnlyWhenAllowed

\* What the replay holds in its hands between two links is what these may
\* leave, and the strategy never sells what the account has not.
THEOREM PositionsAlwaysAgree == ReplaySpec => []PositionsAgree
  BY ReplayTypeCorrect, ReplayNeverOversells, PTL DEF PositionsAgree

-------------------------------------------------------------------------------
(* The net P&L between two events. *)

MarkedAt(i) == marks[session][i] # NoMark
Complete == \A h \in OpenHoldings : MarkedAt(h[2])
IsValued == Complete /\ unrealized = Unrealized(marks[session])

\* The portfolio is valued at its marks, but between a fill and its mark, when
\* only the contract that was filled may lack one.
Valuation ==
  /\ at \in {"START", "ARM"} => OpenHoldings = {} /\ unrealized = 0
  /\ at \in {"IDLE", "UNDERLYING", "MARKS", "ROUTE", "SUBMIT", "ACCOUNT"} => IsValued
  /\ at = "FILL_MARK" =>
       \A f \in fill : \A h \in OpenHoldings : MarkedAt(h[2]) \/ h[2] = f.instrument

LEMMA NothingOpen == ASSUME OpenHoldings = {}, NEW m PROVE Unrealized(m) = 0
<1>1. MapThenSumSet(LAMBDA h : positions[h].qty * (m[h[2]].price - positions[h].avg)
                             * Multiplier[h[2]], {}) = 0
  BY FS_EmptySet DEF MapThenSumSet, MapThenFoldSet
<1>. QED  BY <1>1 DEF Unrealized

\* A mark completes the marks when only its own instrument lacked one, and a
\* complete portfolio is revalued.
LEMMA MarkValues ==
  ASSUME TypeOK, NEW i \in Instruments, NEW m \in Marks, RecordMarketMark(i, m),
         \A h \in OpenHoldings : MarkedAt(h[2]) \/ h[2] = i
  PROVE  IsValued'
<1>1. session \in Sessions /\ UNCHANGED <<session, positions>>
  BY DEF RecordMarketMark, Initialized, TypeOK
<1>2. PICK latest : /\ latest = [marks[session] EXCEPT ![i] = LatestMark(i, m)]
                    /\ marks' = [marks EXCEPT ![session] = latest]
                    /\ (\A h \in OpenHoldings : latest[h[2]] # NoMark)
                         => unrealized' = Unrealized(latest)
  BY DEF RecordMarketMark
<1>3. marks'[session'] = latest
  BY <1>1, <1>2 DEF TypeOK
<1>4. LatestMark(i, m) # NoMark
  BY <1>1, DomainAssumption DEF LatestMark, TypeOK
<1>5. \A h \in OpenHoldings : h[2] \in Instruments
  BY DEF OpenHoldings, Holdings
<1>6. \A h \in OpenHoldings : latest[h[2]] # NoMark
  BY <1>1, <1>2, <1>4, <1>5 DEF MarkedAt, TypeOK
<1>7. unrealized' = Unrealized(latest)
  BY <1>2, <1>6
<1>8. OpenHoldings' = OpenHoldings
  BY <1>1 DEF OpenHoldings
<1>9. Unrealized(marks[session])' = Unrealized(latest)
  BY <1>1, <1>3 DEF Unrealized, MapThenSumSet, MapThenFoldSet, OpenHoldings
<1>. QED  BY <1>3, <1>6, <1>7, <1>8, <1>9 DEF IsValued, Complete, MarkedAt

\* Steps that leave the positions, the marks and their value alone.
LEMMA ValueKept ==
  ASSUME UNCHANGED <<session, positions, marks, unrealized>>
  PROVE  IsValued' = IsValued /\ OpenHoldings' = OpenHoldings
         /\ \A i : MarkedAt(i)' = MarkedAt(i)
<1>1. OpenHoldings' = OpenHoldings /\ \A i : MarkedAt(i)' = MarkedAt(i)
  BY DEF MarkedAt, OpenHoldings
<1>2. Unrealized(marks[session])' = Unrealized(marks[session])
  BY DEF Unrealized, MapThenSumSet, MapThenFoldSet, OpenHoldings
<1>. QED  BY <1>1, <1>2 DEF IsValued, Complete, MarkedAt

\* A fill opens no other holding than that of its contract.
LEMMA FillOpens ==
  ASSUME TypeOK, NEW i, NEW lot, positions' = [positions EXCEPT ![Holding(i)] = lot],
         UNCHANGED <<session, marks>>, Complete
  PROVE  \A h \in OpenHoldings' : MarkedAt(h[2])' \/ h[2] = i
<1>. SUFFICES ASSUME NEW h \in OpenHoldings', h[2] # i PROVE MarkedAt(h[2])'
  OBVIOUS
<1>1. h # Holding(i)
  BY DEF Holding
<1>2. h \in OpenHoldings
  BY <1>1 DEF OpenHoldings, TypeOK
<1>. QED  BY <1>2 DEF Complete, MarkedAt

LEMMA ValuationStep ==
  TypeOK /\ ReplayInv /\ Valuation /\ [ReplayNext]_<<vars, replay>> => Valuation'
<1>. SUFFICES ASSUME TypeOK, ReplayInv, Valuation, [ReplayNext]_<<vars, replay>>
              PROVE  Valuation'
  OBVIOUS
<1>. USE DEF Valuation
<1>1. ASSUME NEW s \in Sessions, StartSession(s) PROVE Valuation'
  BY <1>1 DEF StartSession, InitializeSession, OpenHoldings
<1>2. CASE ArmSession
  <2>1. /\ at = "ARM" /\ at' = "IDLE"
        /\ UNCHANGED <<session, positions, marks, unrealized>>
    BY <1>2 DEF ArmSession, Arm, vars, pnl
  <2>2. OpenHoldings = {} /\ unrealized = 0
    BY <2>1
  <2>3. IsValued
    BY <2>2, NothingOpen DEF IsValued, Complete
  <2>. QED  BY <2>1, <2>3, ValueKept
<1>3. CASE /\ UNCHANGED <<session, positions, marks, unrealized>>
           /\ at \in {"IDLE", "UNDERLYING", "MARKS", "ROUTE", "SUBMIT", "ACCOUNT"}
           /\ at' \notin {"START", "ARM", "FILL_MARK"}
  BY <1>3, ValueKept
<1>4. ASSUME NEW s, NEW quoted, NEW h, TakeEvent(s, quoted, h) PROVE Valuation'
  BY <1>4, <1>3 DEF TakeEvent, vars, pnl
<1>5. CASE NoBar \/ (\E now \in Sides : OnBar(now)) \/ RouteSignal \/ NotFilled
             \/ DuplicateRow \/ AccountFill
  BY <1>5, <1>3 DEF NoBar, OnBar, RouteSignal, NotFilled, DuplicateRow, AccountFill, Idle,
     Evaluate, RecordFillAccounting, vars, pnl
<1>6. ASSUME NEW i \in Instruments, NEW m \in Marks, RecordMarketMark(i, m), IsValued,
             at' \in {"MARKS", "ACCOUNT"}
      PROVE  Valuation'
  BY <1>6, MarkValues DEF IsValued, Complete
<1>7. CASE MarkUnderlying
  <2>1. PICK s \in symbol : RecordMarketMark(Underlying[s], UnderlyingMark)
    BY <1>7 DEF MarkUnderlying
  <2>2. Underlying[s] \in Instruments /\ UnderlyingMark \in Marks
    BY ReplayAssumption DEF ReplayInv, ReplayTypeOK
  <2>. QED  BY <1>6, <1>7, <2>1, <2>2 DEF MarkUnderlying
<1>8. ASSUME NEW i \in Options, MarkPosition(i) PROVE Valuation'
  <2>1. i \in Instruments
    BY DomainAssumption
  <2>2. [price |-> LiquidationMark(i), at |-> 1] \in Marks
    BY <1>8, QuotedSideIsMark DEF MarkPosition, ReplayInv, Flow, LiquidationMark, Markable
  <2>. QED  BY <1>6, <1>8, <2>1, <2>2 DEF MarkPosition
<1>9. CASE MarkFill
  <2>1. PICK f \in fill : RecordMarketMark(f.instrument, [price |-> f.price, at |-> 1])
    BY <1>9 DEF MarkFill
  <2>2. f.instrument \in Instruments /\ [price |-> f.price, at |-> 1] \in Marks
    BY DomainAssumption DEF ReplayInv, ReplayTypeOK, Flow, Markable
  <2>3. \A h \in OpenHoldings : MarkedAt(h[2]) \/ h[2] = f.instrument
    BY <1>9 DEF MarkFill
  <2>4. IsValued'
    BY <2>1, <2>2, <2>3, MarkValues
  <2>. QED  BY <1>9, <2>4 DEF MarkFill
<1>10. ASSUME NEW o \in order, NEW lot, NEW f, Writes(o.instrument, lot),
              at = "SUBMIT", at' = "FILL_MARK", fill' = {f}, f.instrument = o.instrument,
              UNCHANGED governor
       PROVE  Valuation'
  <2>1. UNCHANGED <<session, marks>> /\ Complete
    BY <1>10 DEF governor, IsValued
  <2>2. \A h \in OpenHoldings' : MarkedAt(h[2])' \/ h[2] = f.instrument
    BY <1>10, <2>1, FillOpens DEF Writes
  <2>. QED  BY <1>10, <2>2
<1>11. CASE BuyFill
  BY <1>11, <1>10 DEF BuyFill, FillOf
<1>12. CASE SellFill
  BY <1>12, <1>10 DEF SellFill, FillOf
<1>13. CASE UNCHANGED <<vars, replay>>
  <2>1. UNCHANGED <<session, positions, marks, unrealized, at, fill>>
    BY <1>13 DEF vars, pnl, replay
  <2>. QED  BY <2>1, ValueKept
<1>. QED
  BY <1>1, <1>2, <1>4, <1>5, <1>7, <1>8, <1>9, <1>11, <1>12, <1>13 DEF ReplayNext

\* What the governor has realized is what the fills have, but for the fill that
\* is on its way to it.
Booked ==
  /\ fees = 0
  /\ at = "START" => earned = 0
  /\ at \in {"FILL_MARK", "ACCOUNT"} =>
       \E f \in fill : fill = {f} /\ earned = realized + f.realized
  /\ at \notin {"FILL_MARK", "ACCOUNT"} => earned = realized

LEMMA BookedStep ==
  TypeOK /\ ReplayInv /\ Booked /\ [ReplayNext]_<<vars, replay>> => Booked'
<1>. SUFFICES ASSUME TypeOK, ReplayInv, Booked, [ReplayNext]_<<vars, replay>>
              PROVE  Booked'
  OBVIOUS
<1>. USE DEF Booked
<1>1. ASSUME NEW s \in Sessions, StartSession(s) PROVE Booked'
  BY <1>1 DEF StartSession, InitializeSession
<1>2. CASE /\ UNCHANGED <<realized, fees, earned>>
           /\ at \notin {"FILL_MARK", "ACCOUNT"}
           /\ at' \notin {"START", "FILL_MARK", "ACCOUNT"}
  BY <1>2
<1>3. CASE ArmSession
  BY <1>3, <1>2 DEF ArmSession, Arm, vars, pnl
<1>4. ASSUME NEW s, NEW quoted, NEW h, TakeEvent(s, quoted, h) PROVE Booked'
  BY <1>4, <1>2 DEF TakeEvent, vars, pnl
<1>5. CASE MarkUnderlying
  BY <1>5, <1>2 DEF MarkUnderlying, RecordMarketMark
<1>6. ASSUME NEW i \in Options, MarkPosition(i) PROVE Booked'
  BY <1>6, <1>2 DEF MarkPosition, RecordMarketMark
<1>7. CASE NoBar \/ (\E now \in Sides : OnBar(now)) \/ RouteSignal \/ NotFilled \/ DuplicateRow
  BY <1>7, <1>2 DEF NoBar, OnBar, RouteSignal, NotFilled, DuplicateRow, Idle, Evaluate, vars, pnl
<1>8. CASE BuyFill
  <2>1. PICK o \in order : fill' = {FillOf(o, Filled(o), 0)}
    BY <1>8 DEF BuyFill
  <2>2. /\ earned' = earned /\ realized' = realized /\ fees' = fees
        /\ at = "SUBMIT" /\ at' = "FILL_MARK"
    BY <1>8 DEF BuyFill, governor, pnl
  <2>3. FillOf(o, Filled(o), 0).realized = 0 /\ realized \in Int
    BY DEF FillOf, TypeOK
  <2>. QED  BY <2>1, <2>2, <2>3
<1>9. CASE SellFill
  <2>1. PICK o \in order :
          LET delta == (o.price - Lot(o.instrument).avg) * Filled(o) * Multiplier[o.instrument]
          IN fill' = {FillOf(o, Filled(o), delta)} /\ earned' = earned + delta
    BY <1>9 DEF SellFill
  <2>. DEFINE delta == (o.price - Lot(o.instrument).avg) * Filled(o) * Multiplier[o.instrument]
  <2>2. /\ realized' = realized /\ fees' = fees
        /\ at = "SUBMIT" /\ at' = "FILL_MARK"
    BY <1>9 DEF SellFill, governor, pnl
  <2>3. FillOf(o, Filled(o), delta).realized = delta
    BY DEF FillOf
  <2>4. fill' = {FillOf(o, Filled(o), delta)} /\ earned' = earned + delta
    BY <2>1
  <2>. HIDE DEF delta
  <2>. QED  BY <2>2, <2>3, <2>4
<1>10. CASE MarkFill
  BY <1>10 DEF MarkFill, RecordMarketMark
<1>11. CASE AccountFill
  <2>1. PICK f \in fill : RecordFillAccounting([realized |-> f.realized, fees |-> 0], OpenHoldings)
    BY <1>11 DEF AccountFill
  <2>2. at = "ACCOUNT" /\ at' = "IDLE" /\ earned' = earned
    BY <1>11 DEF AccountFill, Idle
  <2>3. realized' = realized + f.realized /\ fees' = fees + 0
    BY <2>1 DEF RecordFillAccounting
  <2>. QED  BY <2>2, <2>3
<1>12. CASE UNCHANGED <<vars, replay>>
  BY <1>12 DEF vars, pnl, replay
<1>. QED
  BY <1>1, <1>3, <1>4, <1>5, <1>6, <1>7, <1>8, <1>9, <1>10, <1>11, <1>12 DEF ReplayNext

\* All marks of contracts are of one time, so the last one given is kept; and
\* what has been marked in an event is at the event's quote.
MarkedAtOne ==
  \A s \in Sessions, i \in Options : marks[s][i] # NoMark => marks[s][i].at = 1
AtTheQuote ==
  at \in {"MARKS", "ROUTE", "SUBMIT"} =>
    \A i \in ToMark \ unmarked : marks[session][i].price = LiquidationMark(i)

\* The mark of a contract is taken over as it is given.
LEMMA MarkIsTaken ==
  ASSUME TypeOK, MarkedAtOne, NEW i \in Instruments, NEW m \in Marks, RecordMarketMark(i, m),
         i \in Options => m.at = 1
  PROVE  /\ MarkedAtOne'
         /\ i \in Options => marks'[session'][i] = m
         /\ \A j \in Options \ {i} : marks'[session'][j] = marks[session][j]
         /\ UNCHANGED <<session, positions>>
<1>1. session \in Sessions /\ UNCHANGED <<session, positions>>
  BY DEF RecordMarketMark, Initialized, TypeOK
<1>2. marks' = [marks EXCEPT ![session] = [marks[session] EXCEPT ![i] = LatestMark(i, m)]]
  BY DEF RecordMarketMark
<1>3. i \in Options => LatestMark(i, m) = m
  BY <1>1, InputAssumption DEF LatestMark, MarkedAtOne
<1>4. Options \subseteq Instruments
  BY DomainAssumption
<1>5. /\ marks'[session] = [marks[session] EXCEPT ![i] = LatestMark(i, m)]
      /\ \A s \in Sessions \ {session} : marks'[s] = marks[s]
      /\ marks[session] \in [Instruments -> Marks \cup {NoMark}]
  BY <1>1, <1>2 DEF TypeOK
<1>6. /\ i \in Options => marks'[session][i] = m
      /\ \A j \in Options \ {i} : marks'[session][j] = marks[session][j]
  BY <1>3, <1>4, <1>5
<1>7. MarkedAtOne'
  <2>. SUFFICES ASSUME NEW s \in Sessions, NEW j \in Options, marks'[s][j] # NoMark
                PROVE  marks'[s][j].at = 1
    BY DEF MarkedAtOne
  <2>1. CASE s = session /\ j = i
    BY <1>6, <2>1
  <2>2. CASE s = session /\ j # i
    BY <1>1, <1>6, <2>2 DEF MarkedAtOne
  <2>3. CASE s # session
    BY <1>5, <2>3 DEF MarkedAtOne
  <2>. QED  BY <2>1, <2>2, <2>3
<1>. QED  BY <1>1, <1>6, <1>7

\* What is to be marked depends on the positions and the chain alone.
LEMMA ToMarkKept ==
  ASSUME UNCHANGED <<positions, chain>>
  PROVE  ToMark' = ToMark /\ \A i : LiquidationMark(i)' = LiquidationMark(i)
  BY DEF ToMark, LiquidationMark, OpenHoldings, Lot

LEMMA AtTheQuoteStep ==
  TypeOK /\ ReplayInv /\ MarkedAtOne /\ AtTheQuote /\ [ReplayNext]_<<vars, replay>>
    => MarkedAtOne' /\ AtTheQuote'
<1>. SUFFICES ASSUME TypeOK, ReplayInv, MarkedAtOne, AtTheQuote, [ReplayNext]_<<vars, replay>>
              PROVE  MarkedAtOne' /\ AtTheQuote'
  OBVIOUS
<1>1. CASE /\ UNCHANGED <<session, marks, positions, chain>> /\ unmarked \subseteq unmarked'
           /\ at' \in {"MARKS", "ROUTE", "SUBMIT"} => at \in {"MARKS", "ROUTE", "SUBMIT"}
  BY <1>1, ToMarkKept DEF MarkedAtOne, AtTheQuote
<1>2. CASE UNCHANGED marks /\ at' \notin {"MARKS", "ROUTE", "SUBMIT"}
  BY <1>2 DEF MarkedAtOne, AtTheQuote
<1>3. ASSUME NEW s \in Sessions, StartSession(s) PROVE MarkedAtOne' /\ AtTheQuote'
  BY <1>3, <1>2 DEF StartSession, InitializeSession
<1>4. CASE ArmSession
  BY <1>4, <1>2 DEF ArmSession, Arm, vars
<1>5. ASSUME NEW s, NEW quoted, NEW h, TakeEvent(s, quoted, h)
      PROVE  MarkedAtOne' /\ AtTheQuote'
  BY <1>5, <1>2 DEF TakeEvent, vars
<1>6. CASE MarkUnderlying
  <2>1. PICK s \in symbol : RecordMarketMark(Underlying[s], UnderlyingMark)
    BY <1>6 DEF MarkUnderlying
  <2>2. Underlying[s] \in Instruments \ Options /\ UnderlyingMark \in Marks
    BY ReplayAssumption DEF ReplayInv, ReplayTypeOK
  <2>3. MarkedAtOne' /\ UNCHANGED positions
    BY <2>1, <2>2, MarkIsTaken
  <2>4. unmarked' = ToMark /\ UNCHANGED chain
    BY <1>6 DEF MarkUnderlying
  <2>5. ToMark' \ unmarked' = {}
    BY <2>3, <2>4, ToMarkKept
  <2>. QED  BY <2>3, <2>5 DEF AtTheQuote
<1>7. ASSUME NEW i \in Options, MarkPosition(i) PROVE MarkedAtOne' /\ AtTheQuote'
  <2>. DEFINE m == [price |-> LiquidationMark(i), at |-> 1]
  <2>1. i \in Instruments /\ m.at = 1 /\ m.price = LiquidationMark(i)
    BY DomainAssumption
  <2>2. m \in Marks
    BY <1>7, QuotedSideIsMark DEF MarkPosition, ReplayInv, Flow, LiquidationMark, Markable
  <2>3. /\ RecordMarketMark(i, m) /\ at = "MARKS"
        /\ unmarked' = unmarked \ {i} /\ UNCHANGED <<at, chain>>
    BY <1>7 DEF MarkPosition
  <2>. HIDE DEF m
  <2>4. /\ MarkedAtOne' /\ UNCHANGED <<session, positions>>
        /\ marks'[session'][i] = m
        /\ \A j \in Options \ {i} : marks'[session'][j] = marks[session][j]
    BY <2>1, <2>2, <2>3, MarkIsTaken
  <2>5. ToMark' = ToMark /\ \A j : LiquidationMark(j)' = LiquidationMark(j)
    BY <2>3, <2>4, ToMarkKept
  <2>6. ASSUME NEW j \in ToMark' \ unmarked' PROVE marks'[session'][j].price = LiquidationMark(j)'
    <3>1. j \in Options
      BY <2>5 DEF ToMark
    <3>2. CASE j = i
      BY <2>1, <2>4, <2>5, <3>2
    <3>3. CASE j # i
      <4>1. j \in ToMark \ unmarked
        BY <2>3, <2>5, <3>3
      <4>2. marks[session][j].price = LiquidationMark(j)
        BY <2>3, <4>1 DEF AtTheQuote
      <4>. QED  BY <2>4, <2>5, <3>1, <3>3, <4>2
    <3>. QED  BY <3>2, <3>3
  <2>. QED  BY <2>4, <2>6 DEF AtTheQuote
<1>8. CASE NoBar \/ NotFilled \/ DuplicateRow \/ AccountFill \/ BuyFill \/ SellFill
  BY <1>8, <1>2 DEF NoBar, NotFilled, DuplicateRow, AccountFill, RecordFillAccounting, Idle,
     BuyFill, SellFill, governor, vars
<1>9. ASSUME NEW now \in Sides, OnBar(now) PROVE MarkedAtOne' /\ AtTheQuote'
  <2>1. at = "MARKS" /\ UNCHANGED vars
    BY <1>9 DEF OnBar
  <2>2. CASE Idle
    BY <1>2, <2>1, <2>2 DEF Idle, vars
  <2>3. CASE UNCHANGED event
    BY <1>1, <2>1, <2>3 DEF event, vars
  <2>. QED  BY <1>9, <2>2, <2>3 DEF OnBar
<1>10. CASE RouteSignal
  <2>1. at = "ROUTE" /\ UNCHANGED <<session, marks, positions>>
    BY <1>10 DEF RouteSignal, Evaluate
  <2>2. CASE Idle
    BY <1>2, <2>1, <2>2 DEF Idle
  <2>3. CASE UNCHANGED event
    BY <1>1, <2>1, <2>3 DEF event
  <2>. QED  BY <1>10, <2>2, <2>3 DEF RouteSignal
<1>11. CASE MarkFill
  <2>1. PICK f \in fill : RecordMarketMark(f.instrument, [price |-> f.price, at |-> 1])
    BY <1>11 DEF MarkFill
  <2>2. f.instrument \in Instruments /\ [price |-> f.price, at |-> 1] \in Marks
    BY DomainAssumption DEF ReplayInv, ReplayTypeOK, Flow, Markable
  <2>3. MarkedAtOne'
    BY <2>1, <2>2, MarkIsTaken
  <2>. QED  BY <1>11, <2>3 DEF MarkFill, AtTheQuote
<1>12. CASE UNCHANGED <<vars, replay>>
  BY <1>12, <1>1 DEF vars, replay, event
<1>. QED
  BY <1>3, <1>4, <1>5, <1>6, <1>7, <1>8, <1>9, <1>10, <1>11, <1>12 DEF ReplayNext

\* Wherever no fill is on its way, the governor judges by what the fills have
\* realized and what is held at its marks, and what an event quotes is at that
\* quote when the strategy decides: no fill and no mark is left out or counted
\* twice.
THEOREM NetStaysTrue == ReplaySpec => []NetIsTrue
<1>1. ReplayInit => Valuation /\ Booked /\ MarkedAtOne /\ AtTheQuote
  <2>. SUFFICES ASSUME ReplayInit PROVE Valuation /\ Booked /\ MarkedAtOne /\ AtTheQuote
    OBVIOUS
  <2>1. Valuation /\ Booked /\ AtTheQuote
    BY DEF ReplayInit, Init, Valuation, OpenHoldings, Flat, Booked, AtTheQuote
  <2>2. MarkedAtOne
    BY DomainAssumption DEF ReplayInit, Init, MarkedAtOne
  <2>. QED  BY <2>1, <2>2
<1>2. TypeOK /\ ReplayInv /\ Valuation /\ Booked /\ AtTheQuote /\ NetPnlConsistent => NetIsTrue
  <2>. SUFFICES ASSUME TypeOK, ReplayInv, Valuation, Booked, AtTheQuote, NetPnlConsistent, Settled
                PROVE  NetIsTrue
    BY DEF NetIsTrue
  <2>1. IsValued /\ earned = realized /\ fees = 0
    BY DEF Settled, Valuation, Booked
  <2>4. net = NetPnl(earned, Unrealized(marks[session]), 0)
    BY <2>1 DEF NetPnlConsistent, IsValued
  <2>. QED  BY <2>1, <2>4 DEF NetIsTrue, AtTheQuote, IsValued, Complete, MarkedAt
<1>. QED
  BY <1>1, <1>2, ValuationStep, BookedStep, AtTheQuoteStep, ReplayInvariant,
     ReplayImplementsGovernor, NetPnlIsConsistent, PTL DEF ReplaySpec, ImplementsGovernor
=============================================================================

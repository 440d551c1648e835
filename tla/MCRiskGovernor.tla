--------------------------- MODULE MCRiskGovernor ---------------------------
(***************************************************************************)
(* One instance of RiskGovernor for TLC, explored along three scenarios    *)
(* chosen at the start, whose state spaces add up instead of multiplying:  *)
(*   lifecycle  two sessions, big fills and entries; nothing is held        *)
(*   portfolio  one session; marks, small fills and the positions of two    *)
(*              instruments; no order intent                                *)
(*   decisions  one session, big fills, long and short positions of one     *)
(*              instrument, and every kind of order intent put to it        *)
(***************************************************************************)
EXTENDS RiskGovernor

CONSTANTS s1, s2, a1, i1, i2

VARIABLE scenario

MC_Sessions == {s1, s2}
MC_Accounts == {a1}
MC_Instruments == {i1, i2}
MC_Options == {i2}
MC_LossFloor == -2
MC_Multiplier == [i \in Instruments |-> IF i \in Options THEN 2 ELSE 1]

MC_Marks == [price : {1, 3}, at : {1, 2}]
MC_LongLots == {Flat, [qty |-> 1, avg |-> 2]}
MC_LongShort == {Flat, [qty |-> 2, avg |-> 1], [qty |-> -1, avg |-> 1]}
MC_Lots == MC_LongLots \cup MC_LongShort
MC_SmallFills == {[realized |-> -2, fees |-> 0], [realized |-> 2, fees |-> 1]}
MC_BigFills == {[realized |-> 3, fees |-> 0], [realized |-> -3, fees |-> 0]}
MC_Fills == MC_SmallFills \cup MC_BigFills

MC_Sane == [purpose : {"ENTRY", "STOP_LOSS", "EMERGENCY_EXIT"}, side : {"BUY", "SELL"},
            holding : {<<a1, i1>>}, qty : {1, 4}, sizing : {"QUANTITY"},
            price : {1}, quote : {"FRESH"}, registry : {"OK"}, cleared : {TRUE},
            capability : {"LONG_ONLY"}, cash : {4}]
MC_Odd ==
  UNION {{[r EXCEPT !.quote = "STALE"], [r EXCEPT !.quote = "INVALID"],
          [r EXCEPT !.registry = "UNRESOLVED"], [r EXCEPT !.registry = "BAD_CLEARANCE"],
          [r EXCEPT !.cleared = FALSE], [r EXCEPT !.capability = "ABSENT"],
          [r EXCEPT !.side = "SELL", !.capability = "SHORTABLE"], [r EXCEPT !.cash = 0],
          [r EXCEPT !.sizing = "NOTIONAL"]} :
           r \in {x \in MC_Sane : x.qty = 1 /\ (x.purpose = "ENTRY" <=> x.side = "BUY")}}
\* Entries on the option, for the lifecycle.
MC_Entries == {[r EXCEPT !.holding = <<a1, i2>>, !.sizing = sizing] :
                 r \in {x \in MC_Sane : x.purpose = "ENTRY" /\ x.side = "BUY"},
                 sizing \in {"QUANTITY", "NOTIONAL"}}
MC_Requests == MC_Sane \cup MC_Odd \cup MC_Entries

MCInit == Init /\ scenario \in {"lifecycle", "portfolio", "decisions"}

\* Next with the inputs of a scenario.
On(sessions, held, lots, observed, events, requests) ==
  \/ \E s \in sessions : InitializeSession(s)
  \/ Arm
  \/ HaltTrading
  \/ \E reported \in Reports : FlattenAll(reported) \/ ReconcileConfirmedPositions(reported)
  \/ \E e \in events, reported \in Reports : RecordFillAccounting(e, reported)
  \/ \E i \in Instruments, m \in observed : RecordMarketMark(i, m)
  \/ \E r \in requests : Evaluate(r)
  \/ \E h \in held, lot \in lots : PositionChanges(h, lot)

MCNext ==
  /\ UNCHANGED scenario
  /\ \/ /\ scenario = "lifecycle"
        /\ On(Sessions, {}, {}, {}, MC_BigFills, MC_Entries)
     \/ /\ scenario = "portfolio"
        /\ On({s1}, Holdings, MC_LongLots, MC_Marks, MC_SmallFills, {})
        /\ realized' \in -2..2 /\ fees' <= 2
     \/ /\ scenario = "decisions"
        /\ On({s1}, {<<a1, i1>>}, MC_LongShort, {}, MC_BigFills, MC_Requests \ MC_Entries)

MCSpec == MCInit /\ [][MCNext]_<<vars, scenario>>
===============================================================================

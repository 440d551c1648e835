-------------------------- MODULE MCReplaySession --------------------------
(***************************************************************************)
(* Instances of ReplaySession for TLC: one symbol whose chain has a call   *)
(* and a put, and two symbols with a call each.  The sets of lots, fills   *)
(* and requests are large enough for every one these tapes can produce.    *)
(***************************************************************************)
EXTENDS ReplaySession

MC_LossFloor == -2
MC_LowerFloor == -4
MC_Multiplier == [i \in Instruments |-> 1]
MC_Underlying == [s \in Symbols |-> s]

MC_Call == [TQQQ |-> "tcall", SQQQ |-> "scall"]
MC_Calls == [s \in Symbols |-> [CALL |-> {MC_Call[s]}, PUT |-> {}]]
MC_Both == [s \in Symbols |-> [CALL |-> {"call"}, PUT |-> {"put"}]]

\* Up and down by more than the exits' thresholds, with depth for one
\* contract or for all; a contract without a bid.
MC_Quotes ==
  {[bid |-> 2, ask |-> 2, depth |-> 1], [bid |-> 2, ask |-> 2, depth |-> 2],
   [bid |-> 1, ask |-> 2, depth |-> 2], [bid |-> 3, ask |-> 3, depth |-> 1],
   [bid |-> 1, ask |-> 1, depth |-> 0],
   [bid |-> 0, ask |-> 2, depth |-> 1]}

\* Fewer quotes, for longer tapes.
MC_FewQuotes ==
  {[bid |-> 2, ask |-> 2, depth |-> 2], [bid |-> 1, ask |-> 1, depth |-> 1],
   [bid |-> 3, ask |-> 3, depth |-> 0]}

MC_Marks == [price : {1, 2, 3}, at : {1}]
MC_Lots == [qty : 0..4, avg : 1..3]
MC_Fills == [realized : -4..4, fees : {0}]
MC_Requests ==
  [purpose : ExitPurposes \cup {"ENTRY"}, side : {"BUY", "SELL"}, holding : Holdings,
   qty : 1..4, sizing : {"QUANTITY"}, price : {1, 2, 3}, quote : {"FRESH"},
   registry : {"OK"}, cleared : {TRUE}, capability : {"LONG_ONLY"}, cash : {Cash}]
MC_Mark == [price |-> 1, at |-> 1]
=============================================================================

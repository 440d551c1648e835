---------------------------- MODULE MCPaperBroker ----------------------------
(***************************************************************************)
(* Instances of PaperBroker for TLC: a limit sell of fixed quantity, a     *)
(* limit buy and a market buy of fixed notional and an order the governor  *)
(* did not authorize, against a print, a quote without size, a quote with  *)
(* little size and a bar.                                                  *)
(***************************************************************************)
EXTENDS PaperBroker, TLC

CONSTANTS o1, o2, market, refused, e1, e2, e3, e4

MC_Order(side, type, limit, sizing, size) ==
  [side |-> side, type |-> type, limit |-> limit, sizing |-> sizing, size |-> size]
MC_Intent ==
  o1 :> MC_Order("SELL", "LIMIT", 3, "QUANTITY", 3)
    @@ o2 :> MC_Order("BUY", "LIMIT", 2, "NOTIONAL", 4)
    @@ market :> MC_Order("BUY", "MARKET", 2, "NOTIONAL", 60)
    @@ refused :> MC_Order("BUY", "MARKET", 2, "QUANTITY", 1)

MC_Evidence(tier, buy, sell, size) ==
  [tier |-> tier, ref |-> "BUY" :> buy @@ "SELL" :> sell, size |-> "BUY" :> size @@ "SELL" :> size]
MC_Quote ==
  e1 :> MC_Evidence("TRADE_HISTORY", 2, 2, 1)
    @@ e2 :> MC_Evidence("QUOTE_DEPTH", 4, 3, 0)
    @@ e3 :> MC_Evidence("QUOTE_DEPTH", 4, 3, 2)
    @@ e4 :> MC_Evidence("BAR_ONLY", 3, 3, 0)

===============================================================================

CONSTANTS
  o1 = o1
  o2 = o2
  market = market
  refused = refused
  e1 = e1
  e2 = e2
  e3 = e3
  e4 = e4
  Orders = {o1, o2, market, refused}
  Intent <- MC_Intent
  Authorized = {o1, o2, market}
  Snapshots = {e1, e2, e3, e4}
  Quote <- MC_Quote
  NoSnapshot = NoSnapshot
  Slippage = 1
  RejectIlliquid = TRUE
SPECIFICATION Spec
INVARIANT FilledOrderNeverCanceled
CHECK_DEADLOCK FALSE

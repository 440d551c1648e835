CONSTANTS
  o1 = o1
  o2 = o2
  market = market
  refused = refused
  e1 = e1
  e2 = e2
  e3 = e3
  e4 = e4
  Orders = {o1, o2, market, refused}
  Intent <- MC_Intent
  Authorized = {o1, o2, market}
  Snapshots = {e1, e2, e3, e4}
  Quote <- MC_Quote
  NoSnapshot = NoSnapshot
  Slippage = 1
  RejectIlliquid = TRUE
  near = near  far = far  later = later  thin = thin  put = put  unknown = unknown
  None = None
  Tapes <- MC_Tapes
  Streams = 2
  Calendar <- MC_Calendar
  PerMinute = 2
  Registry <- MC_Registry
SPECIFICATION MCSpec
INVARIANTS FillsAreDue TapeIsCausal
PROPERTIES StatusesAreTrue ImplementsVenue
CHECK_DEADLOCK FALSE

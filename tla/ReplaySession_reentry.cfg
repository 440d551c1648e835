SPECIFICATION ReplaySpec
CONSTANTS
  Sessions = {"day"}
  Accounts = {"paper"}
  Account = "paper"
  Symbols = {"TQQQ"}
  Instruments = {"TQQQ", "call", "put"}
  Options = {"call", "put"}
  Underlying <- MC_Underlying
  Contracts <- MC_Both
  Multiplier <- MC_Multiplier
  LossFloor <- MC_LossFloor
  ProfitLock = 2
  SeedCapital = 6
  Cash = 24
  NoSession = NoSession
  NoMark = NoMark
  Unquoted = Unquoted
  Marks <- MC_Marks
  UnderlyingMark <- MC_Mark
  Quotes <- MC_Quotes
  Lots <- MC_Lots
  FillEvents <- MC_Fills
  Requests <- MC_Requests
  MoneyBound = 12
  MaxFills = 4
INVARIANT ReentryNeverFails
CHECK_DEADLOCK FALSE

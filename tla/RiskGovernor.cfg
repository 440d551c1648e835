CONSTANTS
  s1 = s1
  s2 = s2
  a1 = a1
  i1 = i1
  i2 = i2
  Sessions <- MC_Sessions
  Accounts <- MC_Accounts
  Instruments <- MC_Instruments
  Options <- MC_Options
  Multiplier <- MC_Multiplier
  LossFloor <- MC_LossFloor
  ProfitLock = 3
  SeedCapital = 4
  NoSession = NoSession
  NoMark = NoMark
  Marks <- MC_Marks
  Lots <- MC_Lots
  FillEvents <- MC_Fills
  Requests <- MC_Requests
  MoneyBound = 3
SPECIFICATION MCSpec
INVARIANTS RecordsAgree LossBreachStops AuthorizedOrdersAreSafe
PROPERTIES ImplementsSwitch HaltsHold MarksNeverRegress

SPECIFICATION MCSpec
SYMMETRY MC_Symmetry
CONSTANTS
  acc1 = acc1  acc2 = acc2  c1 = c1  s1 = s1  s2 = s2  i1 = i1
  Sessions = {s1, s2}
  Accounts = {acc1, acc2}
  Last = 4
  Account <- MC_Account
  Profit <- MC_Profit
  Fee <- MC_Fee
  Evidence <- MC_Evidence
  Configs = {c1}
  Cent = 1
  ReservePct = 40
  TargetPct = 40
  MinimumSiphon = 4
  SeedFloor = 5
  MaxSiphons = 3
  Instruments = {i1}
  InstrumentOf <- MC_InstrumentOf
  Quotes <- MC_Quotes
  NoQuote = NoQuote
  Quantum = 1
  EffectiveMinimum = 2
  BrokerMinimum = 1
  Fees <- MC_Fees
  Reports <- MC_Reports
  Cells = {1, 2}
  ReplayDays = {1, 2, 3}
  Opens <- MC_Opens
  Closes <- MC_Closes
  Children = {2}
  ArmLists <- MC_ArmLists
  MaxRuns = 2
INVARIANTS CapitalTypeOK SiphonWithinMeans SpendingIsHeld PurchasesAreDue ProofFailsOnlyByLosses BirthSessionQuarantined
PROPERTIES AuditsNeverRewind
CHECK_DEADLOCK FALSE

CONSTANTS
  ann = ann
  ben = ben
  first = first
  second = second
  None = None
  Absent = Absent
  WINDOWS = {2, 3}
  Promotion <- MC_Promotion
  Demotion <- MC_Demotion
  Possible <- MC_Possible
  Histories <- MC_Histories
  MaxFacts = 14
  MaxEvaluations = 2
  MINIMUM_BENCHMARK = 2
  Callers <- MC_Callers
  Runs <- MC_Runs
  Datasets <- MC_Datasets
  FactSets <- MC_FactSets
  Evidences <- MC_Evidences
  Times <- MC_Times
  MinSessions = 4
  MinTrades = 8
  MinDays = 4
  MinOosSessions = 2
  alpha_cell = alpha_cell
  beta_cell = beta_cell
  AnyCell = AnyCell
  Researchers <- MC_Callers
  Closings = {1, 2, 3, 4}
  Closing <- MC_Closing
  CreatedAt <- MC_CreatedAt
  Thoughts <- MC_Thoughts
  Samples <- MC_Samples
  Unit = 2
  MaxStudies = 2
  Opportunities = {1, 2, 3, 4, 5, 6, 7}
  Opportunity <- MC_Opportunity
  Objections <- MC_Objections
  Windows <- MC_Windows
  Losses = {2, 6}
  LossLimit = 6
  SeedPrice = 2
  NoGenesis = NoGenesis
  MaxReplays = 2
  SPY = SPY
  Enrollers <- MC_Callers
  Contracts = {1, 2}
  Batches <- MC_Batches
  ForeignRows <- MC_ForeignRows
  MaxOutcomes = 2
  Symbols = {SPY}
  Block <- MC_Block
  ExpectedMinutes = 100
  DecisionPoints <- MC_Points
  Chains <- MC_Chains
  Envelope = {1, 2}
  Neighborhood = {1, 2}
  MaxManifests = 2
SPECIFICATION MCSpec
INVARIANTS TrustIsSteady AnswersHold StudiesAreSound EnrollmentHolds QualificationHolds
PROPERTIES PromotionNeedsCleanRecord WorldsPartAtVetoes
CHECK_DEADLOCK FALSE

CONSTANTS
  c1 = c1
  c2 = c2
  i1 = i1
  i2 = i2
  i3 = i3
  cpi = cpi
  speech = speech
  r1 = r1
  r2 = r2
  r3 = r3
  s1 = s1
  s2 = s2
  bob = bob
  eve = eve
  k1 = k1
  k2 = k2
  None = None
  Times <- MC_Times
  Cells <- MC_Cells
  Events <- MC_Events
  Evidences <- MC_Evidences
  Intents <- MC_Intents
  CellOf <- MC_CellOf
  Foreign <- MC_Foreign
  Buffer = 1
  MaxAssessments = 2
  Cases <- MC_Cases
  Analysts <- MC_Sessions
  Batches <- MC_Batches
  Sessions <- MC_Sessions
  Operators <- MC_Operators
  Research <- MC_Research
  Step5 <- MC_Step5
  Step55 <- MC_Step55
  MonthLength = 2
  MinVetoes = 2
  MinMonths = 2
  MinPrecision = 60
  Window = 0
  MaxEvents = 3
  MaxInterceptions = 1
SPECIFICATION MCSpec
INVARIANTS FindingsAreNumbered VerdictsFollowManifests AuthorityHolds GrantsRestOnEvidence
PROPERTIES RevocationSticks
CHECK_DEADLOCK FALSE

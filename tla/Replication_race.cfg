SPECIFICATION Spec
CONSTANTS
  s1 = s1  s2 = s2  c1 = c1  c2 = c2
  Sessions <- Two
  Codes <- BothCodes
  TakenCodes <- SecondCode
  Last = 2
  Amount <- UnevenPool
  Threshold = 2
  Seed = 2
  MaxTime = 3
  SharedTimestamps = FALSE
INVARIANTS PoolHolds ProposalsAreSettled
PROPERTIES EndsAreFinal ImplementsFunding
CHECK_DEADLOCK FALSE

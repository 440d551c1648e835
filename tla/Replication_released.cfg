SPECIFICATION Spec
CONSTANTS
  s1 = s1  s2 = s2  c1 = c1  c2 = c2
  Sessions <- One
  Codes <- FirstCode
  TakenCodes <- NoCodes
  Last = 2
  Amount <- UnevenPool
  Threshold = 2
  Seed = 2
  MaxTime = 3
  SharedTimestamps = TRUE
INVARIANT ReleasedCashNeverConsumed
CHECK_DEADLOCK FALSE

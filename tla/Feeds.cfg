SPECIFICATION FairSpec
CONSTANTS
  None = None
  Times <- MC_Times
  Pollers <- MC_Pollers
  Urls <- MC_Urls
  Plan <- MC_Plan
  Format <- MC_Format
  Bytes <- MC_Bytes
  Content <- MC_Content
  Rows <- MC_Rows
  Links <- MC_Links
  Max429Retries = 1
  MaxRestarts = 1
INVARIANTS EvidenceHolds ValidatorsStandForFacts
PROPERTIES RoundsEnd
CHECK_DEADLOCK FALSE

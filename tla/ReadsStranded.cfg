SPECIFICATION Spec
CONSTANTS
  m1 = m1
  m2 = m2
  None = None
  Parts = {"reads"}
  StoreSituations <- StorePass
  FeedSituations <- FeedPass
  Traffics <- TrafficPass
  Processes <- ProcessPass
  ReadSituations <- FourVoters
INVARIANT
  WaitingHasARound
CHECK_DEADLOCK FALSE

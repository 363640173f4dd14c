SPECIFICATION Spec
CONSTANTS
  m1 = m1
  m2 = m2
  None = None
  Parts = {"store", "feed", "client", "process", "reads", "recovery"}
  StoreSituations <- StorePass
  FeedSituations <- FeedPass
  Traffics <- TrafficPass
  Processes <- ProcessPass
  ReadSituations <- ReadPass
INVARIANTS StateIsCoherent     RunsOnlyReady  ReadIsFresh  RecoveredAlone KeepsTheProven
PROPERTY EntriesTellTheTruth
CHECK_DEADLOCK FALSE

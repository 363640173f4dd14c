SPECIFICATION LogAlone
CONSTANTS
  BatchWriter = TRUE
  MaxBatchEntries = 2
  MaxUnstable = 2
  CommitInterval = 0
  Threshold = 0
  Trailing = 0
  Installs = FALSE
  Failures = FALSE
  Delayed = FALSE
  MaxRequest = 1
  MaxTerm = 2
  MaxLog = 2
  MaxWrites = 5
  MaxStops = 1
INVARIANT DurableIsOnDisk
PROPERTIES ImplementsDurableLog StopKeepsTheLog WaitingIsAnswered
VIEW WithoutCommits

SPECIFICATION AnySnapshot
CONSTANTS
  BatchWriter = FALSE
  MaxBatchEntries = 2
  MaxUnstable = 0
  CommitInterval = 0
  Threshold = 0
  Trailing = 1
  Installs = FALSE
  Failures = FALSE
  Delayed = FALSE
  MaxRequest = 2
  MaxTerm = 2
  MaxLog = 2
  MaxWrites = 5
  MaxStops = 0
VIEW WithoutAcks
INVARIANTS  OnlyTheCommitted

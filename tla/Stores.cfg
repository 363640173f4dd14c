SPECIFICATION Spec
CONSTANTS
  g1 = g1
  g2 = g2
  FileSituations <- FilePass
  WalSituations <- WalPass
INVARIANTS FileSurvives RefusesOnlyTheUnsaved  CountsAreExact
CHECK_DEADLOCK FALSE

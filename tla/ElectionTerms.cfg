CONSTANTS
  a = a
  b = b
  c = c
  Node = {a, b}
  Voter = {a, b}
  Witness = {}
  None = None
  CommitPolicy = 0
  MaxTerm = 2
  MaxPending = 2
  MaxUpsets = 3
SPECIFICATION AnyGroup
INVARIANT SpokenTermIsDurable
\* The bounds on terms and upsets stop the group.
CHECK_DEADLOCK FALSE

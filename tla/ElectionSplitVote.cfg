CONSTANTS
  a = a
  b = b
  c = c
  Node = {a, b, c}
  Voter = {a, b, c}
  Witness = {}
  None = None
  CommitPolicy = 0
  MaxTerm = 1
  MaxPending = 1
  MaxUpsets = 3
SPECIFICATION OneGroup
SYMMETRY Symmetry
INVARIANTS OneVotePerTerm ElectionInv
PROPERTIES OneLeaderPerTerm
\* The bounds on terms and upsets stop the group.
CHECK_DEADLOCK FALSE

CONSTANTS
  a = a
  b = b
  c = c
  d = d
  e = e
  cmd = cmd
  Node = {a, b, c}
  Voter = {a, b, c}
  None = None
  Noop = Noop
  Command = {cmd}
  MaxTerm = 3
  MaxLog = 2
  Situations <- CatchUp
SPECIFICATION FairSpec
PROPERTY FollowersCatchUp
CHECK_DEADLOCK FALSE

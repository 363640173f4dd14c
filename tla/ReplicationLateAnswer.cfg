CONSTANTS
  a = a
  b = b
  c = c
  d = d
  e = e
  cmd = cmd
  Node = {a, b, c, d, e}
  Voter = {a, b, c, d, e}
  None = None
  Noop = Noop
  Command = {cmd}
  MaxTerm = 4
  MaxLog = 2
  Situations <- LateAnswer
SPECIFICATION Spec
INVARIANT LeaderCompleteness
CHECK_DEADLOCK FALSE

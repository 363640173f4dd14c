CONSTANTS
  a = a
  b = b
  c = c
  d = d
  e = e
  cmd = cmd
  Node = {a, b, c}
  Voter = {a, b, c}
  None = None
  Noop = Noop
  Command = {cmd}
  MaxTerm = 4
  MaxLog = 2
  Situations <- Safety
SPECIFICATION Spec
INVARIANTS CountedIsDurable LogMatching CommittedIsAgreed
PROPERTY CommittedPrefixIsFinal
CHECK_DEADLOCK FALSE

SPECIFICATION Spec
CONSTANTS
  a = a
  b = b
  c = c
  d = d
  Nodes = {a, b, c, d}
  Situations <- Pass
INVARIANTS   ChangesInOrder 
CHECK_DEADLOCK FALSE

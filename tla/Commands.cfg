SPECIFICATION Spec
CONSTANTS
  c = c
  d = d
  Situations <- Pass
VIEW WithoutRefusals
INVARIANTS    AnswersAreOwn AnswersAreOnTheirWay
CHECK_DEADLOCK FALSE

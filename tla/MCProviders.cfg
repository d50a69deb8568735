SPECIFICATION Spec
CONSTANTS
  Workers = {w1, w2}
  Audiences = {o1, o2}
  NoToken = NoToken
  Life = 3
  Margin = 1
  Delay = 1
  MaxTokens = 3
  MaxTime = 4
INVARIANT RefusedIsDiscarded
INVARIANT RightAudience
INVARIANT JustVerdicts
PROPERTY BearerInTime
SYMMETRY MCSymmetry
CHECK_DEADLOCK FALSE

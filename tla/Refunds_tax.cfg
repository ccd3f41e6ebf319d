SPECIFICATION Spec
CONSTANTS
  Requests = {q1, q2}
  Runs = {w1, w2}
  Amount = 2
  Tax = 1
INVARIANT AllowedIsLeft

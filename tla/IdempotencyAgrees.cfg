SPECIFICATION Spec
CONSTANTS
  Requests = {q1, q2}
  Bodies = {b1, b2}
  None = None
INVARIANT EveryCallerAgrees

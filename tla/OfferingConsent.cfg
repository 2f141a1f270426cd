SPECIFICATION Spec
CONSTANTS
  Keys = {k1, k2}
  Requests = {q1, q2, q3}
  Amounts = {1, 2}
  Target = 2
  MaxPurchases = 1
  MaxChanges = 1
SYMMETRY Symmetry
INVARIANT ReconfirmationsFollowTheLastReset
CHECK_DEADLOCK FALSE

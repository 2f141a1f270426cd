SPECIFICATION Spec
CONSTANTS
  Contributors = {c1, c2}
  Runs = {r1, r2}
  MaxReservers = 1
  MaxFailures = 2
SYMMETRY Symmetry
INVARIANT SweptCampaignIsMinted
CHECK_DEADLOCK FALSE

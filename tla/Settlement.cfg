SPECIFICATION SettlementSpec
CONSTANTS
  Accounts = {a1}
  Addresses = {w1, w2}
  Runs = {r1, r2}
  Scans = {s1, s2}
  Depth = 1
  Overlap = 1
  MaxRange = 2
  IndexLag = 1
  MaxBlock = 4
  None = None
  Contributors = {c1, c2}
  MaxReservers = 1
  MaxFailures = 1
  Tokens = {p1, p2}
  Investors = {i1, i2}
  Funds = 3
  Target = 2
  Deadline = 1
  Extensions = {2}
  MaxTime = 2
  Periods = {jan, feb}
  Positions = {h1, h2}
  Gross = {15}
  Units = {3, 5}
  Micros = 4
  Cent = 2
SYMMETRY Symmetry
INVARIANT TypesOK
INVARIANT MintedAtMostOnce
INVARIANT PositionsAreMinted
INVARIANT SweptAfterMints
INVARIANT EveryEuroIsAccounted
INVARIANT ScannedBlocksAreSettled
INVARIANT NeverOverdistributed
CHECK_DEADLOCK FALSE

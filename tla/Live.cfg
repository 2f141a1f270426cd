SPECIFICATION LiveSpec
CONSTANTS
  Contributors = {c1, c2}
  Runs = {r1}
  MaxReservers = 0
  MaxFailures = 1
  Keys = {k1, k2}
  Requests = {q1, q2}
  Amounts = {1}
  Target = 2
  MaxPurchases = 1
  MaxChanges = 1
  Callers = {x1}
  Reviewers = {s1, s2}
  NoOne = NoOne
  MaxRequests = 1
  MaxCorrections = 1
  MaxNotes = 0
  Workers = {w1, w2}
  MaxAttempts = 2
  Interval = 1
  WindowEnd = 2
PROPERTY UnfundedHoldsEnd
PROPERTY PublishedOfferingsFinalize
PROPERTY ContributorsAreRecorded
PROPERTY OverdueRequestsEnd
PROPERTY HandoffsAreDone
PROPERTY NoticesReachEveryone
CHECK_DEADLOCK FALSE

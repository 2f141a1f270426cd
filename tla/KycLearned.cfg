SPECIFICATION FairSpec
CONSTANTS
  SupportedCountries <- Supported
  ReviewedMonths = 1
  CleanMonths = 2
  FreshMonths = 3
  AdultYears = 1
  Workers = {w1}
  Declarations <- HomeOnly
  Decisions <- CleanOnly
  StuckAfter = 1
  MaxStarts = 1
  MaxEvents = 2
  MaxTime = 3
CHECK_DEADLOCK FALSE
PROPERTY SessionsAreLearned

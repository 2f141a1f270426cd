SPECIFICATION OnboardingSpec
CONSTANTS
  Callers = {c1, c2}
  Staff = {s1, s2}
  NoOne = NoOne
  MaxRequests = 2
  MaxCorrections = 2
  MaxNotes = 1
  SupportedCountries <- Supported
  ReviewedMonths = 1
  CleanMonths = 2
  FreshMonths = 3
  AdultYears = 1
  Declarations <- HomeOrAbroad
  KycDecisions <- CleanOrScreened
  StuckAfter = 1
  MaxStarts = 2
  MaxEvents = 2
  MaxTime = 3
  Documents = {d1, d2}
  MaxPhotos = 1
SYMMETRY Symmetry
VIEW View
INVARIANT TypesOK
INVARIANT OneCorrectionInFlight
INVARIANT RequestsMatchTheStage
INVARIANT StructuringIsEarned
INVARIANT ReadinessMatchesTheCase
INVARIANT EligibilityMatchesSubstatus
INVARIANT PhotosAreCountedAndStored
PROPERTY CorrectionsUndoTheLatest
PROPERTY ImplementsFace
PROPERTY EligibilityIsEarnedOnce
PROPERTY LateStartsAttachNothing
CHECK_DEADLOCK FALSE

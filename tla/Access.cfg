SPECIFICATION AccessSpec
CONSTANTS
  Phones = {p1, p2}
  Challenges = {c1, c2}
  Requests = {r1, r2}
  CustomerCalls = {r1, r2}
  StaffCalls = {r1, r2}
  NoOne = None
  NoSession = None
  SessionIds = {1, 2}
  None = None
  ChallengeTtl = 1
  InsertDeadline = 1
  InsertLimit = 1
  ReplayWindow = 2
  MaxTime = 4
  Staff = {r1, r2}
  Customer = customer
  MaxCases = 2
  MaxClosures = 1
  CustomerSessions = {x1}
  CodeTtl = 2
  Cooldown = 2
  RequestWindow = 2
  MaxRequests = 2
  MaxCodes = 2
  MaxPhones = 2
  LastCodeTime = 2
  MaxAttempts = 1
  MaxMisses = 1
  People = {p1, p2}
  MaxInvitations = 2
  MaxGrants = 1
  StaffSessions = {p1, p2}
  StaffChallenges = {t1, t2, t3}
  Keys = {k1}
  Counterless = {}
  Recoveries = {v1}
  MaxCounter = 3
  IdleTimeout = 2
  Lifetime = 3
  FreshWindow = 2
  LastMoment = 5
  Bodies = {b1, b2}
SYMMETRY Symmetry
CONSTRAINT Within
INVARIANT TypesOK
INVARIANT OneSessionPerPhone
INVARIANT EnrolmentsLeaveNoOrphan
INVARIANT CodesReplaceOnce
INVARIANT InvitationsGrantOnce
INVARIANT SessionsEndOnTime
PROPERTY ExpiredIsFinal
PROPERTY StatusChangesAreDecided
PROPERTY CredentialsAdvance
CHECK_DEADLOCK FALSE

SPECIFICATION IdentitySpec
CONSTANTS
  Logins = {l1}
  TransactionTtl = 2
  IdleTtl = 2
  AbsoluteTtl = 3
  None = none
  MaxCallbacks = 2
  MaxRequests = 4
  MaxFaults = 1
  MaxTime = 5
  k1 = k1
  k2 = k2
  t1 = t1
  t2 = t2
  e1 = e1
  e2 = e2
  s1 = s1
  s2 = s2
  Keys = {k1, k2}
  First = k1
  Tokens <- Bearers
  Asks = {r1, r2}
  Ttl = 2
  Tolerance = 1
  Never = 99
  KeyTime = 3
  Clients = {a, b}
  Window = 2
  Max = 2
  LimitTime = 3
  MaxRestarts = 1
  Tenants = {t1, t2}
  Emails = {e1, e2}
  Subjects = {s1, s2}
  Inputs <- Given
  Commands = {o1, o2, o3}
  MaxCommandFaults = 1
SYMMETRY Symmetric
CHECK_DEADLOCK FALSE
INVARIANTS
  TypesOK
  TransactionIsSpent
  LifetimeIsBinding
  LogoutUndoneByOverlap
  RenewableUnlessDisturbed
  CopyFollowsIssuer
  LimitHolds
  OneToOne
  MeetingIsAnswered

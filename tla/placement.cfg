SPECIFICATION Spec
CONSTANTS
  tap1 = tap1  tap2 = tap2  stale = stale  other = other
  s1 = s1  s2 = s2  s3 = s3  alice = alice  bob = bob  v1 = v1  v2 = v2  court = court
  Requests = {tap1, tap2, stale, other}
  KeyOf <- Keys
  SessionOf <- TheirSessions
  CallerOf <- TheirTokens
  StallOf <- TheirStalls
  CourtOf <- OneCourt
  Sessions = {s1, s2, s3}
  Customers = {alice, bob}
  Stalls = {v1, v2}
  Courts = {court}
  Nobody = Nobody
  IdentityMode = "otp"
  NoOrder = NoOrder
  Free = Free
  MaxNumber = 2
  MaxDay = 1
CHECK_DEADLOCK FALSE
INVARIANTS NumberIsFree OrderIsTheirs
PROPERTY OnlyOpenStalls

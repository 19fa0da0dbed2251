SPECIFICATION Spec
CONSTANTS
  Clients <- JwtClients
  First24 <- JwtFirst24
  TrustedProxies <- MCProxies
  PerMinute = 2
  MinuteWindow = 3
  Burst = 1
  BurstWindow = 1
  MaxBuckets = 2
  MaxRequests = 3
  MaxTime = 4
INVARIANT RefusedForOwnLoad
CHECK_DEADLOCK FALSE

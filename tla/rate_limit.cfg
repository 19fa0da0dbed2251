SPECIFICATION Spec
CONSTANTS
  Clients <- MCClients
  First24 <- MCFirst24
  TrustedProxies <- MCProxies
  PerMinute = 2
  MinuteWindow = 3
  Burst = 1
  BurstWindow = 1
  MaxBuckets = 2
  MaxRequests = 6
  MaxTime = 4
INVARIANTS
  TypeOK
  BucketsBounded
  LimitsKept
  RefusedForOwnLoad
CHECK_DEADLOCK FALSE

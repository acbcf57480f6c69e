CONSTANTS
  NoRoute = NoRoute
  Messages = {m1, m2}
  Recovered = {m1}
  Routes = {r1}
  Slots = 1
  RateLimit = 1
  Window = 1
  BatchSize = 2
  Schedule <- MCSchedule
  Lifetime = 1
  RetryDelay = 1
  MaxRequeues = 1
SPECIFICATION FairSpec
INVARIANTS
  LeaseAccounted
  SentOnce
  TokenPerSend
  WakeNotLost
  DueByExpiry
PROPERTIES
  Drains
  Stops

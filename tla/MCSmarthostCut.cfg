CONSTANTS
  w1 = w1
  w2 = w2
  Workers = {w1}
  NoWorker = NoWorker
  Skew = 1
  Cooldown = 2
  Lives = {3}
  MaxTime = 1
  Routes <- LoaderRoutes
  NRcpts = 1
  MaxTries = 2
SPECIFICATION Spec
CHECK_DEADLOCK FALSE
INVARIANT NoNeedlessCopy

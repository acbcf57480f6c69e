CONSTANTS
  w1 = w1
  w2 = w2
  Workers = {w1, w2}
  NoWorker = NoWorker
  Skew = 1
  Cooldown = 2
  Lives = {1, 2}
  MaxTime = 3
  Routes <- LoaderRoutes
  NRcpts = 2
  MaxTries = 3
SYMMETRY Alike
SPECIFICATION Spec
CHECK_DEADLOCK FALSE
INVARIANT RecipientsSettled
PROPERTIES
  HandsOff
  TokenHonest

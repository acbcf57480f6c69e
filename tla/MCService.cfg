CONSTANTS
  c1 = c1
  c2 = c2
  c3 = c3
  Origins = {c1, c2, c3}
  Notified = {c1, c2}
  NoOrigin = NoOrigin
  MaxPending = 1
  MaxPerHour = 1
  Hour = 1
  Items = {"certificate", "secret"}
  Deadline <- MCDeadline
  WarnWindow = 2
  Resend = 2
  Contact = TRUE
  Plain = {}
  HTTP = {"web"}
  MaxFails = 2
  MaxTime = 2
SPECIFICATION Spec
CHECK_DEADLOCK FALSE
INVARIANTS
  FailuresAccounted
  BudgetHonest
  ShutdownOrder
PROPERTIES
  WarningsPaced
  Exits

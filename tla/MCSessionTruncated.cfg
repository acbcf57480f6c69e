CONSTANTS
  a = a
  b = b
  x = x
  r1 = r1
  r2 = r2
  NoRoute = NoRoute
  Conns = {c1}
  Recipients = {a, b, x}
  RouteOf <- MCRouteOf
  StartTLS = TRUE
  RequireTLS = FALSE
  MaxRecipients = 3
  MaxData = 1
SPECIFICATION Spec
CHECK_DEADLOCK FALSE
INVARIANT
  CompleteOnly

CONSTANTS
  c1 = c1
  c2 = c2
  c3 = c3
  k1 = k1
  k2 = k2
  NoConn = NoConn
  Servers = {1}
  Conns = {c1, c2, c3}
  KeyOf <- MCKeyOf
  Limit <- MCLimit
  MaxConnections = 2
SPECIFICATION Spec
CHECK_DEADLOCK FALSE
INVARIANTS
  PlacesAccounted
  NoneAfterWait
  NoneStuck
PROPERTY Closes

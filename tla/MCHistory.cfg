CONSTANTS
  Ids = {m1}
  NoId = NoId
  NoRow = NoRow
  Workers = {w1, w2}
  Operators = {o1, o2}
  MaxRows = 5
  MaxFaults = 1
SPECIFICATION Spec
SYMMETRY Symmetry
INVARIANTS
  SummaryAgrees
  ActiveIsLive
PROPERTY DeleteClears

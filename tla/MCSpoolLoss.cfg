CONSTANTS
  Ids = {m1}
  NoId = NoId
  Committers = {c1}
  Workers = {w1}
  Operators = {o1}
  Sweepers = {s1}
  MaxFaults = 0
SPECIFICATION Spec
INVARIANT
  NothingLost

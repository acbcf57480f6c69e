CONSTANTS
  Ids = {m1}
  NoId = NoId
  Committers = {c1}
  Workers = {w1, w2}
  Operators = {o1, o2}
  Sweepers = {s1}
  MaxFaults = 2
SPECIFICATION Spec
SYMMETRY Symmetry
INVARIANTS
  LeaseExclusive
  RecoverySafe
  IndexBacked
  NoResurrection
  DiscardErases
  NothingStranded
PROPERTIES
  BodyKept
  KeepsCustody

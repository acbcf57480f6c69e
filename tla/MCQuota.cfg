CONSTANTS
  Messages = {m1, m2, m3, m4, m5}
  Sizes = {1, 2}
  Header = 1
  MaxBytes = 3
  Sessions = 2
  Movers = 1
  MaxRequeues = 1
SPECIFICATION Spec
SYMMETRY Symmetry
INVARIANTS
  LedgerExact
  OvershootBounded

CONSTANTS
  AddrBits = 2
  Kinds <- MCKinds
  Written <- MCWritten
  MaxWarnDays = 30
  MaxSpoolGB = 10
  Envelopes <- MCEnvelopes
  RcptLists <- MCRcptLists
  Blocks <- MCBlocks
SPECIFICATION PolicySpec
CHECK_DEADLOCK FALSE
INVARIANTS
  AcceptedIsUsable
  RoutedByRule
  RewriteHonest

SPECIFICATION RedemptionSpec
CONSTANTS
  u1 = u1
  r1 = r1
  q1 = q1
  q2 = q2
  o1 = o1
  o2 = o2
  h1 = h1
  Account <- MCAccount
  Ref <- MCOneRef
  Seq <- MCTwoSeqs
  Amounts <- MCOneAmount
  Reserves <- MCReserves
  Requesters <- MCTwoRequesters
  Operators <- MCTwoOperators
  Holders <- MCHolders
  Ttl = 1
  LedgerDelta = 1
  Delta = 2
  LedgerClockRuns = TRUE
  MaxTime = 2
  Lossy = TRUE
  MaxDrops = 1
INVARIANTS
  RedemptionInv
  RowsMatchEscrows
PROPERTIES
  ReclaimHonoursDelta
  EscrowedIsHeld
  RequestedOnce
SYMMETRY CallSymmetry
CHECK_DEADLOCK FALSE

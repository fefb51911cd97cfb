SPECIFICATION SettlementSpec
CONSTANTS
  u1 = u1
  u2 = u2
  r1 = r1
  h1 = h1
  q1 = q1
  o1 = o1
  d1 = d1
  Sweep = sweep
  Nobody = nobody
  Account <- MCTwoAccounts
  Ref <- MCOneRef
  Seq <- MCOneSeq
  Amounts <- MCOneAmount
  Reserves <- MCReserves
  Handlers <- MCHandlers
  Attestors <- MCNoAttestors
  Requesters <- MCRequesters
  Operators <- MCOperators
  Holders <- MCHolders
  Ttl = 0
  LedgerDelta = 0
  Delta = 1
  LedgerClockRuns = TRUE
  MaxTime = 1
  Lossy = FALSE
  MaxCrashes = 1
  MaxDrops = 0
INVARIANTS
  UnderflowIsMissedMint
  EveryAccountBalances
PROPERTIES
  DriftIsExplained
SYMMETRY AccountSymmetry
CHECK_DEADLOCK FALSE

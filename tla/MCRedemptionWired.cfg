SPECIFICATION FairRedemptionSpec
CONSTANTS
  u1 = u1
  r1 = r1
  q1 = q1
  q2 = q2
  o1 = o1
  o2 = o2
  h1 = h1
  Account <- MCAccount
  Ref <- MCOneRef
  Seq <- MCOneSeq
  Amounts <- MCOneAmount
  Reserves <- MCReserves
  Requesters <- MCOneRequester
  Operators <- MCOneOperator
  Holders <- MCHolders
  Ttl = 1
  LedgerDelta = 1
  Delta = 1
  LedgerClockRuns = TRUE
  MaxTime = 1
  Lossy = FALSE
  MaxDrops = 1
PROPERTIES
  QueuedIsWired
CHECK_DEADLOCK FALSE

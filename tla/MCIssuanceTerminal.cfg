SPECIFICATION IssuanceSpec
CONSTANTS
  w1 = w1
  r1 = r1
  r2 = r2
  h1 = h1
  h2 = h2
  a1 = a1
  a2 = a2
  Sweep = sweep
  Nobody = nobody
  Account <- MCAccount
  Ref <- MCOneRef
  Seq <- MCSeq
  Amounts <- MCOneAmount
  Reserves <- MCReserves
  Handlers <- MCOneHandler
  Attestors <- MCOneAttestor
  Ttl = 0
  LedgerDelta = 1
  LedgerClockRuns = TRUE
  MaxTime = 1
  Lossy = FALSE
  MaxCrashes = 0
PROPERTIES
  IssuedIsTerminal
CHECK_DEADLOCK FALSE

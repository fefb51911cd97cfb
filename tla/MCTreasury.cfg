SPECIFICATION TreasurySpec
CONSTANTS
  u1 = u1
  u2 = u2
  r1 = r1
  r2 = r2
  Account <- MCAccount
  Ref <- MCRef
  Seq <- MCSeq
  Amounts <- MCAmounts
  Reserves <- MCReserves
  Ttl = 1
  LedgerDelta = 1
  LedgerClockRuns = TRUE
  MaxTime = 2
INVARIANTS
  TreasuryTypeOK
  Conservation
PROPERTIES
  BurnIsFinal
  MintWithinCeiling
  SupplyMovesWithRecord
CHECK_DEADLOCK FALSE

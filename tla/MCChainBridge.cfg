SPECIFICATION FairBridgeSpec
CONSTANTS
  c1 = c1
  c2 = c2
  c3 = c3
  r1 = r1
  r2 = r2
  k1 = k1
  Calls <- MCTwoCalls
  Mints <- MCNone
  Burns <- MCOneBurn
  Figures <- MCOneFigure
  Nothing = nothing
  Signed = TRUE
  EnvelopeAge = 1
  ConfirmTimeout = 2
  MaxSubmits = 1
  MaxTime = 3
INVARIANTS
  BridgeInv
  OneTransaction
  ConfirmedIsLanded
  FailedIsSettled
PROPERTIES
  AnsweredIsHeard
  LateNeverStarts
  KeepsPromise
  CallsReturn
CHECK_DEADLOCK FALSE

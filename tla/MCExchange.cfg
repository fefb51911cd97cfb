\* Every ledger: u64 is 15, a whole GRX 4 atoms and 5 basis points the whole.
SPECIFICATION ExchangeSpec
CONSTANTS
  MaxU64 = 15
  MaxU128 = 255
  AtomsPerWhole = 4
  BpsWhole = 5
  Rates <- mcRates
  FeeBps <- mcFeeBps
  Amounts <- mcAmounts
  Levels <- mcLevels
  Ledgers = {"simulated", "bridge", "unaddressed"}
  MaxMoves = 2
INVARIANTS
  ExchangeInv
  QuoteIsExact
  PlatformNeverLoses
  RoundTripNeverGains
  AnswerWasTrue

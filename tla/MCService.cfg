SPECIFICATION FairServiceSpec
CONSTANTS
  shared = shared
  own = own
  Urls <- MCUrls
  NoUrl = NoUrl
  Shared = shared
  Seconds <- MCSeconds
  Raws <- MCRaws
  Upper <- MCUpper
  Blank = " "
  MaxHeard = 2
INVARIANTS
  
  OneRowPerTransfer
PROPERTIES
  NothingPretended
  SweepsGoOn
CHECK_DEADLOCK FALSE

SPECIFICATION Spec
CONSTANTS
  restAccount = restAccount
  davAccount = davAccount
  Accounts <- Both
  DavAccounts <- DavOnly
  MaxDay = 2
  MaxSyncs = 2
  MaxEvents = 2
INVARIANTS
  PartialBlocks
  OncePerDay
  CountedWhole
CHECK_DEADLOCK FALSE

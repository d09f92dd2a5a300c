SPECIFICATION FairSpec
CONSTANTS
  restAccount = restAccount
  davAccount = davAccount
  Accounts <- One
  DavAccounts <- NoDav
  MaxDay = 2
  MaxSyncs = 2
  MaxEvents = 2
PROPERTIES
  
  StaleWithdrawn
CHECK_DEADLOCK FALSE

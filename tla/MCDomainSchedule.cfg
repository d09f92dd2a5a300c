SPECIFICATION Spec
CONSTANTS
  uiEngine = uiEngine
  workerEngine = workerEngine
  uiCall = uiCall
  workerCall = workerCall
  account = account
  Engines <- BothEngines
  Workers <- OnlyWorker
  Accounts <- OneAccount
  Calls <- TwoCalls
  EngineOf <- CallEngine
  AccountOf <- CallAccount
  Triggers = {"foreground", "localMutation"}
  Staleness = 1
  Interval = 1
  Jitters = {0}
  Retries = {1, 2}
  MaxClock = 2
  MaxBack = 1
  MaxFailures = 2
INVARIANTS
  PermitOwnedOnce
  OneInside
  NoLeaseLeftBehind
PROPERTIES
  CooldownHeld
  OneWindow
CHECK_DEADLOCK FALSE

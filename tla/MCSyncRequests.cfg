SPECIFICATION FairSpec
CONSTANTS
  Accounts = {work, home}
  Nobody = Nobody
  Scheduler = Scheduler
  MaxEdits = 2
  MaxChanges = 3
  MaxRuns = 1
INVARIANTS
  NoForgottenEdit
  AvailabilityCurrent
PROPERTIES
  EveryEditAttempted
CHECK_DEADLOCK FALSE

SPECIFICATION FairSpec
CONSTANTS
  o1 = o1
  o2 = o2
  o3 = o3
  o4 = o4
  o5 = o5
  a1 = a1
  a2 = a2
  NoOp = NoOp
  Ops <- MCOps
  Accounts <- MCAccounts
  AccountOf <- MCAccountOf
INVARIANTS
  MutualExclusion
  RunningWhileActive
PROPERTIES
  FirstComeFirstServed
  EveryCallLeaves
  ImplementsFifoLock
CHECK_DEADLOCK FALSE

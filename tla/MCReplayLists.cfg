SPECIFICATION FairSpec
CONSTANTS
  parentTask = parentTask
  childTask = childTask
  theList = theList
  uiEngine = uiEngine
  workerEngine = workerEngine
  NoItem = NoItem
  Tasks <- Single
  Lists <- OneList
  ListOf <- InList
  ParentOf <- UnderParent
  KnownItems <- NoTask
  Kinds <- FillKinds
  Replayers <- OneReplayer
  Ui = uiEngine
  UncertainAnswers = {"lost", "error5xx"}
  MaxOps = 3
  MaxCrashes = 1
ACTION_CONSTRAINTS
  KilledAtRequest
INVARIANTS
  CompletedOnce
PROPERTIES
  BarrierOrder
  EveryEditSettles
CHECK_DEADLOCK FALSE

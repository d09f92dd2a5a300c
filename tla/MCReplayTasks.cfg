SPECIFICATION Spec
CONSTANTS
  parentTask = parentTask
  childTask = childTask
  theList = theList
  uiEngine = uiEngine
  workerEngine = workerEngine
  NoItem = NoItem
  Tasks <- Family
  Lists <- OneList
  ListOf <- InList
  ParentOf <- UnderParent
  KnownItems <- ListKnown
  Kinds <- TaskEditKinds
  Replayers <- OneReplayer
  Ui = uiEngine
  UncertainAnswers = {"lost", "error408", "error5xx"}
  MaxOps = 3
  MaxCrashes = 1
ACTION_CONSTRAINTS
  RenamedFirst
INVARIANTS
  CreatedOnce
  NoOrphanRow
  NoSilentLoss
PROPERTIES
  GivenUpStays
  BarrierOrder
  TaskOrder
CHECK_DEADLOCK FALSE

SPECIFICATION OverlapSpec
CONSTANTS
  parentTask = parentTask
  childTask = childTask
  theList = theList
  uiEngine = uiEngine
  workerEngine = workerEngine
  NoItem = NoItem
  Tasks <- Single
  Lists <- OneList
  ListOf <- InList
  ParentOf <- UnderParent
  KnownItems <- NoTask
  Kinds <- MakeKinds
  Replayers <- TwoReplayers
  Ui = uiEngine
  UncertainAnswers = {"lost"}
  MaxOps = 2
  MaxCrashes = 0
INVARIANTS
  CreatedOnce
CHECK_DEADLOCK FALSE

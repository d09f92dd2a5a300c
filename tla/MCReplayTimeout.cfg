SPECIFICATION Spec
CONSTANTS
  parentTask = parentTask
  childTask = childTask
  theList = theList
  uiEngine = uiEngine
  workerEngine = workerEngine
  NoItem = NoItem
  Tasks <- Single
  Lists <- OneList
  ListOf <- InList
  ParentOf <- UnderParent
  KnownItems <- EverythingKnown
  Kinds <- EditKinds
  Replayers <- OneReplayer
  Ui = uiEngine
  UncertainAnswers = {"lost", "error408", "error5xx"}
  MaxOps = 1
  MaxCrashes = 1
INVARIANTS
  CompletedOnce
CHECK_DEADLOCK FALSE

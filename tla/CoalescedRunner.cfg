SPECIFICATION FairSpec
CONSTANTS
  onEdit = onEdit
  onVisible = onVisible
  onRefresh = onRefresh
  onInit = onInit
  Caller <- MCCaller
INVARIANTS
  TypeOK
  NoOverlap
PROPERTIES
  ImplementsCoveringRuns
  EveryTriggerCovered
  ReleasedOnceQuiet

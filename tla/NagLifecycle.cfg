SPECIFICATION Spec
CONSTANTS
  Null = Null
  Floor = 2
  pill = pill
  walk = walk
  Job = {pill, walk}
  Profile <- TwoTasks
  Period <- Repeating
  Deltas <- BackAndForth
  Dates <- DateOrNone
  SnoozeTicks = 2
  PerTaskCap = 2
  Budget = 3
  MaxDelay = 3
  MaxTime = 4
  MaxSnoozes = 1
  MaxEdits = 2
INVARIANTS
  SilentWhenOff
  NothingBeforeItsTime
  RearmLosesNothing
  CapPerSchedule
CHECK_DEADLOCK FALSE

SPECIFICATION Spec
CONSTANTS
  Null = Null
  Floor = 2
  pill = pill
  walk = walk
  Job = {pill}
  Profile <- OneProfile
  Period <- OneOff
  Deltas <- BackAndForth
  Dates <- NoDates
  SnoozeTicks = 2
  PerTaskCap = 2
  Budget = 4
  MaxDelay = 3
  MaxTime = 6
  MaxSnoozes = 1
  MaxEdits = 0
INVARIANTS
  LifetimeCap
CHECK_DEADLOCK FALSE

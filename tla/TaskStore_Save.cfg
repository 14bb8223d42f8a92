SPECIFICATION StoreSpec
CONSTANTS
  tap = tap
  action = action
  Slot = {tap, action}
  Lines = {milk}
  Others <- MCOthers
  Undated = Undated
  None = None
  Now = 1
  LastDate = 2
  SnoozeFor = 1
  Period = 1
  Deltas <- MCDeltas
  MaxCalls = 1
  MaxSyncs = 1
  MaxSnoozes = 2
  MaxChanges = 1
PROPERTIES
  SaveKeepsTheRest
CHECK_DEADLOCK FALSE

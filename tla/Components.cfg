SPECIFICATION MCSpec
CONSTANTS
  Null = Null
  Floor = 2
  walkDog = walkDog
  takePill = takePill
  callMum = callMum
  Inputs <- MCInputs
  Rows = {milk, post}
  MaxKills = 3
  tap = tap
  action = action
  Slot = {tap, action}
  Lines = {eggs}
  Others <- MCOthers
  Undated = Undated
  None = None
  Now = 1
  LastDate = 2
  SnoozeFor = 1
  Period = 1
  Deltas <- MCDeltas
  MaxCalls = 2
  MaxSyncs = 1
  MaxSnoozes = 2
  MaxChanges = 1
  FirstYear = 2023
  LastYear = 2030
  Spring = 3931920
  Autumn = 5746320
  Moments <- MCMoments
  Fires <- MCFires
  MaxTurns = 3
  MaxMoves = 1
  Today = 10
  PickDates = {6, 31, 490}
  ClocksBack = 480
  MaxEdits = 2
  Packs = {"classic", "drill"}
  Odd = Odd
  Found <- MCFound
  MaxTweaks = 2
  MaxRelists = 1
  MaxEnds = 1
  Keys <- MCKeys
  CheckOf <- MCCheckOf
  Snapshots <- MCSnapshots
  Absent = Absent
  Unread = Unread
  MaxSlips = 2
  ask = ask
  askAgain = askAgain
  Asking = {ask, askAgain}
  MaxAsks = 2
  MaxFires = 1
  NewTones = {"gentle", "savage"}
  Rewritten = Rewritten
  Free = Free
SYMMETRY Interchangeable
INVARIANTS
  TypeOK
  WithinBudget
  ServesWishesInOrder
  SnoozesSpendTheCap
  WalkBounded
  RowsSurvive
  BootKeepsRows
  StoreTypeOK
  RepeatsMarchOn
  DrawersMeanDates
  PreviewIsPlan
  UntouchedSaveKeeps
  SettingsInForce
  NothingMisread
  NoWaiterCutOff
PROPERTIES
  NoResurrection
  UndatedIsBare
  ToneNeverSoftens
CHECK_DEADLOCK FALSE

SPECIFICATION FairSpec
CONSTANTS
  None = None
  morning = morning
  evening = evening
  Db <- Rows
  Knobs <- Caps
  DefaultKnobs = 1
  Id <- Slots
  Content <- Times
  PlanOf <- Plans
  Call = {a, b}
  MaxChanges = 1
  MaxFaults = 1
INVARIANTS
  TypeOK
  SettledMatches
PROPERTIES
  ChangeIsArmed

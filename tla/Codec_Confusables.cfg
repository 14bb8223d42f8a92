SPECIFICATION CodecSpec
CONSTANTS
  Keys <- MCKeys
  CheckOf <- MCCheckOf
  Snapshots <- MCSnapshots
  Absent = Absent
  Unread = Unread
  MaxSlips = 1
INVARIANTS
  FormsDoNotMatter
CHECK_DEADLOCK FALSE

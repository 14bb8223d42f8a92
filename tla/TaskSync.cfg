SPECIFICATION Spec
CONSTANTS
  phone = phone
  tab = tab
  phoneStore = phoneStore
  webStore = webStore
  Client = {phone, tab}
  Store <- MCStore
  StoreOf <- MCStoreOf
  Web <- MCWeb
  Task = {t1, t2}
  Skew <- WebAhead
  SameMillisecond = FALSE
  MaxEdits = 2
  MaxFaults = 1
INVARIANTS
  TypeOK
  NewestEditKept

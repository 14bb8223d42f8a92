SPECIFICATION FairSpec
CONSTANTS
  phone = phone
  tab = tab
  phoneStore = phoneStore
  webStore = webStore
  Client = {phone, tab}
  Store <- MCStore
  StoreOf <- MCStoreOf
  Web <- MCWeb
  Task = {t1}
  Skew <- InStep
  SameMillisecond = FALSE
  MaxEdits = 3
  MaxFaults = 0
PROPERTIES
  NewestEverywhere
  EditReachesMirror

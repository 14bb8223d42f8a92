CONSTANTS
  phone = phone
  browser = browser
  p1 = p1
  b1 = b1
  b2 = b2
  v1 = v1
  v2 = v2
  w1 = w1
  w2 = w2
  t1 = t1
  t2 = t2
  NoVault = NoVault
  NoFile = NoFile
  Device <- TwoDevices
  Browser <- OneBrowser
  Panel <- SecondTab
  Home <- HomeOfTabs
  VaultId = {v1, v2}
  Passphrase = {w1}
  Task = {t1, t2}
  MayDamage = TRUE
  MaxSeq = 2
  MaxStarts = 5
  MaxEdits = 1
  MaxFaults = 1
SYMMETRY Alike
SPECIFICATION Spec
INVARIANTS
  TypeOK
  NeverAcceptsOlder
  SealedOnce
  MarkBelongs
  NothingFromDamaged
PROPERTIES
  ImportedIsHeld
CHECK_DEADLOCK FALSE

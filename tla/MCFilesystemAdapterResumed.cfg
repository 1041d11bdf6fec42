CONSTANTS
  t1 = t1
  t2 = t2
  h1 = h1
  h2 = h2
  fileA = fileA
  fileB = fileB
  old = old
  new = new
  other = other
  Absent = Absent
  Nothing = Nothing
  Transactions = {t1, t2}
  IntentOf <- OneIntent
  WritesOf <- WriteOne
  PathOrder <- TwoPaths
  Contents = {old, new, other}
  InitialFiles <- OneFile
  ForeignContents = {old, other}
  MaxForeign = 2
  MaxCorruption = 0
  MaxFaults = 1
  MaxCrashes = 0
SPECIFICATION Spec
PROPERTY
  ReceiptIsTrue
CHECK_DEADLOCK FALSE

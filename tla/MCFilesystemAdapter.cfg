CONSTANTS
  t1 = t1
  t2 = t2
  h1 = h1
  h2 = h2
  fileA = fileA
  fileB = fileB
  old = old
  new = new
  other = other
  Absent = Absent
  Nothing = Nothing
  Transactions = {t1, t2}
  IntentOf <- TwoIntents
  WritesOf <- WriteOneEach
  PathOrder <- TwoPaths
  Contents = {old, new, other}
  InitialFiles <- OneFile
  ForeignContents = {other}
  MaxForeign = 0
  MaxCorruption = 0
  MaxFaults = 0
  MaxCrashes = 0
SPECIFICATION Spec
PROPERTY
  CommitWritesOnlyTheIntent
CHECK_DEADLOCK FALSE

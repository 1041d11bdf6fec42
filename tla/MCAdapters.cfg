CONSTANTS
  Adapters = {a1, a2}
  Names = {mock, filesystem}
  Operations = {reversible, irreversible}
  NONE = NONE
  t1 = t1
  t2 = t2
  h1 = h1
  h2 = h2
  fileA = fileA
  fileB = fileB
  old = old
  new = new
  other = other
  Absent = Absent
  Nothing = Nothing
  Transactions = {t1, t2}
  IntentOf <- OneIntent
  WritesOf <- WriteBoth
  PathOrder <- TwoPaths
  Contents = {old, new, other}
  InitialFiles <- OneFile
  ForeignContents = {other}
  MaxForeign = 1
  MaxCorruption = 0
  MaxFaults = 2
  MaxCrashes = 1
  Callers = {t1, t2}
  Intents = {h1, h2}
  Keys = {fileA, fileB}
  Values = {old, new}
  HashOf <- TwoIntents
  ValuesOf <- OneSharesWithBoth
  Vacant = Vacant
  NoEntry = NoEntry
  ForeignValue = old
  MaxVersion = 4
  MaxDamage = 1
SPECIFICATION MCSpec
INVARIANTS
  ResolvedIsAsAuthorized
  MutationIsJournaled
  NothingIsLost
  ReconcileIsTruthful
PROPERTIES
  ReceiptIsWhole
  RollbackRestores
  StaleIsBooked
  RefinesAtomicWorkspace
  MockRefinesAtomicWorkspace
CHECK_DEADLOCK FALSE

CONSTANTS
  t1 = t1
  t2 = t2
  t3 = t3
  h1 = h1
  h2 = h2
  Transactions <- TwoTransactions
  Intents = {h1}
  Runs <- TwoTransactions
  ReceiptIds <- TwoTransactions
  IntentOf <- SameIntent
  RunOf <- OwnRun
  Faults = {}
  MaxDrift = 1
  MaxCrashes = 0
  MaxVersion = 12
  MaxEvents = 14
SPECIFICATION Spec
INVARIANT
  VersionMismatchEndsStale
CHECK_DEADLOCK FALSE

CONSTANTS
  t1 = t1
  t2 = t2
  t3 = t3
  h1 = h1
  h2 = h2
  Transactions <- ThreeTransactions
  Intents = {h1}
  Runs <- ThreeTransactions
  ReceiptIds <- ThreeTransactions
  IntentOf <- SameIntent
  RunOf <- OwnRun
  Faults = {"lost_ack"}
  MaxDrift = 0
  MaxCrashes = 1
  MaxVersion = 12
  MaxEvents = 14
SPECIFICATION Spec
SYMMETRY Symmetry
INVARIANTS
  SupersessionIsAChain
  TakeoverIsLinked
CHECK_DEADLOCK FALSE

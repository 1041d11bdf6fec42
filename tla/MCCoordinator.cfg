CONSTANTS
  t1 = t1
  t2 = t2
  t3 = t3
  h1 = h1
  h2 = h2
  Transactions <- TwoTransactions
  Intents = {h1}
  Runs <- TwoTransactions
  ReceiptIds <- TwoTransactions
  IntentOf <- SameIntent
  RunOf <- OwnRun
  Faults = {"adapter", "cancel", "lost_ack", "unclean", "abort", "journal"}
  MaxDrift = 1
  MaxCrashes = 1
  MaxVersion = 12
  MaxEvents = 14
SPECIFICATION Spec
SYMMETRY Symmetry
INVARIANTS
  TypeOK
  NoTransitionRefused
  EffectsAreAdmitted
  AtMostOneEffectPerIntent
  ReceiptsAreTruthful
  ActiveMeansOwner
  CleanEndLeavesNoStage
PROPERTY
  RefinesEffectOutcome
CHECK_DEADLOCK FALSE

CONSTANTS
  t1 = t1
  t2 = t2
  h1 = h1
  r1 = r1
  k1 = k1
  Transactions = {t1, t2}
  Intents = {h1}
  Runs = {r1}
  ReceiptIds = {k1}
  MaxVersion = 2
  MaxEvents = 4
  s1 = s1
  s2 = s2
  cap1 = cap1
  cap2 = cap2
  cap3 = cap3
  alice = alice
  bob = bob
  write = write
  tree = tree
  file = file
  star = star
  WrongType = WrongType
  Services = {s1, s2}
  GrantsOf <- TwoViews
  Capabilities = {cap1, cap2, cap3}
  Requests <- Asked
  Durable = TRUE
  MaxTime = 2
  MaxChecks = 3
  MaxFailures = 1
  Rules <- SomeRules
  Conditions <- SomeConditions
  Contexts <- SomeContexts
  Defaults = {"DENY", "ABSTAIN"}
  ALLOWED_MODES = {"read", "stage", "commit_reversible"}
  TrustClasses = {"USER", "MODEL_GENERATED", "UNKNOWN"}
  RiskClasses = {"R1", "R2"}
  MaxDepth = 2
  MaxRules = 3
SPECIFICATION MCSpec
SYMMETRY Symmetry
INVARIANTS
  JTypeOK
  LogReplaysToTable
  OneLiveOwner
  BudgetHolds
  NoUseIsLost
  DenialIsExhaustive
  DecisionIsDenyDominant
PROPERTIES
  HistoryIsFinal
  UncertainOwnerKeepsIntent
CHECK_DEADLOCK FALSE

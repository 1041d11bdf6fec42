CONSTANTS
  network_none = network_none
  read_only_root = read_only_root
  memory_limited = memory_limited
  NoReport = NoReport
  Controls <- ThreeControls
  Faults <- EveryFault
  MaxRuns = 2
  GrantChoices <- TwoGrants
  PolicyChoices <- TwoPolicies
  MaxMeddling = 2
  FrozenRows <- TwoRows
  AppendedRows <- OneAppended
  LaterIds = {"USR-02"}
  Tombstones <- FourTombstones
  HandEdits = TRUE
  MaxEdits = 3
  MaxCrashes = 1
SPECIFICATION MCSpec
INVARIANTS
  MatchedMeansFaithful
  NothingRunsUncontained
  LeftoversAreExplained
  ValidatedIsOfOneBuild
PROPERTIES
  JudgedBeforeCarriedOut
  CommitsAppend
CHECK_DEADLOCK FALSE

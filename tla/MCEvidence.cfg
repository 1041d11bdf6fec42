CONSTANTS
  NONE = NONE
  Payloads = {p, q}
  Signatures = {s}
  MaxEvents = 3
  MaxEdits = 1
  Processes = {p1, p2, p3}
  Contents = {c1, c2}
  Absent = Absent
  Partial = Partial
  Rotten = Rotten
  MaxFaults = 3
  Openers = {o1, o2}
  Programs <- ThreeReleases
  NoRow = NoRow
  MaxOpens = 3
SPECIFICATION MCSpec
INVARIANTS
  FinalHashPinsHistory
  StoredIsAvailable
  RefusalHasACause
CHECK_DEADLOCK FALSE

CONSTANTS
  None = None
  Path = {"a", "b", "c"}
  BaseOf <- MCBaseOf
  UnitOf <- MCUnitOf
  MaxEdits = 3
  MaxMerges = 2
  MaxPlans = 2
SPECIFICATION MergeSpec
INVARIANTS FailsWhole UnitNotDropped
CONSTRAINT Plain
CHECK_DEADLOCK FALSE

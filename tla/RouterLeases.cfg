CONSTANTS
  Requests = {r1, r2}
  Capacity = 1
  Budget = 2
  Amount = 1
  Charges <- MCCharges
  NoOne = NoOne
  Attempts = 2
  MaxCrashes = 1
SYMMETRY Symmetry
SPECIFICATION Spec
INVARIANTS
  CapacityHonoured
  LeasesAreConsistent
  CallsAreCovered
  BilledOnce
  BudgetRespected
CHECK_DEADLOCK FALSE

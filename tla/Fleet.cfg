SPECIFICATION MCSpec
CONSTANTS
  Parts = {"fleet", "evidence", "missed", "daily", "report", "jobs", "pilot", "runner"}
  JobKeys = {j1, j2}
  Slots = {s1}
  MaxEnrollments = 2
  MaxTime = 9
  Ceiling = 1
  Bound = 1
SYMMETRY JobSymmetry
INVARIANTS
  CountedOnce
  ClaimsEarned
PROPERTIES
  RegistrySound
CHECK_DEADLOCK FALSE

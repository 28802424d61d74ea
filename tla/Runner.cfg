SPECIFICATION MCSpec
CONSTANTS
  Parts = {"lock", "direct", "release", "parity", "gate", "accounting", "grants", "lifetime", "unarmed", "call", "install", "queue"}
  Small = FALSE
  Current = {p1, p2, p3, p4}
  Legacy = {old1, old2}
  Nobody = Nobody
  Operators = {"p1"}
  MaxVm = 2
  MaxOps = 2
  InterruptMayTimeOut = FALSE
  Runs = {"r1"}
  Jobs = {"j1", "j2"}
  Gated = {"j1"}
  Interval = 2
  MaxPolls = 2
  MaxAttempts = 3
  MaxRenewals = 1
  MaxFails = 1
  MayRelease = TRUE
  MaxTime = 3
  MaxVms = 2
  MaxStarts = 2
  MaxBytes = 1
  Lifetime = 2
  MaxRuntime = 2
  JobAndMargin = 1
  Addresses = {"A", "B"}
  ClockStep = 500
  PollIntervalMs = 3000
INVARIANTS
  Exclusive
  HolderIsReachable
  NoJobCutShort
  ChargedInFull
  TakenForTrue
PROPERTIES
  GrantsHold
  StepsAreSafe
CHECK_DEADLOCK FALSE

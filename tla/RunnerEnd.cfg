SPECIFICATION MCFairSpec
CONSTANTS
  Parts = {"direct", "release", "queue", "hung", "call", "install"}
  Small = TRUE
  Current = {p1}
  Legacy = {}
  Nobody = Nobody
  Operators = {"p1"}
  MaxVm = 1
  MaxOps = 1
  InterruptMayTimeOut = TRUE
  Runs = {"r1"}
  Jobs = {"j1", "j2"}
  Gated = {"j1"}
  Interval = 2
  MaxPolls = 2
  MaxAttempts = 2
  MaxRenewals = 0
  MaxFails = 1
  MayRelease = TRUE
  MaxTime = 3
  MaxVms = 2
  MaxStarts = 2
  MaxBytes = 1
  Lifetime = 2
  MaxRuntime = 2
  JobAndMargin = 1
  Addresses = {"A"}
  ClockStep = 1000
  PollIntervalMs = 3000
PROPERTIES
  WorkEnds
CHECK_DEADLOCK FALSE

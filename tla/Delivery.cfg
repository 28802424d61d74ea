SPECIFICATION MCSpec
CONSTANTS
  Parts = {"agent", "classifier", "reads", "guard", "savings", "reruns", "nightly", "retries", "lanes", "supersede", "window", "target"}
  MaxSnapshots = 2
  MaxManual = 1
  MaxFaults = 1
INVARIANTS
  OneRelease
  SkippedWasTested
  DecidedOnEvidence
PROPERTIES
  ReportNeverOlder
  GuardKeepsWorkflow
CHECK_DEADLOCK FALSE

SPECIFICATION MCFairSpec
CONSTANTS
  Parts = {"agent", "reads", "judged"}
  MaxSnapshots = 1
  MaxManual = 0
  MaxFaults = 1
PROPERTIES
  NewsArrives
CHECK_DEADLOCK FALSE

SPECIFICATION MCFairSpec
CONSTANTS
  Parts = {"inference", "enrichment", "evaluation", "publication", "pair"}
  Changes = {"expire"}
  Edits = {"r1", "r2"}
  Batch = 3
  Nemotron = {3}
  Auths = {"a1", "a2"}
  MaxRuns = 2
  MaxPosts = 2
  Qualities = {1, 2}
  MaxFaults = 1
  Lifetimes = {0, 12, 24, 25, 1020}
  Windows = {24, 1020}
  Ages = {168, 169}
  StartCounts = {0, 4, 600, 601}
  Runtimes = {6, 7, 150, 151}
  Ceilings = {15, 50, 400, 401}
  Committed = {4000, 4001}
  ComputeRates = {1}
  AddressRates = {0}
  DiskRates = {1, 4}
  Retentions = {12, 24, 1020}
  Spells = {6, 18, 144, 876}
  Dirs = {d1}
  Permits = {p1}
  WithoutPermit = WithoutPermit
PROPERTIES
  OutcomesSettle
CHECK_DEADLOCK FALSE

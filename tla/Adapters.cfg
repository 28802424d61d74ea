SPECIFICATION MCSpec
CONSTANTS
  Parts = {"journal", "reads", "pages", "inventory", "operations"}
  MaxWrites = 4
  Synced = TRUE
  PowerFails = TRUE
  MaxId = 2
  MaxListings = 4
INVARIANTS
  NeverTorn
  ReturnedIsDurable
  NebiusActedOn
PROPERTIES
  Atomic
  GitHubReadTruly
CHECK_DEADLOCK FALSE

SPECIFICATION Spec
CONSTANTS
  Docs = {wan, lan}
  MaxBundles = 2
  MaxSyncs = 2
  MaxResets = 1
  MaxCrashes = 1
SYMMETRY Symmetry
INVARIANTS TypeOK RootHonest Persisted UpgradeRefetches
CHECK_DEADLOCK FALSE

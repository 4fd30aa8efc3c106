SPECIFICATION Spec
CONSTANTS
  Docs = {"wan", "lan"}
  Root = "root"
  SuppDocs = {}
  ScalarDocs = {}
  UnsupportedDocs = {}
  Bundles <- OneBundle
  TransIds = {t1}
  FailCodes = {192, 611}
  MaxRetry = 2
  MaxSync = 1
  MaxFaults = 3
INVARIANTS
  TypeOK
  RootMeansApplied
  RetryBounded
  NoneForgotten
CHECK_DEADLOCK FALSE

SPECIFICATION Spec
CONSTANTS
  Docs = {"wan", "lan", "tele"}
  Root = "root"
  SuppDocs = {"tele"}
  ScalarDocs = {"lan"}
  UnsupportedDocs = {"wan"}
  Bundles <- MixedBundles
  TransIds = {t1}
  FailCodes = {204, 400}
  MaxRetry = 2
  MaxSync = 3
  MaxFaults = 1
INVARIANTS
  DBTruth
  SuccessRecorded
  SavedWhenDone
  NoneForgotten
CHECK_DEADLOCK FALSE

SPECIFICATION Spec
CONSTANTS
  Docs = {"wan", "lan", "tele"}
  Root = "root"
  SuppDocs = {"tele"}
  ScalarDocs = {}
  UnsupportedDocs = {}
  Bundles <- BlobBundles
  TransIds = {t1, t2}
  FailCodes = {192}
  MaxRetry = 2
  MaxSync = 2
  MaxFaults = 1
SYMMETRY TransSymmetry
INVARIANTS
  SuccessRecorded
  RootFollows
  NewDocsAreSent
  NoneForgotten
PROPERTY StaleNeverRecorded
CHECK_DEADLOCK FALSE

SPECIFICATION FairSpec
CONSTANTS
  Docs = {"wan", "lan"}
  Root = "root"
  SuppDocs = {}
  ScalarDocs = {}
  UnsupportedDocs = {}
  Bundles <- OneBundle
  TransIds = {t1}
  FailCodes = {192}
  MaxRetry = 2
  MaxSync = 1
  MaxFaults = 2
PROPERTY AllSettle
CHECK_DEADLOCK FALSE

SPECIFICATION FairSpec
CONSTANTS
  Docs = {"root", "telemetry"}
  SuppDocs = {"telemetry"}
  Sources = {"rbus"}
  StoreResults = {TRUE}
  MaxRequests = 2
  MaxToggles = 2
PROPERTY PostponedServed
CHECK_DEADLOCK FALSE

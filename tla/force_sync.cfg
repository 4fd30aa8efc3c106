SPECIFICATION Spec
CONSTANTS
  Docs = {"root", "telemetry"}
  SuppDocs = {"telemetry"}
  Sources = {"rbus", "wan"}
  StoreResults = {TRUE, FALSE}
  MaxRequests = 2
  MaxToggles = 1
INVARIANTS TypeOK NoneLost SyncIsTheRequest ShutdownNoticed
CHECK_DEADLOCK FALSE

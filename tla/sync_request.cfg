SPECIFICATION FairSpec
CONSTANTS
  Docs = {"wan"}
  MaxSyncs = 2
  MaxVersion = 1
  MaxExpiries = 1
INVARIANTS TypeOK ToldOnce FreshToken
PROPERTIES NeverNoneAgain SyncEnds
CHECK_DEADLOCK FALSE

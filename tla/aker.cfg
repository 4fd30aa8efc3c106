SPECIFICATION FairSpec
CONSTANTS
  Checks = 2
  Failures = 2
  MaxDocs = 2
  MaxAsked = 2
INVARIANTS TypeOK AckMeansApplied NoneForgotten
PROPERTY MainReturns
CHECK_DEADLOCK FALSE

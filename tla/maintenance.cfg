SPECIFICATION Spec
CONSTANTS
  Day = 6
  RetryAfter = 2
  Start = 5
  End = 3
  DefaultStart = 1
  DefaultEnd = 3
  MaxNow = 20
  MaxForced = 2
  MaxFailures = 2
INVARIANT TypeOK
PROPERTY OncePerDay
CHECK_DEADLOCK FALSE

SPECIFICATION FairSpec
CONSTANTS
  MaxMessages = 3
  MaxToggles = 3
INVARIANTS TypeOK NoLostWakeup FreedAlone
PROPERTIES NotifyBoxSpec EventBoxSpec ShutdownEnds
CHECK_DEADLOCK FALSE

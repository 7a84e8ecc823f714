SPECIFICATION MCSpec
CONSTANTS
  MaxNidIndex = 1027
  AskedTypes <- Asked
  AskedNids <- Registered
  MaxTaken = 24
INVARIANTS TypeOK NoIndexSkipped
PROPERTIES ImplementsService
CHECK_DEADLOCK FALSE

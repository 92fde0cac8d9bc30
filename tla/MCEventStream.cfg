SPECIFICATION FairSpec
CONSTANTS
  MaxEvents = 5
  MaxFailures = 4
  ReplayLimit = 2
  PageSize = 2
INVARIANT NoEventSkipped
INVARIANT QuietMeansCaughtUp
PROPERTY EveryEventIsHandled
PROPERTY ImplementsOrderedDelivery
CHECK_DEADLOCK FALSE

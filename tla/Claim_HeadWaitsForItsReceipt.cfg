SPECIFICATION FairSpec
CONSTANTS
  MaxMessage = 2
  Interrupt = {}
  Important = {1, 2}
  MaxTroubles = 1
PROPERTIES
  HeadWaitsForItsReceipt
CHECK_DEADLOCK FALSE

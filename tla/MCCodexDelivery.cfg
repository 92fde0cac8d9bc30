SPECIFICATION FairSpec
CONSTANTS
  MaxMessage = 2
  Interrupt = {1}
  Important = {2}
  MaxTroubles = 2
INVARIANTS
  SurfacedAtMostOnce
  ReceiptMeansSurfaced
  ExposedIsCheckpointed
  NothingIsForgotten
  RetiredEpochIsQuiet
PROPERTIES
  EveryMessageIsSettled
CHECK_DEADLOCK FALSE

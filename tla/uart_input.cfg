SPECIFICATION FairSpec
CONSTANTS
  Capacity = 2
  FifoSize = 2
  Characters = 4
INVARIANTS
  TypeOK InOrder Accounted OverrunsAreReported BreakIsRemembered
PROPERTIES
  ImplementsQueue FifoIsDrained

\* A character read together with a Ctrl-C.
SPECIFICATION FairSpec
CONSTANTS
  Capacity = 2
  FifoSize = 2
  Characters = 4
INVARIANT NothingIsSwallowed

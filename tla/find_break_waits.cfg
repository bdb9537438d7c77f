\* A Ctrl-C while read_char waits.
SPECIFICATION FairSpec
CONSTANTS
  Capacity = 2
  FifoSize = 2
  Characters = 4
PROPERTY ReadReturnsBreak

\* One import of a project that was exported, nothing else happening.
CONSTANTS
  MaxWorkspace = 5
  MaxData = 3
  PairMax = 4
  HostLimits <- MCHostLimits
  GuestLimits <- MCGuestLimits
  LineLength = 2
  LineCount = 2
  MetadataMax = 20
  Programs <- MCPrograms
  Files <- MCExported
  ChunkMax = 4
  MetaChunk = 4
  HostMetadata = 14
  BufferSize = 14
  Typed <- MCTyped
  Runs = 1
  Events = 0
SPECIFICATION FairSpec
CHECK_DEADLOCK FALSE
PROPERTY ProjectImportEnds

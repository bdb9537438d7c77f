\* An export over a line that a user has begun.
CONSTANTS
  MaxWorkspace = 5
  MaxData = 3
  PairMax = 4
  HostLimits <- MCHostLimits
  GuestLimits <- MCGuestLimits
  LineLength = 2
  LineCount = 2
  MetadataMax = 20
  Programs <- MCPrograms
  Files <- MCFiles
  ChunkMax = 4
  MetaChunk = 4
  HostMetadata = 14
  BufferSize = 14
  Typed <- MCTyped
  Runs = 1
  Events = 3
SPECIFICATION FairSpec
CHECK_DEADLOCK FALSE
PROPERTY ExportIsFaithful

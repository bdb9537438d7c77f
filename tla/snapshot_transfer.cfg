\* Two runs of the tool, lines typed before or between them, a broken connection.
CONSTANTS
  MaxWorkspace = 5
  MaxData = 3
  PairMax = 4
  HostLimits <- MCHostLimits
  GuestLimits <- MCGuestLimits
  LineLength = 2
  LineCount = 2
  MetadataMax = 20
  Programs <- MCPrograms
  Files <- MCFiles
  ChunkMax = 4
  MetaChunk = 4
  HostMetadata = 14
  BufferSize = 14
  Typed <- MCTyped
  Runs = 2
  Events = 2
SPECIFICATION FairSpec
CHECK_DEADLOCK FALSE
INVARIANT TypeOK
PROPERTIES ExportedIsLive RestoresTheFile ImportedIsLive ToolEnds

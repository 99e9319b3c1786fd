SPECIFICATION MediaFilesSpec
CONSTANTS
  Parts <- MCParts
  Users = {u1, u2}
  FrameBytes = {2, 7}
  BufSize = 4
  HeaderLen = 3
  LenMod = 12
  MaxAccepted = 14
  Channels = {1, 2}
  Lengths <- MCLengths
  Rates <- MCRates
  Den = 4
  BufBytes = 8
  FrameSamples = 3
  FmtSizes = {14, 16, 18}
  DataSizes = {0, 3, 4}
  OtherSizes = {0, 3, 4}
  Formats <- MCFormats
  MaxChunks = 4
  PreSkips = {0, 4, 9, 14}
  Clock = 3
  PacketSizes = {0, 1, 3, 5}
  FrameLen = 3
  MaxPackets = 5
  UnitSizes = {1, 3, 6}
  BufLen = 4
  MaxUnits = 4
INVARIANTS HeaderNeverLies NilMeansComplete NoGaps PlaysItAll RiffExact OpusPlaysItAll RecordingIsPrefix
PROPERTIES ClosedForGood SourceEnds
CHECK_DEADLOCK FALSE

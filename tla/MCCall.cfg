SPECIFICATION CallSpec
CONSTANTS
  Parts <- MCParts
  Half = 3
  RocMod = 4
  TsMod = 2
  SamplesPerPacket = 1
  MaxPackets = 14
  MaxVideo = 2
  VideoUntil = 4
  MaxInFlight = 3
  Window = 3
  Closers = {c1, c2}
  Parties = {a, b}
  Lengths = {0, 1}
  VarintBase = 2
  TagLen = 2
  MaxFrames = 3
INVARIANTS SenderIndexExact DecryptsWhatWasSent TrackerIsHighest EndedHoldsNothing LayersNested FirstErrorWins NonceUnique OpensThePeersOnly
CHECK_DEADLOCK FALSE

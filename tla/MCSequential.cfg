SPECIFICATION SequentialSpec
CONSTANTS
  Parts <- MCParts
  StreamSeqMod = 3
  TsMod = 7
  SamplesPerPacket = 2
  WarpPiggyback = TRUE
  StartPacket = 2
  MaxBuilt = 5
  Calls = {c1, c2}
  MaxLen = 8
  OpusTypes = {120, 121}
  VideoType = 97
  PayloadLens <- MCPayloadLens
  Trailer = 14
  Int32Max = 8191
  Int16Max = 63
  Unit = 128
  SmoothCoef = 16
  NlCap = 1023
  Bias = 3
  FirstNl = 30
  FirstCounter = 0
  CounterStep = 2
  CounterMax = 8
  Energies <- MCEnergies
  FramesPerPacket = 3
  PacketMs = 60
  HangoverMs = 60
  MaxPackets = 5
  UnitLen <- MCUnitLen
  Mtu = 7
  MaxFu = 12
  Window = 2
  MaxLost = 2
  MsgTypes = {259, 275, 2050}
  AttrTypes = {9, 16384}
  ValueLens = {0, 3, 4}
  MaxAttrs = 2
  DamagedTo = {4, 255}
  Octets = {0, 157}
  ByteMod = 4
  Salts <- MCSalts
  Ssrcs = {0, 1, 7, 255}
  Indexes = {0, 1, 3, 4, 15, 16, 17, 255, 256, 1024, 4095}
  MaxBlocks = 18
  Half = 8
  RocMod = 4
  LossRun = 6
  MaxSent = 55
  Shorts <- MCShorts
  Longs <- MCLongs
  Types = {96, 120}
  ExtensionLens = {4, 12}
  BodyLen = 2
  FrameLens = {0, 1, 2, 6, 7, 15, 16, 17, 18, 30}
INVARIANTS MarkerOnFirstSpeech PiggybackAfterStart SetupInOrder SplitsAtStartCodes ReportsAreSeen NoiseInRange CodedWhenVoiced UnitSurvives NothingJoinedAcross Lossless StunReadBack WalkStaysInside CountersExact OneDamagedPacketHarmless HeaderReadBack SpeechIsNotSilence
CHECK_DEADLOCK FALSE

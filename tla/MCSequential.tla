---------------------------- MODULE MCSequential ----------------------------
(***************************************************************************)
(* The parts of the library that work on their own and share nothing, each *)
(* checked on its own instance in one run: part says which of them moves,  *)
(* so that their state spaces add up and do not multiply.  CallSession is  *)
(* extended, the others are instances.                                     *)
(***************************************************************************)
EXTENDS CallSession, Integers, Sequences

CONSTANTS Parts,   \* those that move
          StreamSeqMod, TsMod, SamplesPerPacket, WarpPiggyback, StartPacket, MaxBuilt,  \* RtpSender
          MaxLen,                                                                       \* AnnexB
          OpusTypes, VideoType, PayloadLens, Trailer,                                   \* RelayDemux
          Int32Max, Int16Max, Unit, SmoothCoef, NlCap, Bias, FirstNl,                   \* VadNoise
          FirstCounter, CounterStep, CounterMax, Energies,
          FramesPerPacket, PacketMs, HangoverMs, MaxPackets,                            \* VadHangover
          UnitLen, Mtu, MaxFu, Window, MaxLost,                                         \* H264
          MsgTypes, AttrTypes, ValueLens, MaxAttrs, DamagedTo, Octets,                  \* StunMessage
          ByteMod, Salts, Ssrcs, Indexes, MaxBlocks,                                    \* Keystream
          Half, RocMod, LossRun, MaxSent,                                               \* DamagedPath
          Shorts, Longs, Types, ExtensionLens, BodyLen,                                 \* RtpHeader
          FrameLens                                                                     \* MlowToc

VARIABLES part, stream, built, data, i, start, nalus, done,
          packet, kind, rtcp, counter, nl, invNl, remaining, speech, coded,
          next, flight, fuActive, fuBuf, arrived, out, lost, inOrder,
          message, stunPacket, address, endpoint, salt, input, block, icm, ctr,
          recvRoc, sent, missed, damaged, plain, header, wire, first, size

Sender == INSTANCE RtpSender
Annex == INSTANCE AnnexB
Demux == INSTANCE RelayDemux
Noise == INSTANCE VadNoise
Hangover == INSTANCE VadHangover
Video == INSTANCE H264
Stun == INSTANCE StunMessage WITH sent <- message, packet <- stunPacket
Keys == INSTANCE Keystream
Noisy == INSTANCE DamagedPath
Codec == INSTANCE RtpHeader
Toc == INSTANCE MlowToc

ASSUME SequentialAssumption ==
  /\ Sender!StreamAssumption /\ Demux!DemuxAssumption /\ Noise!NoiseAssumption /\ Hangover!HangoverAssumption
  /\ Video!H264Assumption /\ Stun!StunAssumption /\ Keys!KeystreamAssumption
  /\ Noisy!RocAssumption /\ Noisy!DamagedAssumption /\ Codec!HeaderAssumption /\ Toc!TocAssumption
  /\ Annex!AnnexAssumption

MCParts == {"RtpSender", "CallSession", "AnnexB", "RelayDemux", "VadNoise", "VadHangover", "H264",
            "StunMessage", "Keystream", "DamagedPath", "RtpHeader", "MlowToc"}
MCPayloadLens == {1, 2, 5, 6, 7} \cup 10..30
MCEnergies == {0, 1, 2, 5, 30, 200, 3000, 8191}
\* A unit of three fragments that just fits the limit, two units that share an
\* aggregate, the largest unit that is sent whole, the smallest that is
\* fragmented and one that is just over the limit.
MCUnitLen == <<12, 1, 1, 7, 8, 13>>
MCSalts == {[k \in 1..14 |-> 0], [k \in 1..14 |-> 3], [k \in 1..14 |-> (3 * k) % 4]}
MCShorts == {<<0, 1>>, <<255, 254>>}
MCLongs == {<<0, 1, 2, 3>>, <<255, 254, 253, 252>>}

\* A part that does not move starts in one of its initial states, always the same.
SequentialInit ==
  /\ part \in Parts
  /\ Sender!Init /\ Noise!Init /\ Hangover!Init /\ Video!Init /\ Stun!Init /\ Noisy!Init /\ Codec!Init
  /\ Init /\ (part = "CallSession" \/ direction = [c \in Calls |-> "incoming"])
  /\ IF part = "AnnexB" THEN Annex!Init
     ELSE data = <<>> /\ i = 0 /\ start = -1 /\ nalus = <<>> /\ done = FALSE
  /\ Demux!Init /\ (part = "RelayDemux" \/ packet = CHOOSE p \in Demux!Stun : TRUE)
  /\ Keys!Init /\ (part = "Keystream" \/ salt = CHOOSE s \in Salts : TRUE)
  /\ Toc!Init /\ (part = "MlowToc" \/ size = CHOOSE n \in FrameLens : TRUE)

senderVars   == <<stream, built>>
annexVars    == <<data, i, start, nalus, done>>
demuxVars    == <<packet, kind, rtcp>>
noiseVars    == <<counter, nl, invNl>>
hangoverVars == <<remaining, speech, coded>>
videoVars    == <<next, flight, fuActive, fuBuf, arrived, out, lost, inOrder>>
stunVars     == <<message, stunPacket, address, endpoint>>
keyVars      == <<salt, input, block, icm, ctr>>
noisyVars    == <<recvRoc, sent, missed, damaged, plain>>
codecVars    == <<header, wire>>
tocVars      == <<first, size>>

allVars == <<part, vars, senderVars, annexVars, demuxVars, noiseVars, hangoverVars, videoVars,
             stunVars, keyVars, noisyVars, codecVars, tocVars>>

\* Part p may move, and no other.
Only(p) ==
  /\ part = p /\ UNCHANGED part
  /\ IF p = "CallSession" THEN TRUE ELSE UNCHANGED vars
  /\ IF p = "RtpSender" THEN TRUE ELSE UNCHANGED senderVars
  /\ IF p = "AnnexB" THEN TRUE ELSE UNCHANGED annexVars
  /\ IF p = "RelayDemux" THEN TRUE ELSE UNCHANGED demuxVars
  /\ IF p = "VadNoise" THEN TRUE ELSE UNCHANGED noiseVars
  /\ IF p = "VadHangover" THEN TRUE ELSE UNCHANGED hangoverVars
  /\ IF p = "H264" THEN TRUE ELSE UNCHANGED videoVars
  /\ IF p = "StunMessage" THEN TRUE ELSE UNCHANGED stunVars
  /\ IF p = "Keystream" THEN TRUE ELSE UNCHANGED keyVars
  /\ IF p = "DamagedPath" THEN TRUE ELSE UNCHANGED noisyVars
  /\ IF p = "RtpHeader" THEN TRUE ELSE UNCHANGED codecVars
  /\ IF p = "MlowToc" THEN TRUE ELSE UNCHANGED tocVars

SessionStep  == Only("CallSession") /\ Next
SenderStep   == Only("RtpSender") /\ Sender!Next
AnnexStep    == Only("AnnexB") /\ Annex!Next
DemuxStep    == Only("RelayDemux") /\ Demux!Next
NoiseStep    == Only("VadNoise") /\ Noise!Next
HangoverStep == Only("VadHangover") /\ Hangover!Next
VideoStep    == Only("H264") /\ Video!Next
StunStep     == Only("StunMessage") /\ Stun!Next
KeyStep      == Only("Keystream") /\ Keys!Next
NoisyStep    == Only("DamagedPath") /\ Noisy!Next
CodecStep    == Only("RtpHeader") /\ Codec!Next
TocStep      == Only("MlowToc") /\ Toc!Next

SequentialNext == SessionStep \/ SenderStep \/ AnnexStep \/ DemuxStep \/ NoiseStep \/ HangoverStep
                  \/ VideoStep \/ StunStep \/ KeyStep \/ NoisyStep \/ CodecStep \/ TocStep

SequentialSpec == SequentialInit /\ [][SequentialNext]_allVars

-----------------------------------------------------------------------------
(* What each part is to hold, looked at while it is the one that moves.    *)

\* Exactly the first speech packet of a stream is marked unasked (rtp.go:271).
MarkerOnFirstSpeech == part = "RtpSender" => Sender!MarkerOnFirstSpeech

\* The piggyback word starts after StartPacket audio packets (rtp.go:255-269).
PiggybackAfterStart == part = "RtpSender" => Sender!PiggybackAfterStart

\* SplitAnnexB cuts a stream at its start codes and nowhere else (h264.go:102-131).
SplitsAtStartCodes == part = "AnnexB" => Annex!SplitsAtStartCodes

\* IsRtcpPacket finds every report, and none in STUN or Opus (rtcp.go:22-40).
ReportsAreSeen == part = "RelayDemux" => Demux!ReportsAreSeen

\* Against rtcp.go:22, which says that RTP of any payload type is told from RTCP.
RtpIsNotRtcp == part = "RelayDemux" => Demux!RtpIsNotRtcp

\* The noise tracker divides by positive numbers and nothing wraps (vad.go:230-261).
NoiseInRange == part = "VadNoise" => Noise!NoiseInRange

\* A packet is voice exactly when a frame is speech or in its hangover (vad.go:379-389).
CodedWhenVoiced == part = "VadHangover" => Hangover!CodedWhenVoiced

\* A unit whose payloads arrive one after the other comes out intact (h264.go:148-231).
UnitSurvives == part = "H264" => Video!UnitSurvives

\* No unit is put together from payloads that do not follow each other (h264.go:191-226).
NothingJoinedAcross == part = "H264" => Video!NothingJoinedAcross

\* A network in order loses no unit but those over the limit (h264.go:17-231).
Lossless == part = "H264" => Video!Lossless

\* Against h264.go:148: what is put together is a unit that was packed.
OnlyUnitsComeOut == part = "H264" => Video!OnlyUnitsComeOut

\* A STUN message cut anywhere is read back as far as it goes (stun.go:92-328).
StunReadBack == part = "StunMessage" => Stun!StunReadBack

\* The walks over STUN attributes read no byte that is not there (stun.go:272-328).
WalkStaysInside == part = "StunMessage" => Stun!WalkStaysInside

\* Against stun.go:143, which says that only four dotted octets are an address.
FourDottedOctets == part = "StunMessage" => Stun!FourDottedOctets

\* Both SRTP ciphers use a counter once in a session (hbh.go:95-199, e2e.go:24-138).
CountersExact == part = "Keystream" => Keys!CountersExact

\* One damaged packet does no harm to those after it (session.go:238-251).
OneDamagedPacketHarmless == part = "DamagedPath" => Noisy!OneDamagedPacketHarmless

\* The fields and the length of an RTP header come out as they went in (rtp.go:118-227).
HeaderReadBack == part = "RtpHeader" => Codec!HeaderReadBack

\* What is speech to rtp.go is speech to toc.go, and silence is not (rtp.go:50-78, toc.go:43-75).
SpeechIsNotSilence == part = "MlowToc" => Toc!SpeechIsNotSilence

\* Against rtp.go:50, which says that IsOpusDtxPayload reports silence.
SilenceIsInactive == part = "MlowToc" => Toc!SilenceIsInactive
=============================================================================

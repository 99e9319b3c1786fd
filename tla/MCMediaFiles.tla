---------------------------- MODULE MCMediaFiles ----------------------------
(***************************************************************************)
(* The readers and writers of media files, which share nothing with each   *)
(* other, each on its own instance in one run: part says which one moves.  *)
(* WavRecorder is extended, the others are instances.                      *)
(***************************************************************************)
EXTENDS WavRecorder, Sequences

CONSTANTS Parts,   \* those that move
          Channels, Lengths, Rates, Den, BufBytes, FrameSamples,   \* WavSource
          FmtSizes, DataSizes, OtherSizes, Formats, MaxChunks,     \* RiffReader
          PreSkips, Clock, PacketSizes, FrameLen, MaxPackets,      \* OpusSource
          UnitSizes, BufLen, MaxUnits                              \* AnnexBRecorder

VARIABLES part,
          channels, length, rate, broken, offset, pos, last, pending, done, frames, ended,
          seen, at, haveFmt, fmt, limit, cut, outcome,
          preSkip, skip, packets, decoded, queue, dry, played, end,
          given, taken, buf, sticky, file, stage, verdict

Source == INSTANCE WavSource
Riff == INSTANCE RiffReader
Opus == INSTANCE OpusSource
Video == INSTANCE AnnexBRecorder

ASSUME MediaFilesAssumption ==
  Source!SourceAssumption /\ Riff!RiffAssumption /\ Opus!OpusAssumption /\ Video!RecorderAssumption

MCParts == {"WavRecorder", "WavSource", "RiffReader", "OpusSource", "AnnexBRecorder"}
MCLengths == 0..41
\* 1/2, 1, 5/4 and 11/4 times SampleRate; the last is 44.1 kHz, nearly.
MCRates == {2, 4, 5, 11}
Format(format, bits, channelCount, sampleRate) ==
  [format |-> format, bits |-> bits, channels |-> channelCount, rate |-> sampleRate]
\* Two that are supported, and one for each reason that another is not.
MCFormats == {Format(1, 16, 1, 8), Format(65534, 16, 2, 44), Format(3, 32, 2, 48),
              Format(1, 24, 2, 44), Format(1, 16, 0, 44), Format(1, 16, 2, 0)}
MCGoodFormat == {Format(1, 16, 1, 8)}

\* A part that does not move starts in one of its initial states, always the same.
MediaFilesInit ==
  /\ part \in Parts
  /\ Init /\ Riff!Init /\ Video!Init
  /\ Source!Init
  /\ part = "WavSource" \/ Source!file = <<CHOOSE c \in Channels : TRUE, CHOOSE l \in Lengths : TRUE,
                                           CHOOSE r \in Rates : TRUE, FALSE>>
  /\ Opus!Init /\ (part = "OpusSource" \/ preSkip = CHOOSE n \in PreSkips : TRUE)

sourceVars == <<channels, length, rate, broken, offset, pos, last, pending, done, frames, ended>>
riffVars   == <<seen, at, haveFmt, fmt, limit, cut, outcome>>
opusVars   == <<preSkip, skip, packets, decoded, queue, dry, played, end>>
videoVars  == <<given, taken, buf, sticky, file, stage, verdict>>

allVars == <<part, vars, sourceVars, riffVars, opusVars, videoVars>>

\* Part p may move, and no other.
Only(p) ==
  /\ part = p /\ UNCHANGED part
  /\ IF p = "WavRecorder" THEN TRUE ELSE UNCHANGED vars
  /\ IF p = "WavSource" THEN TRUE ELSE UNCHANGED sourceVars
  /\ IF p = "RiffReader" THEN TRUE ELSE UNCHANGED riffVars
  /\ IF p = "OpusSource" THEN TRUE ELSE UNCHANGED opusVars
  /\ IF p = "AnnexBRecorder" THEN TRUE ELSE UNCHANGED videoVars

RecorderStep == Only("WavRecorder") /\ Next
SourceStep   == Only("WavSource") /\ Source!Next
RiffStep     == Only("RiffReader") /\ Riff!Next
OpusStep     == Only("OpusSource") /\ Opus!Next
VideoStep    == Only("AnnexBRecorder") /\ Video!Next

MediaFilesNext == RecorderStep \/ SourceStep \/ RiffStep \/ OpusStep \/ VideoStep

\* The send loop keeps asking a source for frames until it has ended.
MediaFilesSpec == MediaFilesInit /\ [][MediaFilesNext]_allVars /\ WF_allVars(SourceStep) /\ WF_allVars(OpusStep)

-----------------------------------------------------------------------------
(* What each part is to hold, looked at while it is the one that moves.    *)

\* A WAV file read in chunks plays like one read in one piece (source.go:64-162).
NoGaps == part = "WavSource" => Source!NoGaps

\* At its end a whole WAV file has been played (source.go:31-50, 139-178).
PlaysItAll == part = "WavSource" => Source!PlaysItAll

\* A source that is asked for frames comes to an end (source.go:33-45, 139-162, 318-342).
SourceEnds == (part = "WavSource" => Source!SourceEnds) /\ (part = "OpusSource" => Opus!SourceEnds)

\* newWavReader returns a reader at the samples, or refuses the file (source.go:189-246).
RiffExact == part = "RiffReader" => Riff!RiffExact

\* An Opus stream is played from its pre-skip to its end (source.go:306-342).
OpusPlaysItAll == part = "OpusSource" => Opus!OpusPlaysItAll

\* A recording is a beginning of the stream, and all of it after nil (video.go:49-92).
RecordingIsPrefix == part = "AnnexBRecorder" => Video!RecordingIsPrefix
=============================================================================

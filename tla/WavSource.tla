----------------------------- MODULE WavSource ------------------------------
(***************************************************************************)
(* meowcaller/source.go: WAVFile, from the data chunk to the frames        *)
(* Player reads: the chunks of the read buffer, the down-mix, the stateful *)
(* resampler and the framing.  A sample of one channel has two bytes.  A   *)
(* down-mixed sample is the offset of its first byte in the data chunk, a  *)
(* resampled one the two samples it lies between and how far; a read       *)
(* position counts in 1/Den of an input sample (the code uses a float64).  *)
(***************************************************************************)
EXTENDS Integers, Sequences, SequencesExt, FiniteSetsExt

CONSTANTS Channels,      \* the channel counts of the files
          Lengths,       \* the lengths of their data chunks, in bytes
          Rates,         \* the rates of the files, in 1/Den of SampleRate
          Den,
          BufBytes,      \* the size of the read buffer
          FrameSamples

SourceAssumption ==
  /\ Channels \subseteq Nat \ {0} /\ Lengths \subseteq Nat /\ Rates \subseteq Nat \ {0}
  /\ {Den, BufBytes, FrameSamples} \subseteq Nat \ {0}

VARIABLES channels, length, rate,  \* of the file
          broken,    \* the data chunk ends in a read error
          offset,    \* the bytes read so far
          pos,       \* downmixResampler.pos
          last,      \* downmixResampler.last, << >> while havePrev is false
          pending,   \* frameSource.pending
          done,      \* frameSource.done
          frames,    \* history: the frames ReadFrame returned
          ended      \* history: how the source ended, "no" before

file == <<channels, length, rate, broken>>
vars == <<file, offset, pos, last, pending, done, frames, ended>>

Silence == <<>>   \* the zero sample a last frame is padded with

Init == /\ channels \in Channels /\ length \in Lengths /\ rate \in Rates /\ broken \in BOOLEAN
        /\ offset = 0 /\ pos = 0 /\ last = <<>>
        /\ pending = <<>> /\ done = FALSE
        /\ frames = <<>> /\ ended = "no"

-----------------------------------------------------------------------------
\* Between input samples a and b, at frac / Den of the way.
Between(a, b, frac) == <<a[1], b[1], frac>>

\* Mutant of process: the position is not moved back to the next chunk's start.
processKeepsPos(mono) ==
  LET src == last \o mono
      base == Len(last) * Den
      reads == {k \in 0..(Len(src) * Den) : (pos + base + k * rate) \div Den + 1 < Len(src)}
      sample(k) == LET at == pos + base + k * rate
                   IN Between(src[at \div Den + 1], src[at \div Den + 2], at % Den)
      out == [j \in 1..Cardinality(reads) |-> sample(j - 1)]
  IN IF rate = Den THEN [out |-> mono, pos |-> pos, last |-> last]
     ELSE [out |-> out, pos |-> pos + Len(out) * rate, last |-> <<Last(mono)>>]

\* The samples a chunk yields and what the resampler keeps: it reads on from
\* pos in steps of rate as long as there is a sample on both sides, the last
\* one of the previous chunk included.
process(mono) ==
  LET src == last \o mono
      base == Len(last) * Den
      reads == {k \in 0..(Len(src) * Den) : (pos + base + k * rate) \div Den + 1 < Len(src)}
      sample(k) == LET at == pos + base + k * rate
                   IN Between(src[at \div Den + 1], src[at \div Den + 2], at % Den)
      out == [j \in 1..Cardinality(reads) |-> sample(j - 1)]
  IN IF rate = Den THEN [out |-> mono, pos |-> pos, last |-> last]
     ELSE [out |-> out, pos |-> pos + Len(out) * rate - Len(mono) * Den, last |-> <<Last(mono)>>]

GroupBytes == 2 * channels

\* wavMono of the chunk of n bytes at the offset.
wavMono(n) == [i \in 1..(n \div GroupBytes) |-> <<offset + (i - 1) * GroupBytes>>]

ReadsOn == ended = "no" /\ Len(pending) < FrameSamples /\ ~done
ChunkLen == Min({BufBytes, length - offset})
Trimmed == ChunkLen - (ChunkLen % GroupBytes)
AtEnd == offset + ChunkLen = length /\ ChunkLen < BufBytes

\* Mutant of MoreExhausted: more() reports success at the end of the file.
MoreExhaustedNot ==
  /\ ReadsOn
  /\ \/ ChunkLen = 0 /\ ~broken
     \/ ChunkLen > 0 /\ Trimmed = 0
  /\ offset' = offset + ChunkLen
  /\ UNCHANGED <<file, pos, last, pending, done, frames, ended>>

\* more() finds nothing left, or not one whole sample.
MoreExhausted ==
  /\ ReadsOn
  /\ \/ ChunkLen = 0 /\ ~broken
     \/ ChunkLen > 0 /\ Trimmed = 0
  /\ offset' = offset + ChunkLen
  /\ done' = TRUE
  /\ UNCHANGED <<file, pos, last, pending, frames, ended>>

\* Mutant of MoreChunk: the file ends with its last chunk, full frames or not.
MoreChunkEndsEarly ==
  /\ ReadsOn /\ Trimmed > 0
  /\ LET r == process(wavMono(Trimmed))
     IN /\ pending' = IF AtEnd THEN pending ELSE pending \o r.out
        /\ pos' = r.pos
        /\ last' = r.last
        /\ done' = AtEnd
  /\ offset' = offset + ChunkLen
  /\ UNCHANGED <<file, frames, ended>>

\* more() decodes one buffer of bytes; a short one is the last of the file
\* unless the read failed, and more() then asks to be called again only if the
\* samples make a frame.
MoreChunk ==
  /\ ReadsOn /\ Trimmed > 0
  /\ LET r == process(wavMono(Trimmed))
     IN /\ pending' = pending \o r.out
        /\ pos' = r.pos
        /\ last' = r.last
        /\ done' = (AtEnd /\ ~broken /\ Len(pending') < FrameSamples)
  /\ offset' = offset + ChunkLen
  /\ UNCHANGED <<file, frames, ended>>

\* more() fails, and so does ReadFrame: Player takes it as the end.
ReadError ==
  /\ ReadsOn /\ ChunkLen = 0 /\ broken
  /\ ended' = "error"
  /\ UNCHANGED <<file, offset, pos, last, pending, done, frames>>

\* ReadFrame returns a frame, zero-padded when there is no more, or io.EOF.
ReadFrame ==
  /\ ended = "no" /\ (Len(pending) >= FrameSamples \/ done)
  /\ IF pending = <<>> THEN ended' = "eof" /\ UNCHANGED <<pending, frames>>
     ELSE LET n == Min({FrameSamples, Len(pending)})
          IN /\ frames' = Append(frames, SubSeq(pending, 1, n) \o [i \in 1..(FrameSamples - n) |-> Silence])
             /\ pending' = SubSeq(pending, n + 1, Len(pending))
             /\ UNCHANGED ended
  /\ UNCHANGED <<file, offset, pos, last, done>>

Next == MoreExhausted \/ MoreChunk \/ ReadError \/ ReadFrame

\* The send loop keeps asking for frames until the source has ended.
Spec == Init /\ [][Next]_vars /\ WF_vars(Next)

-----------------------------------------------------------------------------
\* The samples of the whole file, in one piece.
Whole(bytes) == [i \in 1..(bytes \div GroupBytes) |-> <<(i - 1) * GroupBytes>>]

\* What resampling bytes of the file in one piece yields: sample k lies k * rate.
Resampled(bytes) ==
  LET src == Whole(bytes)
      reads == {k \in 0..(Len(src) * Den) : (k * rate) \div Den + 1 < Len(src)}
      sample(k) == Between(src[(k * rate) \div Den + 1], src[(k * rate) \div Den + 2], (k * rate) % Den)
  IN IF rate = Den THEN src ELSE [j \in 1..Cardinality(reads) |-> sample(j - 1)]

Emitted == FlattenSeq(frames) \o pending

\* "stateful across chunks so streaming decoders can feed it a frame at a time
\* without gaps at chunk boundaries" (source.go:64): what comes out of a file
\* read in chunks is what comes out of the same file in one piece.
NoGaps == ended = "no" /\ ~done => Emitted = Resampled(offset)

\* "the final partial frame is zero-padded" (source.go:17): at the end all of
\* the file has been played, and nothing else but the padding of one frame.
PlaysItAll ==
  ended = "eof" => \E padding \in 0..(FrameSamples - 1) :
                     Emitted = Resampled(length) \o [i \in 1..padding |-> Silence]

\* A send loop that keeps asking comes to the end of every file, or to an error:
\* neither a file with a broken tail nor one that ends in part of a sample makes
\* ReadFrame loop (source.go:33-45).
SourceEnds == <>(ended # "no")
=============================================================================

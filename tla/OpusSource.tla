----------------------------- MODULE OpusSource -----------------------------
(***************************************************************************)
(* meowcaller/source.go: OpusFile, from the packets of the stream to the   *)
(* frames Player reads.  The Ogg reader and the decoder are external: a    *)
(* packet gives any number of samples or fails.  A sample is its place in  *)
(* what the decoder has given.                                             *)
(***************************************************************************)
EXTENDS Integers, Sequences, FiniteSetsExt

CONSTANTS PreSkips,      \* the pre-skip of the streams, in samples of 1/Clock
          Clock,         \* samples of the codec's clock in one of ours: 48000 / SampleRate
          PacketSizes,   \* samples in a packet, 0 when it is empty or decodes to nothing
          FrameLen,      \* FrameSamples
          MaxPackets     \* bound: packets of a stream

OpusAssumption == /\ PreSkips \subseteq Nat /\ Clock \in Nat \ {0}
                  /\ PacketSizes \subseteq Nat /\ FrameLen \in Nat \ {0} /\ MaxPackets \in Nat

VARIABLES preSkip,  \* of the stream's header
          skip,     \* samples still to be dropped
          packets,  \* history: packets read
          decoded,  \* history: samples the decoder has given
          queue,    \* frameSource.pending
          dry,      \* frameSource.done
          played,   \* history: the frames ReadFrame returned, end to end
          end       \* history: how the source ended, "no" before

vars == <<preSkip, skip, packets, decoded, queue, dry, played, end>>

Silence == 0   \* the zero sample a last frame is padded with

Samples(from, to) == [k \in 1..(to - from + 1) |-> from + k - 1]

Init == /\ preSkip \in PreSkips /\ skip = preSkip \div Clock
        /\ packets = 0 /\ decoded = 0
        /\ queue = <<>> /\ dry = FALSE
        /\ played = <<>> /\ end = "no"

ReadsOn == end = "no" /\ Len(queue) < FrameLen /\ ~dry

\* Mutant of More: the samples to drop are dropped from every packet.
MoreKeepsSkip(n) ==
  /\ ReadsOn /\ packets < MaxPackets
  /\ packets' = packets + 1
  /\ decoded' = decoded + n
  /\ IF skip >= n THEN skip' = skip - n /\ UNCHANGED queue
     ELSE queue' = queue \o Samples(decoded + skip + 1, decoded + n) /\ UNCHANGED skip
  /\ UNCHANGED <<preSkip, dry, played, end>>

\* more() goes on to the next packet, of n samples, the first of which it drops.
More(n) ==
  /\ ReadsOn /\ packets < MaxPackets
  /\ packets' = packets + 1
  /\ decoded' = decoded + n
  /\ IF skip >= n THEN skip' = skip - n /\ UNCHANGED queue
     ELSE queue' = queue \o Samples(decoded + skip + 1, decoded + n) /\ skip' = 0
  /\ UNCHANGED <<preSkip, dry, played, end>>

\* more() is at the end of the stream.
MoreExhausted == /\ ReadsOn
                 /\ dry' = TRUE
                 /\ UNCHANGED <<preSkip, skip, packets, decoded, queue, played, end>>

\* The stream or a packet is broken, and ReadFrame fails.
MoreFails == /\ ReadsOn
             /\ end' = "error"
             /\ UNCHANGED <<preSkip, skip, packets, decoded, queue, dry, played>>

\* ReadFrame returns a frame, zero-padded when there is no more, or io.EOF.
ReadFrame ==
  /\ end = "no" /\ (Len(queue) >= FrameLen \/ dry)
  /\ IF queue = <<>> THEN end' = "eof" /\ UNCHANGED <<queue, played>>
     ELSE LET n == Min({FrameLen, Len(queue)})
          IN /\ played' = played \o SubSeq(queue, 1, n) \o [k \in 1..(FrameLen - n) |-> Silence]
             /\ queue' = SubSeq(queue, n + 1, Len(queue))
             /\ UNCHANGED end
  /\ UNCHANGED <<preSkip, skip, packets, decoded, dry>>

Next == (\E n \in PacketSizes : More(n)) \/ MoreExhausted \/ MoreFails \/ ReadFrame

\* The send loop keeps asking for frames until the source has ended.
Spec == Init /\ [][Next]_vars /\ WF_vars(Next)

-----------------------------------------------------------------------------
\* "PreSkip samples (priming) at the head of the stream should be discarded,
\* scaled from the 48 kHz codec clock" (source.go:306): however the priming and
\* the frames fall across packets, every sample the decoder gave but the first
\* preSkip / Clock is played or waiting, once and in order, and all that follows
\* them is less than a frame of padding at the end of the stream.
OpusPlaysItAll ==
  \E padding \in 0..(FrameLen - 1) :
    /\ played \o queue = Samples((preSkip \div Clock) + 1, decoded) \o [k \in 1..padding |-> Silence]
    /\ padding > 0 => dry
    /\ end = "eof" => queue = <<>>

\* A send loop that keeps asking comes to the end of every stream, or to an error.
SourceEnds == <>(end # "no")
=============================================================================

------------------------------ MODULE MlowToc -------------------------------
(***************************************************************************)
(* What two packages make of the first byte of an MLow frame: mlow/toc.go, *)
(* which decodes it, and rtp/rtp.go, whose classifiers choose the RTP      *)
(* header of the packet by it and by the length of the payload.            *)
(***************************************************************************)
EXTENDS Integers, Sequences

CONSTANT FrameLens   \* lengths of payloads

TocAssumption == FrameLens \subseteq Nat

VARIABLES first,   \* the first byte of the payload
          size     \* its length

vars == <<first, size>>

Bit(b, n) == (b \div 2 ^ n) % 2 = 1
High(b, n) == b \div 2 ^ n   \* all but the low n bits

standardOpusFrameMs(b) ==
  LET config == High(b, 3)
  IN CASE config < 12  -> <<10, 20, 40, 60>>[(config % 4) + 1]
       [] config \in 12..15 -> <<10, 20>>[((config - 12) % 2) + 1]
       [] config > 15  -> <<3, 5, 10, 20>>[(config % 4) + 1]

ParseSmplTOC(b) ==
  IF High(b, 6) = 3
  THEN [stdOpus |-> TRUE, sid |-> FALSE, vad |-> FALSE, voiced |-> FALSE, active |-> FALSE,
        sampleRate |-> 16000, frameMs |-> standardOpusFrameMs(b)]
  ELSE [stdOpus |-> FALSE, sid |-> Bit(b, 7), vad |-> Bit(b, 6),
        voiced |-> Bit(b, 6) /\ Bit(b, 1), active |-> Bit(b, 6) \/ Bit(b, 1),
        sampleRate |-> IF Bit(b, 5) THEN 32000 ELSE 16000,
        frameMs |-> <<10, 20, 60, 120>>[(High(b, 3) % 4) + 1]]

\* Mutant of IsOpusDtxPayload: the mask of short silence is one bit too wide.
IsOpusDtxPayloadWide(b, n) ==
  \/ n = 1 /\ b \in {16, 136, 144}
  \/ n \in 2..15 /\ (High(b, 3) = 1 \/ b = 10 \/ (High(b, 4) % 4 = 3 /\ n <= 6))

IsOpusDtxPayload(b, n) ==
  \/ n = 1 /\ b \in {16, 136, 144}
  \/ n \in 2..15 /\ (High(b, 3) = 1 \/ b = 10 \/ (High(b, 4) = 3 /\ n <= 6))

IsOpusMlowSpeechPayload(b, n) == n >= 18 /\ High(b, 3) \in {9, 10}

Init == first = 0 /\ size \in FrameLens

\* Another frame's payload: any byte, any length.
Frame == first < 255 /\ first' = first + 1 /\ size' \in FrameLens

Next == Frame

Spec == Init /\ [][Next]_vars

-----------------------------------------------------------------------------
\* Speech and silence are told apart: what rtp.go takes for speech ("20ms
\* 0x48..0x4f or 60ms 0x50..0x57", rtp.go:70) toc.go decodes as active speech of
\* that length at 16 kHz and no descriptor of silence, and what rtp.go takes for
\* silence has no bit of speech in toc.go's voice flags, nor is it standard Opus.
\* That silence is inactive to toc.go is not said here, but in SilenceIsInactive.
SpeechIsNotSilence ==
  LET toc == ParseSmplTOC(first)
  IN /\ IsOpusMlowSpeechPayload(first, size) =>
          /\ toc.vad /\ toc.active /\ ~toc.sid /\ ~toc.stdOpus /\ toc.sampleRate = 16000
          /\ toc.frameMs = IF first < 80 THEN 20 ELSE 60
          /\ ~IsOpusDtxPayload(first, size)
     /\ IsOpusDtxPayload(first, size) => ~toc.vad /\ ~toc.voiced /\ ~toc.stdOpus

\* Against rtp.go:50, "IsOpusDtxPayload reports DTX / comfort-noise frames": a
\* frame of silence is not one that toc.go calls active (toc.go:67).
SilenceIsInactive == IsOpusDtxPayload(first, size) => ~ParseSmplTOC(first).active
=============================================================================

----------------------------- MODULE RtpStream ------------------------------
(***************************************************************************)
(* meowcaller/rtp/rtp.go: RtpStream, the sequencer of outgoing audio, as   *)
(* operators on its state so that its users can compose it with theirs.    *)
(* A payload is known by its class: "speech", "dtx" (comfort noise),       *)
(* "priming" or "empty".                                                   *)
(***************************************************************************)
EXTENDS Naturals

CONSTANTS StreamSeqMod,      \* sequence numbers, 2^16 in the code
          TsMod,             \* timestamps, 2^32 in the code
          SamplesPerPacket,  \* timestamp advance per packet
          WarpPiggyback,     \* RtpStream.warpPiggyback
          StartPacket        \* srtp.WarpPiggybackStartPacket

StreamAssumption == /\ StreamSeqMod \in Nat \ {0, 1}
                           /\ TsMod \in Nat \ {0}
                           /\ SamplesPerPacket \in Nat
                           /\ WarpPiggyback \in BOOLEAN
                           /\ StartPacket \in Nat

Payloads == {"speech", "dtx", "priming", "empty"}
Extensions == {"none", "dtx", "piggyback"}

Headers == [marker : BOOLEAN, seq : 0..(StreamSeqMod - 1), ts : 0..(TsMod - 1), ext : Extensions]
Streams == [seq : 0..(StreamSeqMod - 1), timestamp : 0..(TsMod - 1),
            speechStarted : BOOLEAN, audioPacketIndex : Nat]

NewRtpStream == [seq |-> 1, timestamp |-> 0, speechStarted |-> FALSE, audioPacketIndex |-> 0]

IsOpusDtxPayload(p) == p = "dtx"
IsOpusPrimingPayload(p) == p = "priming"

\* Neither comfort noise nor priming: an empty payload is taken for speech.
IsSpeech(p) == ~IsOpusDtxPayload(p) /\ ~IsOpusPrimingPayload(p)

\* The extension word of the next packet.
WarpExtension(st, dtx) ==
  CASE dtx -> "dtx"
    [] ~dtx /\ WarpPiggyback /\ st.audioPacketIndex >= StartPacket -> "piggyback"
    [] OTHER -> "none"

\* Mutant of AfterExtension: comfort noise counts towards the start packet.
AfterExtensionCountsDtx(st, dtx) ==
  IF WarpPiggyback THEN st.audioPacketIndex + 1 ELSE st.audioPacketIndex

\* audioPacketIndex once the word has been resolved; comfort noise leaves it.
AfterExtension(st, dtx) ==
  IF ~dtx /\ WarpPiggyback THEN st.audioPacketIndex + 1 ELSE st.audioPacketIndex

\* Both counters advance on every packet, whatever it carries.
Step(st, started, dtx) ==
  [seq |-> (st.seq + 1) % StreamSeqMod,
   timestamp |-> (st.timestamp + SamplesPerPacket) % TsMod,
   speechStarted |-> started,
   audioPacketIndex |-> AfterExtension(st, dtx)]

Header(st, marker, dtx) ==
  [marker |-> marker, seq |-> st.seq, ts |-> st.timestamp, ext |-> WarpExtension(st, dtx)]

NextPacketHeader(st, p, marker) ==
  Header(st, marker \/ (IsSpeech(p) /\ ~st.speechStarted), IsOpusDtxPayload(p))

AfterNextPacket(st, p) ==
  Step(st, st.speechStarted \/ IsSpeech(p), IsOpusDtxPayload(p))

\* The pre-speech ladder advances the counters and leaves the latch alone.
PreSpeechHeader(st) == Header(st, FALSE, FALSE)

\* Mutant of AfterPreSpeech: the ladder latches the start of speech.
AfterPreSpeechLatches(st) == Step(st, TRUE, FALSE)

AfterPreSpeech(st) == Step(st, st.speechStarted, FALSE)
=============================================================================

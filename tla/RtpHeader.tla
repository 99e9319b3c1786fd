------------------------------ MODULE RtpHeader -----------------------------
(***************************************************************************)
(* meowcaller/rtp/rtp.go: EncodeRtpHeader and the parsers of the header,   *)
(* on a packet of which all or only the first bytes arrive.  The relay may *)
(* also send headers the encoder never makes, with contributing sources or *)
(* without an extension (external).  Sequence number, timestamp and SSRC   *)
(* are given as their bytes.                                               *)
(***************************************************************************)
EXTENDS Integers, Sequences

CONSTANTS Shorts,      \* sequence numbers, of two bytes
          Longs,       \* timestamps, SSRCs and extension words, of four
          Types,       \* payload types
          ExtensionLens,   \* lengths of ExtensionBytes, whole words ("already 4-byte padded"), counted in two bytes
          BodyLen      \* bytes of payload after the header

HeaderAssumption ==
  /\ Shorts \subseteq (0..255) \X (0..255) /\ Longs \subseteq (0..255) \X (0..255) \X (0..255) \X (0..255)
  /\ Types \subseteq 0..127 /\ \A n \in ExtensionLens : n \in Nat \ {0} /\ n % 4 = 0 /\ n \div 4 < 65536
  /\ BodyLen \in Nat

VARIABLES header,  \* history: the fields the packet was given, and its header's length
          wire     \* the bytes that arrived

vars == <<header, wire>>

Nil == <<>>        \* no ExtensionWord, no ExtensionBytes
Unparsed == -1
Profile == <<222, 190>>   \* 0xdebe, WhatsappRtpExtensionProfile
Marked == 128

Bit(b) == IF b THEN 1 ELSE 0
Fill(n, byte) == [k \in 1..n |-> byte]

Fields == [marker : BOOLEAN, type : Types, seq : Shorts, ts : Longs, ssrc : Longs]

\* Mutant of ByteSize: a raw extension is forgotten.
ByteSizeBare(word, bytes) == IF word # Nil THEN 20 ELSE 16

ByteSize(word, bytes) ==
  IF bytes # Nil THEN 12 + 4 + Len(bytes) ELSE IF word # Nil THEN 20 ELSE 16

\* The first byte, then the fields.
Fixed(first, f) == <<first, f.type + Marked * Bit(f.marker)>> \o f.seq \o f.ts \o f.ssrc

\* What does not fit the size is not written: the buffer has that size.
EncodeRtpHeader(f, word, bytes) ==
  LET words == IF bytes # Nil THEN Len(bytes) \div 4 ELSE Bit(word # Nil)
      all == Fixed(128 + 16, f) \o Profile \o <<words \div 256, words % 256>> \o (IF bytes # Nil THEN bytes ELSE word)
  IN SubSeq(all, 1, ByteSize(word, bytes))

-----------------------------------------------------------------------------
Byte(d, off) == d[off + 1]

IsRtpVersion2(d) == Len(d) >= 12 /\ Byte(d, 0) \div 64 = 2

RtpHeaderByteLength(d) ==
  LET csrcs == 12 + 4 * (Byte(d, 0) % 16)
      words == Byte(d, csrcs + 2) * 256 + Byte(d, csrcs + 3)
  IN CASE ~IsRtpVersion2(d) \/ Len(d) < csrcs -> Unparsed
       [] IsRtpVersion2(d) /\ Len(d) >= csrcs /\ (Byte(d, 0) \div 16) % 2 = 0 -> csrcs
       [] OTHER -> IF Len(d) < csrcs + 4 \/ Len(d) < csrcs + 4 + 4 * words THEN Unparsed
                   ELSE csrcs + 4 + 4 * words

\* Of a header whose length is known.
ParseRtpHeader(d) ==
  [marker |-> Byte(d, 1) >= Marked, type |-> Byte(d, 1) % Marked,
   seq |-> SubSeq(d, 3, 4), ts |-> SubSeq(d, 5, 8), ssrc |-> SubSeq(d, 9, 12)]

-----------------------------------------------------------------------------
Packet(f, bytes) == [fields |-> f, len |-> Len(bytes), bytes |-> bytes \o Fill(BodyLen, 7)]

\* An audio header, plain or with the DTX or piggyback word.
AudioPackets == {Packet(f, EncodeRtpHeader(f, word, Nil)) : f \in Fields, word \in Longs \cup {Nil}}

\* A video header; its ExtensionWord, if any, is not used.
VideoPackets == {Packet(f, EncodeRtpHeader(f, word, Fill(n, 255))) :
                   f \in Fields, word \in Longs \cup {Nil}, n \in ExtensionLens}

\* External: sources, and an extension of n words or none, as RTP has them.
ForeignPackets ==
  {Packet(f, Fixed(128 + 16 * Bit(n >= 0) + sources, f) \o Fill(4 * sources, 9)
             \o (IF n >= 0 THEN <<1, 2, 0, n>> \o Fill(4 * n, 255) ELSE <<>>)) :
     f \in Fields, sources \in {0, 1, 15}, n \in {-1, 0, 2}}

Arrives(packets) == /\ wire = <<>>
                    /\ \E p \in packets : header' = p /\ wire' = p.bytes

\* Only the first bytes arrive.
Cut == /\ wire = header.bytes
       /\ \E n \in 1..(Len(wire) - 1) : wire' = SubSeq(wire, 1, n)
       /\ UNCHANGED header

Init == wire = <<>> /\ header = Packet(CHOOSE f \in Fields : TRUE, <<>>)

Next == Arrives(AudioPackets) \/ Arrives(VideoPackets) \/ Arrives(ForeignPackets) \/ Cut

Spec == Init /\ [][Next]_vars

-----------------------------------------------------------------------------
\* The header of a packet cut anywhere has a length exactly when all of it is
\* there, which is then the length it was encoded with, so that what follows is
\* the payload, and then its fields come out as they went in: neither a raw
\* extension nor the sources of another sender move them.
HeaderReadBack ==
  wire # <<>> =>
    /\ RtpHeaderByteLength(wire) = IF Len(wire) >= header.len THEN header.len ELSE Unparsed
    /\ RtpHeaderByteLength(wire) # Unparsed => ParseRtpHeader(wire) = header.fields
=============================================================================

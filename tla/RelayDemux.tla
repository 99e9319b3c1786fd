----------------------------- MODULE RelayDemux -----------------------------
(***************************************************************************)
(* The two places that say what a packet off the relay is:                 *)
(* ClassifyRelayPacket (meowcaller/relay/relay.go), by the first byte, and *)
(* IsRtcpPacket (meowcaller/rtp/rtcp.go), by the first two and the length. *)
(* A packet is its first two bytes and its length; made says what it was   *)
(* built as.  The packets are those the repository builds, behind any      *)
(* payload type it knows, and the ends that receive them are external.     *)
(***************************************************************************)
EXTENDS Integers

CONSTANTS OpusTypes,   \* payload types IsWhatsappOpusRtpPayload accepts
          VideoType,   \* RtpPayloadTypeH264
          PayloadLens,    \* lengths of RTP payloads
          Trailer      \* SrtcpTrailerLen

DemuxAssumption ==
  /\ OpusTypes \subseteq 0..127 /\ VideoType \in 0..127
  /\ PayloadLens \subseteq Nat /\ Trailer \in Nat

VARIABLES packet,  \* the packet off the relay
          kind,    \* what ClassifyRelayPacket says of it
          rtcp     \* what IsRtcpPacket says of it

vars == <<packet, kind, rtcp>>

RtcpHeaderLen == 8
RtpPayloadTypeOpus == 120

Packet(made, b0, b1, len) == [made |-> made, b0 |-> b0, b1 |-> b1, len |-> len]

\* Compact reports and sender reports, protected with the trailer.
Reports == {Packet("rtcp", 129, 208, 12 + Trailer), Packet("rtcp", 129, 209, 8 + Trailer),
            Packet("rtcp", 128, 200, 28 + Trailer)}

\* Audio and video behind a header with the extension, with and without marker.
Rtp(types) == {Packet("rtp", 144, marker + type, 16 + n) : marker \in {0, 128}, type \in types, n \in PayloadLens}

\* An Allocate request, the consent ping and the answers to them, the shortest
\* of which is a bare header.
Stun == {Packet("stun", type \div 256, type % 256, len) : type \in {1, 3, 257, 259, 275, 2049, 2050}, len \in {20, 60}}

\* Whether the extension bit of an RTP header is set.
Extended(p) == (p.b0 \div 16) % 2 = 1

ClassifyRelayPacket(p) ==
  IF p.len < 2 THEN "other"
  ELSE CASE p.b0 < 64              -> "stun"
         [] p.b0 \in {128, 129}    -> "rtcp"
         [] p.b0 = 144             -> "rtp"
         [] OTHER                  -> "other"

\* Mutant of IsRtcpPacket: a report of the least length is not one.
IsRtcpPacketLonger(p) ==
  /\ p.len > RtcpHeaderLen + Trailer
  /\ p.b0 \div 64 = 2
  /\ ~(Extended(p) /\ p.b1 % 128 = RtpPayloadTypeOpus)
  /\ p.b1 >= 64

IsRtcpPacket(p) ==
  /\ p.len >= RtcpHeaderLen + Trailer
  /\ p.b0 \div 64 = 2
  /\ ~(Extended(p) /\ p.b1 % 128 = RtpPayloadTypeOpus)
  /\ p.b1 >= 64

\* Any packet comes off the relay next.
Arrives(packets) ==
  \E p \in packets : packet' = p /\ kind' = ClassifyRelayPacket(p) /\ rtcp' = IsRtcpPacket(p)

Init == \E p \in Stun : packet = p /\ kind = ClassifyRelayPacket(p) /\ rtcp = IsRtcpPacket(p)

Next == Arrives(Reports \cup Stun) \/ Arrives(Rtp(OpusTypes \cup {VideoType}))

Spec == Init /\ [][Next]_vars

-----------------------------------------------------------------------------
\* The two demultiplexers agree about every packet built here: the first byte
\* tells its kind, no report is missed, down to the shortest, and none is seen
\* in STUN or in audio of the payload type the sender uses.
ReportsAreSeen ==
  /\ kind = packet.made
  /\ packet.made = "rtcp" => rtcp
  /\ packet.made = "stun" => ~rtcp
  /\ packet.made = "rtp" /\ packet.b1 % 128 = RtpPayloadTypeOpus => ~rtcp

\* "IsRtcpPacket reports whether data is an RTCP packet (vs a WhatsApp RTP
\* packet)" (rtcp.go:22): of any payload type.
RtpIsNotRtcp == rtcp <=> packet.made = "rtcp"
=============================================================================

----------------------------- MODULE MediaPath ------------------------------
(***************************************************************************)
(* meowcaller/session.go: the audio of one direction of a call.  The       *)
(* sender's MediaPipeline puts payloads through ProtectAudio (RtpStream,   *)
(* RocTracker, encryption under the packet index), a network loses,        *)
(* duplicates and reorders the packets, and the receiver's pipeline puts   *)
(* what arrives through UnprotectAudio (RecvRocTracker, decryption).       *)
(*                                                                         *)
(* Encryption is modelled by the rollover count it was keyed with: the     *)
(* plaintext comes back exactly when the receiver guesses the same count.  *)
(* WarpPiggyback is FALSE here, as NewMediaPipeline passes it.             *)
(***************************************************************************)
EXTENDS RocTracker, FiniteSets

CONSTANTS TsMod, SamplesPerPacket,
          MaxPackets,   \* bound: audio packets of the call
          MaxVideo,     \* bound: video packets put through ProtectRTP
          VideoUntil,   \* bound: audio packets after which video is switched off
          MaxInFlight,  \* bound: packets in the network
          Window        \* assumption on the network, see Receive

ASSUME MediaAssumption == /\ TsMod \in Nat \ {0}
                          /\ SamplesPerPacket \in Nat
                          /\ MaxPackets \in Nat
                          /\ MaxVideo \in Nat /\ VideoUntil \in Nat
                          /\ MaxPackets + Half < SeqMod * RocMod
                          /\ Window \in 1..Half

VARIABLES stream,    \* the sender's RtpStream
          sendRoc,   \* the sender's RocTracker
          videoSeq,  \* the video sequencer of ProtectRTP's caller
          sent,      \* history: how many audio packets were sent
          net,       \* packets in flight
          recvRoc,   \* the receiver's RecvRocTracker
          highest,   \* history: highest index the receiver has folded, 0 before
          out        \* what the last UnprotectAudio returned

vars == <<stream, sendRoc, videoSeq, sent, net, recvRoc, highest, out>>
sender == <<stream, sendRoc, videoSeq, sent>>

S == INSTANCE RtpStream WITH StreamSeqMod <- SeqMod, WarpPiggyback <- FALSE, StartPacket <- 2

Payloads == {"speech", "empty"}

\* index is the packet's place in the stream, which the wire does not carry:
\* sequence numbers start at 1, so it is the number of packets so far.
Packets == [index : 1..MaxPackets, seq : Seqs, roc : Rocs, payload : Payloads]

Rejected == [ok |-> FALSE]
Decrypted(p, v) == [ok |-> TRUE, plain |-> v = p.roc]

TypeOK == /\ stream \in S!Streams
          /\ sendRoc \in SendTracker
          /\ videoSeq \in 0..MaxVideo
          /\ sent \in 0..MaxPackets
          /\ net \subseteq Packets
          /\ recvRoc \in RecvTracker
          /\ highest \in 0..MaxPackets
          /\ out \in {Rejected} \cup [ok : {TRUE}, plain : BOOLEAN]

\* NewMediaPipeline on both ends.
Init == /\ stream = S!NewRtpStream
        /\ sendRoc = NewSendTracker
        /\ videoSeq = 0
        /\ sent = 0
        /\ net = {}
        /\ recvRoc = NewRecvTracker
        /\ highest = 0
        /\ out = Rejected

ProtectAudio(payload) ==
  /\ sent < MaxPackets
  /\ Cardinality(net) < MaxInFlight
  /\ LET seq == S!NextPacketHeader(stream, payload, FALSE).seq
         roc == Advance(sendRoc, seq).roc
         packet == [index |-> sent + 1, seq |-> seq, roc |-> roc, payload |-> payload]
     IN /\ stream' = S!AfterNextPacket(stream, payload)
        /\ sendRoc' = Advance(sendRoc, seq)
        /\ sent' = sent + 1
        /\ net' = net \cup {packet}
  /\ UNCHANGED <<videoSeq, recvRoc, highest, out>>

\* ProtectRTP with the header of the caller's video sequencer: same tracker,
\* another stream's sequence number.  The video packet itself goes to another
\* receiver state and is not followed.
ProtectRTP == /\ videoSeq < MaxVideo
              /\ sent <= VideoUntil
              /\ videoSeq' = videoSeq + 1
              /\ sendRoc' = Advance(sendRoc, videoSeq' % SeqMod)
              /\ UNCHANGED <<stream, sent, net, recvRoc, highest, out>>

Lose(p) == /\ net' = net \ {p}
           /\ UNCHANGED <<sender, recvRoc, highest, out>>

\* A network that never holds a packet back for Window packets or more, nor
\* loses Window in a row, starting within the first turn of the counter.
Timely(p) == IF recvRoc.initialized THEN p.index - highest < Window /\ highest - p.index < Window
             ELSE p.index < SeqMod

\* UnprotectAudio refuses a packet whose header leaves no payload, before the
\* tracker sees it.
Accepted(p) == p.payload # "empty"

\* The network delivers p, or delivers a copy and keeps p.
Receive(p) ==
  /\ Timely(p)
  /\ net' \in {net, net \ {p}}
  /\ IF Accepted(p)
     THEN /\ out' = Decrypted(p, GuessRoc(recvRoc, p.seq))
          /\ recvRoc' = Fold(recvRoc, p.seq)
          /\ highest' = IF p.index > highest THEN p.index ELSE highest
     ELSE out' = Rejected /\ UNCHANGED <<recvRoc, highest>>
  /\ UNCHANGED sender

\* Something too short or without an RTP header arrives.
ReceiveMalformed == /\ out' = Rejected
                    /\ UNCHANGED <<sender, net, recvRoc, highest>>

Next == \/ \E payload \in Payloads : ProtectAudio(payload)
        \/ ProtectRTP
        \/ \E p \in net : Lose(p) \/ Receive(p)
        \/ ReceiveMalformed

Spec == Init /\ [][Next]_vars

-----------------------------------------------------------------------------
\* The sender's packet indexes are exact and distinct: the rollover count an
\* audio packet is encrypted under is the number of times its stream's
\* sequence number has wrapped (srtp/e2e.go:140 "the send-side ROC tracker for
\* monotonic 16-bit sequence numbers"), so no keystream is used twice.
SenderIndexExact == \A p \in net : PacketIndex(p.roc, p.seq) = p.index

\* On such a network whatever UnprotectAudio accepts comes out as it went in,
\* across any number of wraps, losses, duplicates and late packets.
DecryptsWhatWasSent == out.ok => out.plain

\* The receiver's two counters are the quotient and remainder of the highest
\* index it has seen.
TrackerIsHighest ==
  recvRoc.initialized => PacketIndex(recvRoc.roc, recvRoc.sL) = highest
=============================================================================

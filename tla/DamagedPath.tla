----------------------------- MODULE DamagedPath ----------------------------
(***************************************************************************)
(* meowcaller/session.go: what UnprotectAudio does to the receiver's       *)
(* rollover counter when a packet's header is damaged on the way.  The     *)
(* integrity tag is cut off unchecked, so the tracker folds whatever       *)
(* sequence number the packet shows.  Here the network keeps the order, it *)
(* loses packets, and it damages one; MediaPath has the network that       *)
(* reorders and damages nothing.                                           *)
(***************************************************************************)
EXTENDS RocTracker

CONSTANTS LossRun,  \* assumption on the network: packets missed in a row at most
          MaxSent   \* bound: packets of the stream

DamagedAssumption ==
  /\ LossRun \in 0..(Half - 2)
  /\ MaxSent \in Nat /\ MaxSent + Half < SeqMod * RocMod

VARIABLES recvRoc,  \* the receiver's RecvRocTracker
          sent,     \* packets sent so far, so the index of the last one
          missed,   \* packets in a row that did not arrive as they were sent
          damaged,  \* whether the one packet has been damaged
          plain     \* history: every packet that arrived as it was sent was decrypted

vars == <<recvRoc, sent, missed, damaged, plain>>

Init == /\ recvRoc = NewRecvTracker
        /\ sent = 0
        /\ missed = 0
        /\ damaged = FALSE
        /\ plain = TRUE

\* The next packet: sequence numbers start at 1.
Seq == (sent + 1) % SeqMod
Roc == ((sent + 1) \div SeqMod) % RocMod

Deliver == /\ sent < MaxSent
           /\ sent' = sent + 1
           /\ missed' = 0
           /\ plain' = (plain /\ GuessRoc(recvRoc, Seq) = Roc)
           /\ recvRoc' = Fold(recvRoc, Seq)
           /\ UNCHANGED damaged

Miss == /\ sent < MaxSent /\ missed < LossRun
        /\ sent' = sent + 1
        /\ missed' = missed + 1
        /\ UNCHANGED plain

Lose == Miss /\ UNCHANGED <<recvRoc, damaged>>

\* It arrives with another sequence number.  The first packet of all is spared:
\* it seeds the tracker with whatever it shows.
Damage == /\ recvRoc.initialized /\ ~damaged
          /\ Miss
          /\ damaged' = TRUE
          /\ \E seq \in Seqs : recvRoc' = Fold(recvRoc, seq)

Next == Deliver \/ Lose \/ Damage

Spec == Init /\ [][Next]_vars

-----------------------------------------------------------------------------
\* The damaged packet itself comes out as noise, but whichever sequence number
\* it showed, the packets after it are decrypted as they were meant: it moves
\* the tracker by half a turn at most, and the stream catches up with it.
OneDamagedPacketHarmless == plain
=============================================================================

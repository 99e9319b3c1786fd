-------------------------- MODULE MediaPathProofs ---------------------------
(***************************************************************************)
(* The rollover counters are exact for every size of the sequence number   *)
(* space and every length of the call, without video and with video that   *)
(* the shared send tracker cannot take for a wrap.                         *)
(***************************************************************************)
EXTENDS MediaPath, RocTrackerProofs, TLAPS

\* No video, or only while neither sequence has passed half a turn.
VideoEarly == \/ MaxVideo = 0
              \/ Half > 2 /\ MaxVideo <= Half + 1 /\ VideoUntil <= Half + 1

\* The last packet was audio: the counters are its index.
AfterAudio ==
  /\ PacketIndex(sendRoc.roc, sendRoc.lastSeq) = sent
  /\ stream.seq = IF sendRoc.lastSeq = SeqMod - 1 THEN 0 ELSE sendRoc.lastSeq + 1

\* It was video: early, so that no wrap has been counted.
AfterVideo ==
  /\ MaxVideo # 0 /\ sent <= VideoUntil
  /\ sendRoc.roc = 0 /\ sendRoc.lastSeq <= MaxVideo
  /\ stream.seq = sent + 1

\* The sender's counters follow the number of packets sent.
SenderCounts ==
  /\ ~sendRoc.initialized => sendRoc = NewSendTracker /\ sent = 0 /\ stream.seq = 1
  /\ sendRoc.initialized => AfterAudio \/ AfterVideo

\* The receiver's counters follow the highest index seen.
ReceiverCounts ==
  /\ ~recvRoc.initialized => recvRoc = NewRecvTracker /\ highest = 0
  /\ TrackerIsHighest

MediaInv == TypeOK /\ SenderCounts /\ ReceiverCounts /\ SenderIndexExact /\ DecryptsWhatWasSent

\* One packet through the sequencer and the send tracker.
LEMMA SendStep ==
  ASSUME VideoEarly, MediaInv, NEW payload \in Payloads, sent < MaxPackets
  PROVE  LET seq == S!NextPacketHeader(stream, payload, FALSE).seq
             new == Advance(sendRoc, seq)
         IN /\ seq = stream.seq /\ seq \in Seqs
            /\ new \in SendTracker /\ new.initialized /\ new.lastSeq = seq
            /\ PacketIndex(new.roc, seq) = sent + 1
            /\ S!AfterNextPacket(stream, payload) \in S!Streams
            /\ S!AfterNextPacket(stream, payload).seq = IF seq = SeqMod - 1 THEN 0 ELSE seq + 1
<1> DEFINE seq == S!NextPacketHeader(stream, payload, FALSE).seq
           new == Advance(sendRoc, seq)
           M == SeqMod
           r == sendRoc.roc
           l == sendRoc.lastSeq
<1>1. /\ M \in Nat /\ M = Half + Half /\ Half \in Nat /\ Half > 1 /\ M > 3
      /\ r \in Nat /\ r < RocMod /\ l \in Nat /\ l < M /\ RocMod \in Nat
      /\ sent \in Nat /\ sent < MaxPackets /\ MaxPackets \in Nat
      /\ sendRoc = [roc |-> r, lastSeq |-> l, initialized |-> sendRoc.initialized]
      /\ sendRoc.initialized \in BOOLEAN
  BY RocAssumption, MediaAssumption DEF MediaInv, TypeOK, SendTracker, Rocs, Seqs, SeqMod
<1>2. seq = stream.seq
  BY DEF S!NextPacketHeader, S!Header
<1>3. stream \in S!Streams /\ stream.seq \in Seqs
  BY DEF MediaInv, TypeOK, S!Streams, Seqs
<1>4. /\ S!AfterNextPacket(stream, payload) \in S!Streams
      /\ S!AfterNextPacket(stream, payload).seq = IF seq = M - 1 THEN 0 ELSE seq + 1
  <2> DEFINE dtx == S!IsOpusDtxPayload(payload)
             started == stream.speechStarted \/ S!IsSpeech(payload)
             sq == (stream.seq + 1) % M
             tm == (stream.timestamp + SamplesPerPacket) % TsMod
  <2>1. S!AfterNextPacket(stream, payload) =
          [seq |-> sq, timestamp |-> tm, speechStarted |-> started,
           audioPacketIndex |-> stream.audioPacketIndex]
    BY DEF S!AfterNextPacket, S!Step, S!AfterExtension
  <2>2. sq = IF seq = M - 1 THEN 0 ELSE seq + 1
    <3>1. CASE stream.seq = M - 1
      BY <3>1, <1>1, <1>2, <1>3, NoWrapSeq
    <3>2. CASE stream.seq # M - 1
      <4>1. stream.seq + 1 \in Seqs
        BY <3>2, <1>1, <1>3 DEF Seqs
      <4> QED
        BY <3>2, <4>1, <1>2, NoWrapSeq
    <3> QED
      BY <3>1, <3>2
  <2>3. sq \in Seqs
    BY <2>2, <1>1, <1>2, <1>3 DEF Seqs
  <2>4. tm \in 0..(TsMod - 1)
    BY <1>3, MediaAssumption DEF S!Streams
  <2>5. started \in BOOLEAN /\ stream.audioPacketIndex \in Nat
    BY <1>3 DEF S!Streams, S!IsSpeech, S!IsOpusDtxPayload, S!IsOpusPrimingPayload
  <2> HIDE DEF started, sq, tm, seq
  <2> QED
    BY <2>1, <2>2, <2>3, <2>4, <2>5 DEF S!Streams, Seqs
<1>7. new = Advance(sendRoc, seq)
  OBVIOUS
<1>8. r = sendRoc.roc /\ l = sendRoc.lastSeq
  OBVIOUS
<1> DEFINE Goal == /\ seq = stream.seq /\ seq \in Seqs
                   /\ new \in SendTracker /\ new.initialized /\ new.lastSeq = seq
                   /\ PacketIndex(new.roc, seq) = sent + 1
                   /\ S!AfterNextPacket(stream, payload) \in S!Streams
                   /\ S!AfterNextPacket(stream, payload).seq = IF seq = M - 1 THEN 0 ELSE seq + 1
<1> SUFFICES Goal
  OBVIOUS
<1> HIDE DEF seq, new, r, l
<1>5. CASE ~sendRoc.initialized
  <2>1. new = [roc |-> 0, lastSeq |-> 1, initialized |-> TRUE] /\ seq = 1 /\ sent = 0
    <3>1. sendRoc = NewSendTracker /\ sent = 0 /\ stream.seq = 1
      BY <1>5 DEF MediaInv, SenderCounts
    <3> QED
      BY <3>1, <1>5, <1>2, <1>7 DEF NewSendTracker, Advance
  <2>2. new \in SendTracker
    BY <2>1, <1>1 DEF SendTracker, Rocs, Seqs
  <2>3. new.roc = 0 /\ new.initialized /\ new.lastSeq = seq
    BY <2>1
  <2>4. PacketIndex(new.roc, seq) = sent + 1
    BY <1>1, <2>1, <2>3 DEF PacketIndex
  <2> QED
    BY <2>2, <2>3, <2>4, <1>2, <1>3, <1>4
<1>9. CASE sendRoc.initialized /\ AfterVideo
  <2>1. /\ sent <= VideoUntil /\ r = 0 /\ l <= MaxVideo /\ seq = sent + 1
        /\ MaxVideo <= Half + 1 /\ VideoUntil <= Half + 1 /\ Half > 2
        /\ MaxVideo \in Nat /\ VideoUntil \in Nat
    BY <1>9, <1>2, <1>8, MediaAssumption DEF AfterVideo, VideoEarly
  <2>2. ~(seq - l < -Half)
    BY <1>1, <2>1
  <2>3. new = [roc |-> 0, lastSeq |-> seq, initialized |-> TRUE]
    BY <2>1, <2>2, <1>7, <1>8 DEF Advance
  <2>4. new \in SendTracker
    BY <2>3, <1>1, <1>2, <1>3 DEF SendTracker, Rocs
  <2>5. PacketIndex(new.roc, seq) = sent + 1
    BY <1>1, <2>1, <2>3 DEF PacketIndex
  <2> QED
    BY <2>3, <2>4, <2>5, <1>2, <1>3, <1>4
<1>6. CASE sendRoc.initialized /\ AfterAudio
  <2>1. sent = r * M + l /\ seq = IF l = M - 1 THEN 0 ELSE l + 1
    BY <1>6, <1>2, <1>8 DEF AfterAudio, PacketIndex
  <2>2. CASE l # M - 1
    <3>1. new = [roc |-> r, lastSeq |-> seq, initialized |-> TRUE]
      <4>1. ~(seq - l < -Half)
        BY <1>1, <2>1, <2>2
      <4> QED
        BY <4>1, <1>7, <1>8 DEF Advance
    <3>2. new \in SendTracker
      BY <3>1, <1>1, <1>2, <1>3 DEF SendTracker, Rocs
    <3>3. r * M \in Nat
      BY <1>1
    <3>4. PacketIndex(new.roc, seq) = sent + 1
      BY <1>1, <2>1, <2>2, <3>1, <3>3 DEF PacketIndex
    <3> QED
      BY <3>1, <3>2, <3>4, <1>2, <1>3, <1>4
  <2>3. CASE l = M - 1
    <3>1. r + 1 < RocMod
      <4>1. CASE r + 1 = RocMod
        <5>1. RocMod * M = r * M + M
          BY <4>1, <1>1, Turns
        <5>2. sent + Half < RocMod * M
          BY <1>1, MediaAssumption
        <5>3. r * M \in Nat
          BY <1>1
        <5> QED
          BY <5>1, <5>2, <5>3, <2>1, <2>3, <1>1
      <4> QED
        BY <4>1, <1>1
    <3>2. (r + 1) % RocMod = r + 1
      BY <3>1, <1>1, NoWrap DEF Rocs
    <3>3. new = [roc |-> r + 1, lastSeq |-> seq, initialized |-> TRUE]
      <4>1. seq = 0 /\ seq - l < -Half
        BY <1>1, <2>1, <2>3
      <4> QED
        BY <1>6, <1>7, <1>8, <3>2, <4>1 DEF Advance
    <3>4. new \in SendTracker
      BY <3>1, <3>3, <1>1, <1>2, <1>3 DEF SendTracker, Rocs
    <3>5. (r + 1) * M = r * M + M /\ r * M \in Nat
      BY <1>1, Turns
    <3>6. PacketIndex(new.roc, seq) = sent + 1
      BY <1>1, <2>1, <2>3, <3>3, <3>5 DEF PacketIndex
    <3> QED
      BY <3>3, <3>4, <3>6, <1>2, <1>3, <1>4
  <2> QED
    BY <2>2, <2>3
<1> QED
  BY <1>5, <1>6, <1>9, <1>1 DEF MediaInv, SenderCounts

\* A video packet that early leaves the rollover count at 0.
LEMMA VideoStep ==
  ASSUME VideoEarly, MediaInv, ProtectRTP
  PROVE  sendRoc' \in SendTracker /\ sendRoc'.initialized /\ AfterVideo'
<1> DEFINE M == SeqMod
           r == sendRoc.roc
           l == sendRoc.lastSeq
           v == videoSeq + 1
<1>1. /\ Half \in Nat /\ Half > 2 /\ M = Half + Half /\ M \in Nat /\ RocMod \in Nat /\ RocMod > 2
      /\ MaxVideo \in Nat /\ VideoUntil \in Nat /\ videoSeq \in Nat /\ sent \in Nat
      /\ videoSeq < MaxVideo /\ sent <= VideoUntil /\ MaxVideo <= Half + 1 /\ VideoUntil <= Half + 1
      /\ r \in Nat /\ l \in Nat
  BY RocAssumption, MediaAssumption DEF ProtectRTP, VideoEarly, MediaInv, TypeOK, SendTracker, Rocs, Seqs, SeqMod
<1>2. v \in Seqs /\ v % M = v /\ v <= MaxVideo
  BY <1>1, NoWrapSeq DEF Seqs
<1>3. /\ videoSeq' = v /\ sendRoc' = Advance(sendRoc, v)
      /\ UNCHANGED <<stream, sent>>
  BY <1>2 DEF ProtectRTP
<1>4. r = 0 /\ stream.seq = sent + 1 /\ (sendRoc.initialized => ~(v - l < -Half))
  <2>1. CASE ~sendRoc.initialized
    BY <2>1, <1>1 DEF MediaInv, SenderCounts, NewSendTracker
  <2>2. CASE sendRoc.initialized /\ AfterVideo
    BY <2>2, <1>1 DEF AfterVideo
  <2>3. CASE sendRoc.initialized /\ AfterAudio
    <3>1. r * M + l = sent /\ stream.seq = IF l = M - 1 THEN 0 ELSE l + 1
      BY <2>3 DEF AfterAudio, PacketIndex
    <3>2. r = 0
      <4>1. CASE r > 0
        <5>1. r * M >= 0 * M + M /\ r * M \in Nat
          BY <4>1, <1>1, Turns
        <5> QED
          BY <5>1, <3>1, <1>1
      <4> QED
        BY <4>1, <1>1
    <3>3. l = sent
      BY <3>1, <3>2, <1>1
    <3> HIDE DEF r, l, M
    <3> QED
      BY <3>1, <3>2, <3>3, <1>1
  <2> QED
    BY <2>1, <2>2, <2>3 DEF MediaInv, SenderCounts
<1>5. sendRoc' = [roc |-> 0, lastSeq |-> v, initialized |-> TRUE]
  BY <1>3, <1>4 DEF Advance
<1> HIDE DEF v
<1>6. sendRoc' \in SendTracker
  BY <1>1, <1>2, <1>5 DEF SendTracker, Rocs
<1>7. AfterVideo'
  BY <1>1, <1>2, <1>3, <1>4, <1>5 DEF AfterVideo
<1> QED
  BY <1>5, <1>6, <1>7

\* One timely packet through the receive tracker.
LEMMA ReceiveStep ==
  ASSUME MediaInv, NEW p \in net, Timely(p)
  PROVE  LET new == Fold(recvRoc, p.seq)
             top == IF p.index > highest THEN p.index ELSE highest
         IN /\ GuessRoc(recvRoc, p.seq) = p.roc
            /\ new \in RecvTracker /\ new.initialized
            /\ PacketIndex(new.roc, new.sL) = top
            /\ top \in 0..MaxPackets
<1>1. /\ p \in Packets /\ p.roc \in Rocs /\ p.seq \in Seqs /\ p.index \in 1..MaxPackets
      /\ PacketIndex(p.roc, p.seq) = p.index
      /\ highest \in 0..MaxPackets /\ MaxPackets \in Nat
      /\ recvRoc \in RecvTracker
      /\ Half \in Nat /\ Half > 1 /\ SeqMod = Half + Half /\ Window \in 1..Half /\ RocMod \in Nat /\ RocMod > 2
  BY RocAssumption, MediaAssumption DEF MediaInv, TypeOK, SenderIndexExact, Packets, SeqMod
<1>2. CASE recvRoc.initialized
  <2>1. PacketIndex(recvRoc.roc, recvRoc.sL) = highest
    BY <1>2 DEF MediaInv, ReceiverCounts, TrackerIsHighest
  <2>2. p.index - highest < Half /\ highest - p.index < Half
    BY <1>1, <1>2 DEF Timely
  <2> QED
    BY <1>1, <1>2, <2>1, <2>2, GuessExact
<1>3. CASE ~recvRoc.initialized
  <2>1. p.index < SeqMod /\ recvRoc = NewRecvTracker /\ highest = 0
    BY <1>3 DEF Timely, MediaInv, ReceiverCounts
  <2>2. p.roc = 0
    <3>1. CASE p.roc > 0
      <4>1. p.roc * SeqMod >= 0 * SeqMod + SeqMod /\ p.roc * SeqMod \in Nat
        BY <3>1, <1>1, Turns DEF Rocs
      <4> QED
        BY <4>1, <2>1, <1>1 DEF PacketIndex, Seqs
    <3> QED
      BY <3>1, <1>1 DEF Rocs
  <2>3. GuessRoc(recvRoc, p.seq) = 0
    BY <2>1 DEF GuessRoc, NewRecvTracker
  <2>4. Fold(recvRoc, p.seq) = [roc |-> 0, sL |-> p.seq, initialized |-> TRUE]
    BY <2>1 DEF Fold, NewRecvTracker
  <2>5. Fold(recvRoc, p.seq) \in RecvTracker
    BY <2>4, <1>1 DEF RecvTracker, Rocs
  <2>6. PacketIndex(0, p.seq) = p.index
    BY <2>2, <1>1
  <2> QED
    BY <2>1, <2>2, <2>3, <2>4, <2>5, <2>6, <1>1
<1> QED
  BY <1>2, <1>3

\* A pipeline that sends audio, and video early or not at all, keeps all of it.
LEMMA MediaInvStep == VideoEarly /\ MediaInv /\ [Next]_vars => MediaInv'
<1> SUFFICES ASSUME VideoEarly, MediaInv, [Next]_vars PROVE MediaInv'
  OBVIOUS
<1>1. ASSUME NEW payload \in Payloads, ProtectAudio(payload) PROVE MediaInv'
  <2> DEFINE seq == S!NextPacketHeader(stream, payload, FALSE).seq
             new == Advance(sendRoc, seq)
             packet == [index |-> sent + 1, seq |-> seq, roc |-> new.roc, payload |-> payload]
             after == S!AfterNextPacket(stream, payload)
  <2>1. /\ seq = stream.seq /\ seq \in Seqs
        /\ new \in SendTracker /\ new.initialized /\ new.lastSeq = seq
        /\ PacketIndex(new.roc, seq) = sent + 1
        /\ after \in S!Streams
        /\ after.seq = IF seq = SeqMod - 1 THEN 0 ELSE seq + 1
    BY <1>1, SendStep DEF ProtectAudio
  <2>2. /\ sent < MaxPackets /\ stream' = after /\ sendRoc' = new
        /\ sent' = sent + 1 /\ net' = net \cup {packet}
        /\ UNCHANGED <<videoSeq, recvRoc, highest, out>>
    BY <1>1 DEF ProtectAudio
  <2> HIDE DEF seq, new, after
  <2>3. packet \in Packets /\ sent' \in 0..MaxPackets
    <3>1. sent \in 0..MaxPackets /\ MaxPackets \in Nat
      BY MediaAssumption DEF MediaInv, TypeOK
    <3>2. sent + 1 \in 1..MaxPackets
      BY <3>1, <2>2
    <3> QED
      BY <3>1, <3>2, <2>1, <2>2 DEF Packets, SendTracker
  <2>4. TypeOK'
    BY <2>1, <2>2, <2>3 DEF MediaInv, TypeOK
  <2>5. SenderCounts'
    BY <2>1, <2>2 DEF SenderCounts, AfterAudio
  <2>6. ReceiverCounts'
    BY <2>2 DEF MediaInv, ReceiverCounts, TrackerIsHighest
  <2>7. SenderIndexExact'
    BY <2>1, <2>2 DEF MediaInv, SenderIndexExact
  <2>8. DecryptsWhatWasSent'
    BY <2>2 DEF MediaInv, DecryptsWhatWasSent
  <2> QED
    BY <2>4, <2>5, <2>6, <2>7, <2>8 DEF MediaInv
<1>2. CASE ProtectRTP
  <2>1. sendRoc' \in SendTracker /\ sendRoc'.initialized /\ AfterVideo'
    BY <1>2, VideoStep
  <2>2. /\ videoSeq' \in 0..MaxVideo
        /\ UNCHANGED <<stream, sent, net, recvRoc, highest, out>>
    BY <1>2, MediaAssumption DEF ProtectRTP, MediaInv, TypeOK
  <2> QED
    BY <2>1, <2>2 DEF MediaInv, TypeOK, SenderCounts, ReceiverCounts, TrackerIsHighest,
                      SenderIndexExact, DecryptsWhatWasSent
<1>3. ASSUME NEW p \in net, Lose(p) PROVE MediaInv'
  BY <1>3 DEF Lose, sender, MediaInv, TypeOK, SenderCounts, AfterAudio, AfterVideo, ReceiverCounts, TrackerIsHighest,
              SenderIndexExact, DecryptsWhatWasSent
<1>4. ASSUME NEW p \in net, Receive(p) PROVE MediaInv'
  <2>1. CASE Accepted(p)
    <3> DEFINE new == Fold(recvRoc, p.seq)
               top == IF p.index > highest THEN p.index ELSE highest
    <3>1. /\ GuessRoc(recvRoc, p.seq) = p.roc
          /\ new \in RecvTracker /\ new.initialized
          /\ PacketIndex(new.roc, new.sL) = top
          /\ top \in 0..MaxPackets
      BY <1>4, ReceiveStep DEF Receive
    <3>2. /\ recvRoc' = new /\ highest' = top /\ out' = Decrypted(p, GuessRoc(recvRoc, p.seq))
          /\ net' \subseteq net
          /\ UNCHANGED sender
      BY <1>4, <2>1 DEF Receive
    <3> HIDE DEF new, top
    <3>3. out' = [ok |-> TRUE, plain |-> TRUE]
      BY <3>1, <3>2 DEF Decrypted
    <3>4. TypeOK'
      BY <3>1, <3>2, <3>3 DEF MediaInv, TypeOK, sender
    <3>5. SenderCounts' /\ SenderIndexExact'
      BY <3>2 DEF MediaInv, SenderCounts, AfterAudio, AfterVideo, SenderIndexExact, sender
    <3>6. ReceiverCounts'
      BY <3>1, <3>2 DEF ReceiverCounts, TrackerIsHighest
    <3>7. DecryptsWhatWasSent'
      BY <3>3 DEF DecryptsWhatWasSent
    <3> QED
      BY <3>4, <3>5, <3>6, <3>7 DEF MediaInv
  <2>2. CASE ~Accepted(p)
    <3>1. /\ net' \subseteq net /\ out' = Rejected
          /\ UNCHANGED <<sender, recvRoc, highest>>
      BY <1>4, <2>2 DEF Receive
    <3> QED
      BY <3>1 DEF sender, MediaInv, TypeOK, SenderCounts, AfterAudio, AfterVideo, ReceiverCounts,
                  TrackerIsHighest, SenderIndexExact, DecryptsWhatWasSent, Rejected
  <2> QED
    BY <2>1, <2>2
<1>5. CASE ReceiveMalformed
  BY <1>5 DEF ReceiveMalformed, sender, MediaInv, TypeOK, SenderCounts, AfterAudio, AfterVideo, ReceiverCounts,
              TrackerIsHighest, SenderIndexExact, DecryptsWhatWasSent, Rejected
<1>6. CASE UNCHANGED vars
  BY <1>6 DEF vars, MediaInv, TypeOK, SenderCounts, AfterAudio, AfterVideo, ReceiverCounts, TrackerIsHighest,
              SenderIndexExact, DecryptsWhatWasSent
<1> QED
  BY <1>1, <1>2, <1>3, <1>4, <1>5, <1>6 DEF Next

\* Audio arrives as it was sent: for every size of the sequence number space,
\* length of the call and in-flight bound, a sender that sends no video, or only
\* before either sequence has passed half a turn, uses the exact packet indexes,
\* and a receiver behind a network that stays within half a turn decrypts every
\* packet it accepts under the right one (session.go:189-251).
THEOREM AudioDecrypts ==
  VideoEarly /\ Spec => [](SenderIndexExact /\ DecryptsWhatWasSent /\ TrackerIsHighest)
<1>1. VideoEarly /\ Init => MediaInv
  <2> SUFFICES ASSUME VideoEarly, Init PROVE MediaInv
    OBVIOUS
  <2>1. stream \in S!Streams /\ stream.seq = 1
    BY RocAssumption, MediaAssumption DEF Init, S!NewRtpStream, S!Streams, SeqMod
  <2>2. sendRoc \in SendTracker /\ recvRoc \in RecvTracker
    BY RocAssumption DEF Init, NewSendTracker, NewRecvTracker, SendTracker, RecvTracker, Rocs, Seqs, SeqMod
  <2>3. TypeOK
    BY <2>1, <2>2, MediaAssumption DEF Init, TypeOK
  <2>4. SenderCounts
    BY <2>1 DEF Init, SenderCounts, NewSendTracker
  <2>5. ReceiverCounts
    BY DEF Init, ReceiverCounts, TrackerIsHighest, NewRecvTracker
  <2> QED
    BY <2>3, <2>4, <2>5 DEF Init, MediaInv, SenderIndexExact, DecryptsWhatWasSent, Rejected
<1>2. MediaInv => SenderIndexExact /\ DecryptsWhatWasSent /\ TrackerIsHighest
  BY DEF MediaInv, ReceiverCounts
<1>3. VideoEarly => VideoEarly'
  BY DEF VideoEarly
<1> QED
  BY <1>1, <1>2, <1>3, MediaInvStep, PTL DEF Spec
=============================================================================

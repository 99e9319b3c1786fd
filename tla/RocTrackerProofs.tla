-------------------------- MODULE RocTrackerProofs --------------------------
(***************************************************************************)
(* What one packet does to the receiver's tracker, for every size of the   *)
(* sequence number space: a packet within half a turn is placed exactly,   *)
(* and no packet, whatever it shows, moves the tracker by more than that.  *)
(***************************************************************************)
EXTENDS RocTracker, TLAPS

\* What the arithmetic below needs of two rollover counts that differ.
LEMMA Turns ==
  ASSUME NEW q \in Nat, NEW r \in Nat
  PROVE  /\ q > r => q * SeqMod >= r * SeqMod + SeqMod
         /\ q > r + 1 => q * SeqMod >= r * SeqMod + SeqMod + SeqMod
         /\ (r + 1) * SeqMod = r * SeqMod + SeqMod
         /\ q = r + 1 => q * SeqMod = r * SeqMod + SeqMod
         /\ q * SeqMod \in Nat /\ r * SeqMod \in Nat
<1> DEFINE M == SeqMod
<1>1. M \in Nat
  BY RocAssumption DEF SeqMod
<1> HIDE DEF M
<1>2. q > r => q * M >= r * M + M
  <2> SUFFICES ASSUME q > r PROVE q * M >= r * M + M
    OBVIOUS
  <2>1. PICK k \in Nat : q = r + 1 + k
    <3>1. q - r - 1 \in Nat /\ q = r + 1 + (q - r - 1)
      OBVIOUS
    <3> QED
      BY <3>1
  <2>2. q * M = r * M + M + k * M /\ k * M \in Nat /\ r * M \in Nat
    BY <1>1, <2>1
  <2> QED
    BY <2>1, <2>2, <1>1
<1>3. q > r + 1 => q * M >= r * M + M + M
  <2> SUFFICES ASSUME q > r + 1 PROVE q * M >= r * M + M + M
    OBVIOUS
  <2>1. PICK k \in Nat : q = r + 2 + k
    <3>1. q - r - 2 \in Nat /\ q = r + 2 + (q - r - 2)
      OBVIOUS
    <3> QED
      BY <3>1
  <2>2. q * M = r * M + M + M + k * M /\ k * M \in Nat /\ r * M \in Nat
    BY <1>1, <2>1
  <2> QED
    BY <2>1, <2>2, <1>1
<1>4. (r + 1) * M = r * M + M /\ q * M \in Nat /\ r * M \in Nat
  BY <1>1
<1> QED
  BY <1>2, <1>3, <1>4 DEF M

\* A rollover count that lies strictly between 0 and the bound is not changed
\* by the wrap of its 32-bit arithmetic.
LEMMA NoWrap == ASSUME NEW x \in Rocs PROVE x % RocMod = x
  BY RocAssumption DEF Rocs

\* The same for 16-bit sequence numbers and for what stays within one turn.
LEMMA NoWrapSeq == /\ \A x \in Seqs : x % SeqMod = x
                   /\ SeqMod % SeqMod = 0
  BY RocAssumption DEF Seqs, SeqMod

\* The guess is exact: for a tracker that stands at the highest index, a packet
\* less than half a turn away (ahead or late) is given the rollover count it
\* was sent under, and the tracker stands at the higher of the two after it.
LEMMA GuessExact ==
  ASSUME NEW t \in RecvTracker, t.initialized,
         NEW q \in Rocs, NEW s \in Seqs,
         PacketIndex(q, s) - PacketIndex(t.roc, t.sL) < Half,
         PacketIndex(t.roc, t.sL) - PacketIndex(q, s) < Half
  PROVE  /\ GuessRoc(t, s) = q
         /\ Fold(t, s) \in RecvTracker
         /\ Fold(t, s).initialized
         /\ PacketIndex(Fold(t, s).roc, Fold(t, s).sL) =
              IF PacketIndex(q, s) > PacketIndex(t.roc, t.sL)
              THEN PacketIndex(q, s) ELSE PacketIndex(t.roc, t.sL)
<1> DEFINE r == t.roc
           l == t.sL
<1>1. /\ r \in Nat /\ q \in Nat /\ l \in Nat /\ s \in Nat
      /\ r < RocMod /\ q < RocMod /\ l < SeqMod /\ s < SeqMod
      /\ Half \in Nat /\ Half > 1 /\ SeqMod = Half + Half /\ RocMod \in Nat /\ RocMod > 2
  BY RocAssumption DEF RecvTracker, Rocs, Seqs, SeqMod
<1>2. t = [roc |-> r, sL |-> l, initialized |-> TRUE]
  BY DEF RecvTracker
<1>3. /\ q * SeqMod + s - (r * SeqMod + l) < Half
      /\ r * SeqMod + l - (q * SeqMod + s) < Half
      /\ q * SeqMod \in Nat /\ r * SeqMod \in Nat
  BY <1>1, Turns DEF PacketIndex
<1> HIDE DEF r, l
<1>4. ~(q > r + 1) /\ ~(r > q + 1)
  <2>1. ASSUME q > r + 1 PROVE FALSE
    <3>1. q * SeqMod >= r * SeqMod + SeqMod + SeqMod
      BY <2>1, <1>1, Turns
    <3> QED
      BY <3>1, <1>1, <1>3
  <2>2. ASSUME r > q + 1 PROVE FALSE
    <3>1. r * SeqMod >= q * SeqMod + SeqMod + SeqMod
      BY <2>2, <1>1, Turns
    <3> QED
      BY <3>1, <1>1, <1>3
  <2> QED
    BY <2>1, <2>2
<1>5. q % RocMod = q /\ r % RocMod = r
  BY <1>1, NoWrap DEF Rocs
<1>6. CASE q = r
  <2>1. s - l < Half /\ l - s < Half
    BY <1>6, <1>1, <1>3
  <2>2. ~(l < Half /\ s - l > Half) /\ ~(l >= Half /\ l - s > Half)
    BY <2>1, <1>1
  <2>3. GuessRoc(t, s) = q
    BY <2>2, <1>2, <1>6 DEF GuessRoc, Estimate
  <2>4. Fold(t, s) = [roc |-> q, sL |-> IF s > l THEN s ELSE l, initialized |-> TRUE]
    BY <2>3, <1>2, <1>6 DEF Fold
  <2>5. s > l <=> q * SeqMod + s > r * SeqMod + l
    BY <1>6, <1>1, <1>3
  <2>6. Fold(t, s) \in RecvTracker
    BY <2>4, <1>1 DEF RecvTracker, Rocs, Seqs
  <2> QED
    BY <2>3, <2>4, <2>5, <2>6, <1>2, <1>6 DEF PacketIndex
<1>7. CASE q = r + 1
  <2>0. q * SeqMod = r * SeqMod + SeqMod
    BY <1>1, <1>7, Turns
  <2>1. l >= Half /\ l - s > Half
    BY <2>0, <1>1, <1>3
  <2>2. GuessRoc(t, s) = q
    <3>1. GuessRoc(t, s) = (r + 1) % RocMod
      BY <2>1, <1>1, <1>2 DEF GuessRoc, Estimate
    <3> QED
      BY <3>1, <1>5, <1>7
  <2>3. Fold(t, s) = [roc |-> q, sL |-> s, initialized |-> TRUE]
    <3>1. q # r /\ q = (r + 1) % RocMod
      BY <1>1, <1>5, <1>7
    <3> QED
      BY <3>1, <2>2, <1>2 DEF Fold
  <2>4. q * SeqMod + s > r * SeqMod + l
    BY <2>0, <1>1, <1>3
  <2>5. Fold(t, s) \in RecvTracker
    BY <2>3, <1>1 DEF RecvTracker, Rocs, Seqs
  <2> QED
    BY <2>2, <2>3, <2>4, <2>5, <1>2 DEF PacketIndex
<1>8. CASE r = q + 1
  <2>0. r * SeqMod = q * SeqMod + SeqMod
    BY <1>1, <1>8, Turns
  <2>1. l < Half /\ s - l > Half
    BY <2>0, <1>1, <1>3
  <2>2. GuessRoc(t, s) = q
    <3>1. GuessRoc(t, s) = (r - 1) % RocMod
      BY <2>1, <1>1, <1>2 DEF GuessRoc, Estimate
    <3>2. r - 1 = q
      BY <1>1, <1>8
    <3> QED
      BY <3>1, <3>2, <1>5
  <2>3. Fold(t, s) = t
    <3>1. q # r
      BY <1>1, <1>8
    <3>2. q # (r + 1) % RocMod
      <4>1. CASE r + 1 < RocMod
        <5>1. (r + 1) % RocMod = r + 1
          BY <4>1, <1>1, NoWrap DEF Rocs
        <5> QED
          BY <5>1, <1>1, <1>8
      <4>2. CASE r + 1 = RocMod
        <5>1. (r + 1) % RocMod = 0
          BY <4>2, <1>1
        <5> QED
          BY <5>1, <4>2, <1>1, <1>8
      <4> QED
        BY <4>1, <4>2, <1>1
    <3> QED
      BY <3>1, <3>2, <2>2, <1>2 DEF Fold
  <2>4. ~(q * SeqMod + s > r * SeqMod + l)
    BY <2>0, <1>1, <1>3
  <2> QED
    BY <2>2, <2>3, <2>4, <1>2, <1>1 DEF PacketIndex
<1> QED
  BY <1>1, <1>4, <1>6, <1>7, <1>8

\* Whatever sequence number a packet shows, it moves the tracker forward by half
\* a turn at most and never back.
LEMMA FoldBounded ==
  ASSUME NEW t \in RecvTracker, t.initialized, NEW s \in Seqs,
         PacketIndex(t.roc, t.sL) + Half < SeqMod * RocMod
  PROVE  /\ Fold(t, s) \in RecvTracker
         /\ Fold(t, s).initialized
         /\ PacketIndex(Fold(t, s).roc, Fold(t, s).sL) >= PacketIndex(t.roc, t.sL)
         /\ PacketIndex(Fold(t, s).roc, Fold(t, s).sL) <= PacketIndex(t.roc, t.sL) + Half
<1> DEFINE r == t.roc
           l == t.sL
<1>1. /\ r \in Nat /\ l \in Nat /\ s \in Nat
      /\ r < RocMod /\ l < SeqMod /\ s < SeqMod
      /\ Half \in Nat /\ Half > 1 /\ SeqMod = Half + Half /\ RocMod \in Nat /\ RocMod > 2
  BY RocAssumption DEF RecvTracker, Rocs, Seqs, SeqMod
<1>2. t = [roc |-> r, sL |-> l, initialized |-> TRUE]
  BY DEF RecvTracker
<1>3. r * SeqMod + l + Half < SeqMod * RocMod /\ r * SeqMod \in Nat /\ (r + 1) * SeqMod = r * SeqMod + SeqMod
  BY <1>1, Turns DEF PacketIndex
<1> HIDE DEF r, l
<1>4. CASE l >= Half /\ l - s > Half
  <2>1. r + 1 < RocMod
    <3>1. SUFFICES ASSUME r + 1 = RocMod PROVE FALSE
      BY <1>1
    <3>2. SeqMod * RocMod = r * SeqMod + SeqMod
      <4>1. SeqMod * RocMod = (r + 1) * SeqMod
        BY <1>1, <3>1
      <4> QED
        BY <1>3, <4>1
    <3> QED
      BY <1>1, <1>3, <1>4, <3>2
  <2>2. (r + 1) % RocMod = r + 1
    BY <1>1, <2>1, NoWrap DEF Rocs
  <2>3. GuessRoc(t, s) = r + 1
    BY <1>1, <1>2, <1>4, <2>2 DEF GuessRoc, Estimate
  <2>4. Fold(t, s) = [roc |-> r + 1, sL |-> s, initialized |-> TRUE]
    <3>1. r + 1 # r
      BY <1>1
    <3> QED
      BY <1>2, <2>2, <2>3, <3>1 DEF Fold
  <2>5. Fold(t, s) \in RecvTracker
    BY <1>1, <2>1, <2>4 DEF RecvTracker, Rocs, Seqs
  <2>6. PacketIndex(r + 1, s) = r * SeqMod + SeqMod + s /\ PacketIndex(r, l) = r * SeqMod + l
    BY <1>3 DEF PacketIndex
  <2> QED
    BY <1>1, <1>2, <1>3, <1>4, <2>4, <2>5, <2>6
<1>5. CASE l < Half /\ s - l > Half
  <2>1. GuessRoc(t, s) = (r - 1) % RocMod
    BY <1>1, <1>2, <1>5 DEF GuessRoc, Estimate
  <2>2. (r - 1) % RocMod # r /\ (r - 1) % RocMod # (r + 1) % RocMod
    <3>1. CASE r = 0
      <4>1. (r - 1) % RocMod = RocMod - 1 /\ (r + 1) % RocMod = 1
        BY <1>1, <3>1
      <4> QED
        BY <1>1, <3>1, <4>1
    <3>2. CASE r # 0
      <4>1. (r - 1) % RocMod = r - 1
        BY <1>1, <3>2, NoWrap DEF Rocs
      <4>2. (r + 1) % RocMod = r + 1 \/ ((r + 1) % RocMod = 0 /\ r + 1 = RocMod)
        <5>1. CASE r + 1 < RocMod
          BY <1>1, <5>1, NoWrap DEF Rocs
        <5>2. CASE r + 1 = RocMod
          BY <1>1, <5>2
        <5> QED
          BY <1>1, <5>1, <5>2
      <4> QED
        BY <1>1, <3>2, <4>1, <4>2
    <3> QED
      BY <3>1, <3>2
  <2>3. Fold(t, s) = t
    BY <1>2, <2>1, <2>2 DEF Fold
  <2> QED
    BY <1>1, <1>2, <1>3, <2>3 DEF PacketIndex
<1>6. CASE ~(l >= Half /\ l - s > Half) /\ ~(l < Half /\ s - l > Half)
  <2>1. GuessRoc(t, s) = r
    BY <1>1, <1>2, <1>6 DEF GuessRoc, Estimate
  <2>2. Fold(t, s) = [roc |-> r, sL |-> IF s > l THEN s ELSE l, initialized |-> TRUE]
    BY <1>2, <2>1 DEF Fold
  <2>3. Fold(t, s) \in RecvTracker
    BY <1>1, <2>2 DEF RecvTracker, Rocs, Seqs
  <2>4. PacketIndex(r, s) = r * SeqMod + s /\ PacketIndex(r, l) = r * SeqMod + l
    BY DEF PacketIndex
  <2>5. s > l => s <= l + Half
    BY <1>1, <1>6
  <2> QED
    BY <1>1, <1>2, <1>3, <2>2, <2>3, <2>4, <2>5
<1> QED
  BY <1>4, <1>5, <1>6
=============================================================================

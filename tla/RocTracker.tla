----------------------------- MODULE RocTracker -----------------------------
(***************************************************************************)
(* meowcaller/srtp/e2e.go: the rollover counters of both ends.  A packet's *)
(* index counts packets of its stream; 16-bit sequence numbers carry its   *)
(* low part only, so the sender (RocTracker) counts the wraps and the      *)
(* receiver (RecvRocTracker) guesses the count from the highest sequence   *)
(* number it has seen.  Half is 2^15 and RocMod is 2^32 in the code.       *)
(***************************************************************************)
EXTENDS Integers

CONSTANTS Half,    \* half the sequence number space
          RocMod   \* the size of the rollover counter's space

ASSUME RocAssumption == Half \in Nat \ {0, 1} /\ RocMod \in Nat \ {0, 1, 2}

SeqMod == 2 * Half
Seqs == 0..(SeqMod - 1)
Rocs == 0..(RocMod - 1)

\* Both trackers start as Go's zero value.
SendTracker == [roc : Rocs, lastSeq : Seqs, initialized : BOOLEAN]
RecvTracker == [roc : Rocs, sL : Seqs, initialized : BOOLEAN]
NewSendTracker == [roc |-> 0, lastSeq |-> 0, initialized |-> FALSE]
NewRecvTracker == [roc |-> 0, sL |-> 0, initialized |-> FALSE]

\* The 48-bit packet index that selects the keystream.
PacketIndex(roc, seq) == roc * SeqMod + seq

\* Mutant of Advance: the gap of a wrap is taken one too wide.
AdvanceWide(t, seq) ==
  [roc |-> IF t.initialized /\ seq - t.lastSeq < 1 - SeqMod THEN (t.roc + 1) % RocMod ELSE t.roc,
   lastSeq |-> seq, initialized |-> TRUE]

\* The send tracker after seq; the packet is encrypted under its roc.
Advance(t, seq) ==
  [roc |-> IF t.initialized /\ seq - t.lastSeq < -Half THEN (t.roc + 1) % RocMod ELSE t.roc,
   lastSeq |-> seq, initialized |-> TRUE]

\* Mutant of Estimate: a late packet from before the wrap is not recognised.
EstimateNoLate(t, seq) ==
  IF t.sL >= Half /\ t.sL - seq > Half THEN (t.roc + 1) % RocMod ELSE t.roc

\* The rollover count the receiver tries for seq once it is seeded: the one
\* that puts the packet closest to the highest index seen.
Estimate(t, seq) ==
  CASE t.sL < Half /\ seq - t.sL > Half -> (t.roc - 1) % RocMod
    [] t.sL >= Half /\ t.sL - seq > Half -> (t.roc + 1) % RocMod
    [] OTHER -> t.roc

GuessRoc(t, seq) == IF t.initialized THEN Estimate(t, seq) ELSE t.roc

\* Mutant of Fold: a late packet lowers the highest sequence number.
FoldLowers(t, seq) ==
  LET v == GuessRoc(t, seq)
  IN IF ~t.initialized THEN [t EXCEPT !.sL = seq, !.initialized = TRUE]
     ELSE IF v = t.roc \/ v = (t.roc + 1) % RocMod THEN [t EXCEPT !.roc = v, !.sL = seq]
     ELSE t

\* The receive tracker after it has guessed for seq.
Fold(t, seq) ==
  LET v == GuessRoc(t, seq)
  IN CASE ~t.initialized -> [t EXCEPT !.sL = seq, !.initialized = TRUE]
       [] t.initialized /\ v = t.roc -> [t EXCEPT !.sL = IF seq > t.sL THEN seq ELSE t.sL]
       [] t.initialized /\ v # t.roc /\ v = (t.roc + 1) % RocMod -> [t EXCEPT !.roc = v, !.sL = seq]
       [] OTHER -> t
=============================================================================

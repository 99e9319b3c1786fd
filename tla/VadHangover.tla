---------------------------- MODULE VadHangover -----------------------------
(***************************************************************************)
(* meowcaller/mlow/vad.go: ProcessPacket's decision whether a packet is    *)
(* coded as active voice, with the hangover it carries from packet to      *)
(* packet.  The speech activity of a frame is an input: above the          *)
(* threshold or not.                                                       *)
(***************************************************************************)
EXTENDS Integers, Sequences, SequencesExt, Folds

CONSTANTS FramesPerPacket, PacketMs,
          HangoverMs,   \* hangoverMs and the first remainingDtxHangover
          MaxPackets    \* bound: the length of a call, in packets

HangoverAssumption ==
  /\ {FramesPerPacket, PacketMs} \subseteq Nat \ {0} /\ FramesPerPacket <= PacketMs
  /\ HangoverMs \in Nat /\ MaxPackets \in Nat

VARIABLES remaining,  \* SmplVadState.remainingDtxHangover
          speech,     \* history: the frames so far, TRUE for those above the threshold
          coded       \* history: CodedAsActiveVoice of each packet

vars == <<remaining, speech, coded>>

FrameMs == PacketMs \div FramesPerPacket

Init == remaining = HangoverMs /\ speech = <<>> /\ coded = <<>>

\* Mutant of Step: speech does not renew the hangover.
StepNoRenewal(s, active) ==
  [remaining |-> IF ~active /\ s.remaining > 0 THEN s.remaining - FrameMs ELSE s.remaining,
   coded |-> s.coded \/ active \/ s.remaining > 0]

\* One frame: speech renews the hangover, silence spends it.
Step(s, active) ==
  [remaining |-> IF active THEN HangoverMs
                 ELSE IF s.remaining > 0 THEN s.remaining - FrameMs ELSE s.remaining,
   coded |-> s.coded \/ active \/ s.remaining > 0]

\* A packet of whole frames; a shorter buffer is reported inactive and changes
\* nothing, so it is no step.
ProcessPacket(frames) ==
  /\ Len(coded) < MaxPackets
  /\ LET end == FoldLeft(Step, [remaining |-> remaining, coded |-> FALSE], frames)
     IN remaining' = end.remaining /\ coded' = Append(coded, end.coded)
  /\ speech' = speech \o frames

Next == \E frames \in [1..FramesPerPacket -> BOOLEAN] : ProcessPacket(frames)

Spec == Init /\ [][Next]_vars

-----------------------------------------------------------------------------
\* How many frames the hangover covers, a started one included.
Covered == (HangoverMs + FrameMs - 1) \div FrameMs

\* Frame i is speech, or speech ended (or the call began) at most Covered
\* frames before it.
Voiced(i) == i <= Covered \/ \E j \in (i - Covered)..i : j >= 1 /\ speech[j]

\* A packet is coded as active exactly when one of its frames is speech or in
\* the hangover of earlier speech, however packets cut the frames.
CodedWhenVoiced ==
  \A k \in DOMAIN coded :
    coded[k] <=> \E i \in ((k - 1) * FramesPerPacket + 1)..(k * FramesPerPacket) : Voiced(i)
=============================================================================

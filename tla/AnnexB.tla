------------------------------- MODULE AnnexB -------------------------------
(***************************************************************************)
(* meowcaller/rtp/h264.go: SplitAnnexB, which cuts an Annex-B byte stream  *)
(* into NAL units, one iteration of its loop per step.  Only the bytes 0   *)
(* and 1 matter to it; 2 stands for every other byte.  Offsets count from  *)
(* 0, as in the code.                                                      *)
(***************************************************************************)
EXTENDS Integers, Sequences, SequencesExt, FiniteSetsExt

CONSTANT MaxLen   \* bound: the length of the streams

AnnexAssumption == MaxLen \in Nat

VARIABLES data,   \* the stream
          i,      \* the offset looked at
          start,  \* the offset of the unit being read, -1 before the first
          nalus,  \* the units found
          done    \* the function has returned

vars == <<data, i, start, nalus, done>>

byte(offset) == data[offset + 1]
Slice(from, to) == SubSeq(data, from + 1, to)

\* The length of the start code at an offset, 0 if there is none.
annexBStartCodeLen(offset) ==
  CASE offset + 3 < Len(data) /\ Slice(offset, offset + 4) = <<0, 0, 0, 1>> -> 4
    [] offset + 2 < Len(data) /\ Slice(offset, offset + 3) = <<0, 0, 1>> -> 3
    [] OTHER -> 0

\* The bytes from..to-1 without their trailing zeros.
Trimmed(from, to) ==
  Slice(from, Max({from} \cup {end \in (from + 1)..to : byte(end - 1) # 0}))

Init == /\ data \in BoundedSeq({0, 1, 2}, MaxLen)
        /\ i = 0 /\ start = -1 /\ nalus = <<>> /\ done = FALSE

StartCode ==
  /\ i < Len(data) /\ annexBStartCodeLen(i) > 0
  /\ nalus' = IF start >= 0 /\ Trimmed(start, i) # <<>> THEN Append(nalus, Trimmed(start, i)) ELSE nalus
  /\ i' = i + annexBStartCodeLen(i)
  /\ start' = i'
  /\ UNCHANGED <<data, done>>

Advance ==
  /\ i < Len(data) /\ annexBStartCodeLen(i) = 0
  /\ i' = i + 1
  /\ UNCHANGED <<data, start, nalus, done>>

\* Mutant of LastUnit: the last unit is dropped when no start code follows it.
LastUnitDropped ==
  /\ i >= Len(data) /\ ~done
  /\ done' = TRUE
  /\ UNCHANGED <<data, i, start, nalus>>

LastUnit ==
  /\ i >= Len(data) /\ ~done
  /\ done' = TRUE
  /\ nalus' = IF start >= 0 /\ start < Len(data) THEN Append(nalus, Slice(start, Len(data))) ELSE nalus
  /\ UNCHANGED <<data, i, start>>

Next == StartCode \/ Advance \/ LastUnit

Spec == Init /\ [][Next]_vars

-----------------------------------------------------------------------------
\* Reference: where the units of a stream begin, after each 00 00 01.
UnitStarts == {p \in 3..Len(data) : Slice(p - 3, p) = <<0, 0, 1>>}

\* Reference: the unit that begins at p runs up to the next 00 00 01 and loses
\* its trailing zeros there; the last one runs to the end of the stream.
UnitAt(p) ==
  LET later == {q \in UnitStarts : q > p}
  IN IF later = {} THEN Slice(p, Len(data)) ELSE Trimmed(p, Min(later) - 3)

\* The units are the non-empty stretches between start codes of either length,
\* whatever zeros surround them, each once and in order (h264.go:102-103): at
\* says where the k-th of them begins.
SplitsAtStartCodes ==
  LET kept == {p \in UnitStarts : UnitAt(p) # <<>>}
  IN done => \E at \in [1..Len(nalus) -> kept] :
               /\ \A k \in 1..Len(nalus) : nalus[k] = UnitAt(at[k])
               /\ \A k, l \in 1..Len(nalus) : k < l => at[k] < at[l]
               /\ \A p \in kept : \E k \in 1..Len(nalus) : at[k] = p
=============================================================================

-------------------------------- MODULE H264 --------------------------------
(***************************************************************************)
(* meowcaller/rtp/h264.go: NAL units packed into RTP payloads, a network   *)
(* that loses and reorders them, and the H264Depacketizer at its far end,  *)
(* which sees payloads and no sequence numbers.  A byte is <<u, p>>: byte  *)
(* p of unit u.  Byte 1 is the NAL header, which a fragmented unit carries *)
(* split over the FU indicator and the FU header of every fragment.  The   *)
(* sender and the network are external: the callers of rtp/ are not in the *)
(* repository.                                                             *)
(***************************************************************************)
EXTENDS Integers, Sequences, SequencesExt, FiniteSetsExt

CONSTANTS UnitLen,   \* UnitLen[u]: the length of unit u
          Mtu,       \* mtuPayloadMax
          MaxFu,     \* maxFuReassemblyBytes
          Window,    \* how far ahead of the oldest payload in flight one may arrive
          MaxLost    \* bound: how many payloads the network may lose

Units == DOMAIN UnitLen

H264Assumption ==
  /\ UnitLen \in Seq(Nat \ {0})
  /\ Mtu \in Nat /\ Mtu > 2 /\ MaxFu \in Nat /\ MaxFu >= Mtu
  /\ Window \in Nat \ {0} /\ MaxLost \in Nat

VARIABLES next,      \* the unit to be sent next
          flight,    \* payloads sent and neither delivered nor lost, oldest first
          fuActive,  \* H264Depacketizer.fuActive
          fuBuf,     \* H264Depacketizer.fuBuf
          arrived,   \* history: the payloads Depacketize was given
          out,       \* history: the NAL units it returned
          lost,      \* history: the payloads the network lost, in all
          inOrder    \* history: no payload was lost or overtaken yet

vars == <<next, flight, fuActive, fuBuf, arrived, out, lost, inOrder>>

Bytes(u, from, to) == [i \in 1..(to - from + 1) |-> <<u, from + i - 1>>]
Nalu(u) == Bytes(u, 1, UnitLen[u])

-----------------------------------------------------------------------------
FragSize == Mtu - 2

\* The fragment of unit u whose body starts at byte from: head stands for the
\* FU indicator and FU header, from which the NAL header is rebuilt.
Fragment(u, from) ==
  LET to == Min({from + FragSize - 1, UnitLen[u]})
  IN [kind |-> "fua", head |-> <<u, 1>>, body |-> Bytes(u, from, to),
      start |-> from = 2, end |-> to = UnitLen[u]]

Fragments(u) ==
  [k \in 1..((UnitLen[u] - 2) \div FragSize + 1) |-> Fragment(u, 2 + (k - 1) * FragSize)]

\* Mutant of PackageH264NALU: a unit of exactly the MTU is cut short.
PackageH264NALUCut(u) ==
  IF UnitLen[u] <= Mtu THEN << [kind |-> "single", body |-> Bytes(u, 1, Min({UnitLen[u], Mtu - 1}))] >>
  ELSE Fragments(u)

\* A unit is sent whole when it fits, else in FU-A fragments.
PackageH264NALU(u) ==
  IF UnitLen[u] <= Mtu THEN << [kind |-> "single", body |-> Nalu(u)] >> ELSE Fragments(u)

\* The payloads of an aggregate of the units from..to, none when there are
\* fewer than two of them or they do not fit.
PackageH264STAPA(from, to) ==
  LET total == 1 + FoldFunctionOnSet(LAMBDA len, sum : sum + 2 + len, 0, UnitLen, from..to)
  IN IF to <= from \/ total > Mtu THEN <<>>
     ELSE << [kind |-> "stapa", nalus |-> [i \in 1..(to - from + 1) |-> Nalu(from + i - 1)]] >>

-----------------------------------------------------------------------------
\* What Depacketize leaves behind and returns.
Result(active, buf, nalus) == [active |-> active, buf |-> buf, nalus |-> nalus]

\* The end of the FU-A case: a last fragment hands over what was collected.
Finish(p, buf) == IF p.end THEN Result(FALSE, <<>>, <<buf>>) ELSE Result(TRUE, buf, <<>>)

\* Mutant of DepacketizeFua: a first fragment does not empty the buffer.
DepacketizeFuaAppends(p, active, buf) ==
  IF p.start THEN Finish(p, buf \o <<p.head>> \o p.body)
  ELSE IF ~active THEN Result(active, buf, <<>>)
  ELSE IF Len(buf) + Len(p.body) > MaxFu THEN Result(FALSE, <<>>, <<>>)
  ELSE Finish(p, buf \o p.body)

DepacketizeFua(p, active, buf) ==
  IF p.start THEN Finish(p, <<p.head>> \o p.body)
  ELSE IF ~active THEN Result(active, buf, <<>>)
  ELSE IF Len(buf) + Len(p.body) > MaxFu THEN Result(FALSE, <<>>, <<>>)
  ELSE Finish(p, buf \o p.body)

\* Mutant of Depacketize: a whole unit does not end the fragments before it.
DepacketizeKeepsActive(p, active, buf) ==
  CASE p.kind = "single" -> Result(active, buf, <<p.body>>)
    [] p.kind = "stapa"  -> Result(active, buf, p.nalus)
    [] p.kind = "fua"    -> DepacketizeFua(p, active, buf)

Depacketize(p, active, buf) ==
  CASE p.kind = "single" -> Result(FALSE, buf, <<p.body>>)
    [] p.kind = "stapa"  -> Result(FALSE, buf, p.nalus)
    [] p.kind = "fua"    -> DepacketizeFua(p, active, buf)

-----------------------------------------------------------------------------
Init == /\ next = 1 /\ flight = <<>>
        /\ fuActive = FALSE /\ fuBuf = <<>>
        /\ arrived = <<>> /\ out = <<>> /\ lost = 0 /\ inOrder = TRUE

Send(payloads, count) ==
  /\ payloads # <<>>
  /\ flight' = flight \o payloads
  /\ next' = next + count
  /\ UNCHANGED <<fuActive, fuBuf, arrived, out, lost, inOrder>>

SendUnit == next \in Units /\ Send(PackageH264NALU(next), 1)

SendAggregate ==
  \E to \in Units : to > next /\ next \in Units /\ Send(PackageH264STAPA(next, to), to - next + 1)

Arrive(i) ==
  /\ i \in DOMAIN flight
  /\ LET p == flight[i]
         r == Depacketize(p, fuActive, fuBuf)
     IN /\ flight' = RemoveAt(flight, i)
        /\ fuActive' = r.active
        /\ fuBuf' = r.buf
        /\ out' = out \o r.nalus
        /\ arrived' = Append(arrived, p)
        /\ inOrder' = (inOrder /\ i = 1)
  /\ UNCHANGED <<next, lost>>

Lose(i) ==
  /\ i \in DOMAIN flight /\ lost < MaxLost
  /\ flight' = RemoveAt(flight, i)
  /\ lost' = lost + 1
  /\ inOrder' = FALSE
  /\ UNCHANGED <<next, fuActive, fuBuf, arrived, out>>

Next == \/ SendUnit \/ SendAggregate
        \/ \E i \in 1..Window : Arrive(i) \/ Lose(i)

Spec == Init /\ [][Next]_vars

-----------------------------------------------------------------------------
\* The bytes a payload carries, the NAL header of its unit included.
Carried(p) == CASE p.kind = "single" -> ToSet(p.body)
                [] p.kind = "stapa"  -> UNION {ToSet(n) : n \in ToSet(p.nalus)}
                [] p.kind = "fua"    -> {p.head} \cup ToSet(p.body)

\* Whatever was lost or overtaken before, and whatever the depacketizer was
\* left holding: a unit whose payloads have arrived one after the other comes
\* out intact, unless it is longer than the reassembly limit.
UnitSurvives ==
  \A u \in Units :
    LET sent == PackageH264NALU(u)
    IN IsSuffix(sent, arrived) /\ UnitLen[u] <= MaxFu => out # <<>> /\ Last(out) = Nalu(u)

\* What comes out was put together from payloads that arrived one after the
\* other: nothing is joined across a whole unit, an aggregate or a unit that
\* was given up.
NothingJoinedAcross ==
  \A n \in ToSet(out) : \E a, b \in DOMAIN arrived :
    /\ a <= b /\ ToSet(n) \subseteq UNION {Carried(arrived[i]) : i \in a..b}
    /\ a < b => \A i \in a..b : arrived[i].kind = "fua" /\ (arrived[i].start <=> i = a) /\ (arrived[i].end <=> i = b)

\* As long as the network neither loses nor reorders, what has come out is what
\* was packed, in order, short of the units over the reassembly limit, however
\* units were split and aggregated.
Lossless ==
  inOrder /\ flight = <<>> =>
    out = FlattenSeq([u \in 1..(next - 1) |-> IF UnitLen[u] <= MaxFu THEN <<Nalu(u)>> ELSE <<>>])

\* "reassembles H.264 NAL units from RFC 6184 RTP payloads" (h264.go:148): what
\* comes out is a unit that was packed.
OnlyUnitsComeOut == \A n \in ToSet(out) : \E u \in Units : n = Nalu(u)
=============================================================================

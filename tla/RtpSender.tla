----------------------------- MODULE RtpSender ------------------------------
(***************************************************************************)
(* One RtpStream on its own: any order of NextPacket and                   *)
(* NextPreSpeechPacket, and the headers that come out.                     *)
(***************************************************************************)
EXTENDS RtpStream, Sequences, FiniteSets

CONSTANT MaxBuilt   \* bound: packets of a stream

VARIABLES stream,   \* the RtpStream
          built     \* history: how each packet was asked for, and its header

vars == <<stream, built>>

Init == stream = NewRtpStream /\ built = <<>>

NextPacket(p, marker) ==
  /\ Len(built) < MaxBuilt
  /\ stream' = AfterNextPacket(stream, p)
  /\ built' = Append(built, [payload |-> p, asked |-> marker,
                             header |-> NextPacketHeader(stream, p, marker)])

\* "ladder" stands for the payload, which NextPreSpeechPacket is not given.
NextPreSpeechPacket ==
  /\ Len(built) < MaxBuilt
  /\ stream' = AfterPreSpeech(stream)
  /\ built' = Append(built, [payload |-> "ladder", asked |-> FALSE, header |-> PreSpeechHeader(stream)])

Next == \/ \E p \in Payloads, marker \in BOOLEAN : NextPacket(p, marker)
        \/ NextPreSpeechPacket

Spec == Init /\ [][Next]_vars

-----------------------------------------------------------------------------
Spoken(i) == built[i].payload \in {"speech", "empty"}

\* "latching the marker on the first speech frame" (rtp.go:271): besides the
\* packets the caller asked to mark, exactly the first one that is neither
\* comfort noise nor priming nor part of the pre-speech ladder is marked,
\* whatever came before it.
MarkerOnFirstSpeech ==
  \A i \in DOMAIN built :
    built[i].header.marker <=>
      built[i].asked \/ (Spoken(i) /\ \A j \in 1..(i - 1) : ~Spoken(j))

\* The piggyback word starts once StartPacket packets other than comfort noise
\* have gone out, ladder packets included, and comfort noise always carries
\* its own word (rtp.go:255-269, srtp/warp.go:24-36).
PiggybackAfterStart ==
  \A i \in DOMAIN built :
    LET audio == {j \in 1..(i - 1) : built[j].payload # "dtx"}
    IN built[i].header.ext = IF built[i].payload = "dtx" THEN "dtx"
                             ELSE IF WarpPiggyback /\ Cardinality(audio) >= StartPacket THEN "piggyback"
                             ELSE "none"
=============================================================================

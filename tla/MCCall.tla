------------------------------- MODULE MCCall -------------------------------
(***************************************************************************)
(* What carries the media of a call, each part on its own instance in one  *)
(* run: the relay channel and its layers (RelayChannel), the audio that is *)
(* encrypted hop by hop (MediaPath) and the frames that are sealed end to  *)
(* end (Sframe).  They share no state: part says which one moves.          *)
(* MediaPath is extended, the others are instances.                        *)
(***************************************************************************)
EXTENDS MediaPath, Sequences

CONSTANTS Parts,                                            \* those that move
          Closers,                                          \* RelayChannel
          Parties, Lengths, VarintBase, TagLen, MaxFrames   \* Sframe

VARIABLES part,
          conn, step, cleanup, open, at, firstErr, failed, done,
          txCounter, frames, result

Channel == INSTANCE RelayChannel
Frames == INSTANCE Sframe WITH sent <- frames

ASSUME CallAssumption == Frames!SframeAssumption

MCParts == {"MediaPath", "RelayChannel", "Sframe"}

CallInit == part \in Parts /\ Init /\ Channel!Init /\ Frames!Init

channelVars == <<conn, step, cleanup, open, at, firstErr, failed, done>>
frameVars   == <<txCounter, frames, result>>

allVars == <<part, vars, channelVars, frameVars>>

\* Part p may move, and no other.
Only(p) ==
  /\ part = p /\ UNCHANGED part
  /\ IF p = "MediaPath" THEN TRUE ELSE UNCHANGED vars
  /\ IF p = "RelayChannel" THEN TRUE ELSE UNCHANGED channelVars
  /\ IF p = "Sframe" THEN TRUE ELSE UNCHANGED frameVars

AudioStep   == Only("MediaPath") /\ Next
ChannelStep == Only("RelayChannel") /\ Channel!Next
FrameStep   == Only("Sframe") /\ Frames!Next

CallNext == AudioStep \/ ChannelStep \/ FrameStep

CallSpec == CallInit /\ [][CallNext]_allVars

-----------------------------------------------------------------------------
(* What the instances are to hold.                                         *)

\* No layer is left after a failed connect or a Close (relay.go:86-101, 136-144).
EndedHoldsNothing == Channel!EndedHoldsNothing

\* No layer outlives the one below it (relay.go:86-101, 136-144).
LayersNested == Channel!LayersNested

\* Close returns the first error it met (relay.go:89-100).
FirstErrorWins == Channel!FirstErrorWins

\* No two frames are sealed with the same key and nonce (sframe.go:162-194).
NonceUnique == Frames!NonceUnique

\* A party opens what its peer sealed, and nothing else (sframe.go:196-232).
OpensThePeersOnly == Frames!OpensThePeersOnly
=============================================================================

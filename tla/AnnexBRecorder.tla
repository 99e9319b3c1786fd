--------------------------- MODULE AnnexBRecorder ---------------------------
(***************************************************************************)
(* meowcaller/video.go: annexBRecorder, which writes access units through  *)
(* a bufio.Writer to a file.  Each of its methods is one step under the    *)
(* mutex, but for Close, between whose flush and close the process may be  *)
(* killed.  The writer and the file are external: a write may fail after   *)
(* any part of it.  A byte is <<u, k>>: byte k of the u-th unit given.     *)
(***************************************************************************)
EXTENDS Integers, Sequences, SequencesExt

CONSTANTS UnitSizes,  \* bytes in an access unit
          BufLen,     \* the size of the bufio.Writer
          MaxUnits    \* bound: units given to the recorder

RecorderAssumption == UnitSizes \subseteq Nat \ {0} /\ BufLen \in Nat \ {0} /\ MaxUnits \in Nat

VARIABLES given,     \* history: the units given, up to the first Close or failed write
          taken,     \* history: how many of them WriteVideo took without an error
          buf,       \* bytes in the bufio.Writer
          sticky,    \* its error
          file,      \* the bytes of the file
          stage,     \* "open", in Close at "flush" or "close", or "closed"
          verdict    \* history: what the first Close returned, "none" before

vars == <<given, taken, buf, sticky, file, stage, verdict>>

Unit(u, n) == [k \in 1..n |-> <<u, k>>]

Init == /\ given = <<>> /\ taken = 0
        /\ buf = <<>> /\ sticky = FALSE /\ file = <<>>
        /\ stage = "open" /\ verdict = "none"

\* What stays in a buffer of held bytes after fresh more: it is filled and
\* flushed, and what does not fit an empty buffer goes past it.
Kept(held, fresh) ==
  LET rest == fresh - (BufLen - held)
  IN IF rest <= 0 THEN held + fresh ELSE IF held = 0 \/ rest > BufLen THEN 0 ELSE rest

\* All of the bytes are taken: what does not stay in the buffer is in the file.
Written(bytes, n) == LET kept == Kept(Len(bytes) - n, n)
                     IN /\ buf' = SubSeq(bytes, Len(bytes) - kept + 1, Len(bytes))
                        /\ file' = file \o SubSeq(bytes, 1, Len(bytes) - kept)
                        /\ UNCHANGED sticky

\* A part of them reaches the file, and then no others.
Failed(bytes) == /\ \E n \in 0..(Len(bytes) - 1) : file' = file \o SubSeq(bytes, 1, n)
                 /\ sticky' = TRUE
                 /\ UNCHANGED buf

\* An access unit; one that comes after Close or a failed write changes nothing.
WriteVideo(n) ==
  /\ stage = "open" /\ ~sticky /\ Len(given) < MaxUnits
  /\ LET unit == Unit(Len(given) + 1, n)
         bytes == buf \o unit
     IN /\ given' = Append(given, unit)
        /\ \/ Written(bytes, n) /\ taken' = taken + 1
           \/ Len(bytes) > BufLen /\ Failed(bytes) /\ UNCHANGED taken
  /\ UNCHANGED <<stage, verdict>>

StartClose == /\ stage = "open"
              /\ stage' = "flush"
              /\ UNCHANGED <<given, taken, buf, sticky, file, verdict>>

Return(result) == stage' = "closed" /\ verdict' = result

\* Mutant of Flush: its error is not returned.
FlushUnchecked ==
  /\ stage = "flush"
  /\ \/ /\ ~sticky
        /\ file' = file \o buf /\ buf' = <<>>
        /\ UNCHANGED sticky
     \/ sticky /\ UNCHANGED <<buf, sticky, file>>
     \/ ~sticky /\ Failed(buf)
  /\ stage' = "close"
  /\ UNCHANGED <<given, taken, verdict>>

\* The error of the writer, an earlier one or a new one, ends Close, which has
\* then closed the file.
Flush ==
  /\ stage = "flush"
  /\ \/ /\ ~sticky
        /\ file' = file \o buf /\ buf' = <<>>
        /\ stage' = "close"
        /\ UNCHANGED <<sticky, verdict>>
     \/ sticky /\ Return("error") /\ UNCHANGED <<buf, sticky, file>>
     \/ ~sticky /\ Failed(buf) /\ Return("error")
  /\ UNCHANGED <<given, taken>>

CloseFile == /\ stage = "close"
             /\ \E result \in {"nil", "error"} : Return(result)
             /\ UNCHANGED <<given, taken, buf, sticky, file>>

Next == (\E n \in UnitSizes : WriteVideo(n)) \/ StartClose \/ Flush \/ CloseFile

Spec == Init /\ [][Next]_vars

-----------------------------------------------------------------------------
\* Whenever the process dies and whichever write failed, the file is the
\* beginning of the stream that was given: nothing follows a gap.  A Close that
\* returned nil ("Close finalizes it", video.go:58) has left all of it there.
RecordingIsPrefix ==
  LET stream == FlattenSeq(given)
  IN /\ IsPrefix(file, stream)
     /\ ~sticky => file \o buf = stream
     /\ verdict = "nil" => file = stream /\ taken = Len(given)
=============================================================================

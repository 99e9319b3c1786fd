----------------------------- MODULE RiffReader -----------------------------
(***************************************************************************)
(* meowcaller/source.go: newWavReader, the walk over the chunks of a       *)
(* RIFF/WAVE file to its samples.  The file is external: any sequence of   *)
(* chunks, padded to even offsets as RIFF has it, which may end, or fail   *)
(* to be read, anywhere.  Offsets and sizes are in bytes.                  *)
(***************************************************************************)
EXTENDS Integers, Sequences, SequencesExt, FiniteSetsExt

CONSTANTS FmtSizes,     \* sizes of "fmt " chunks
          DataSizes, OtherSizes,
          Formats,      \* what a "fmt " chunk may say
          MaxChunks     \* bound: chunks of a file

RiffAssumption ==
  /\ FmtSizes \subseteq Nat /\ DataSizes \subseteq Nat /\ OtherSizes \subseteq Nat
  /\ Formats \subseteq [format : Nat, bits : Nat, channels : Nat, rate : Nat]
  /\ MaxChunks \in Nat

VARIABLES seen,     \* history: the chunks of the file up to where the reader is
          at,       \* the reader's offset
          haveFmt, fmt,   \* haveFmt, and wavReader's channels and sampleRate
          limit,    \* the samples the returned reader gives out, in bytes
          cut,      \* history: a read met the end of the file or failed
          outcome   \* "reading", or how newWavReader returned

vars == <<seen, at, haveFmt, fmt, limit, cut, outcome>>

RiffHeaderLen == 12
ChunkHeaderLen == 8
Pcm == 1
Extensible == 65534
NoFmt == [channels |-> 0, rate |-> 0]

Chunks == [id : {"fmt "}, size : FmtSizes, fmt : Formats]
            \cup [id : {"data"}, size : DataSizes] \cup [id : {"LIST"}, size : OtherSizes]

Supported(c) == /\ c.size >= 16
                /\ c.fmt.format \in {Pcm, Extensible} /\ c.fmt.bits = 16
                /\ c.fmt.channels >= 1 /\ c.fmt.rate >= 1

\* RIFF chunks start at even offsets.
Padded(size) == size + (size % 2)

\* Where the file's next chunk starts.
NextChunk == RiffHeaderLen + FoldLeft(LAMBDA n, c : n + ChunkHeaderLen + Padded(c.size), 0, seen)

Init == /\ seen = <<>> /\ at = 0
        /\ haveFmt = FALSE /\ fmt = NoFmt /\ limit = 0
        /\ cut = FALSE /\ outcome = "reading"

Return(result) == outcome' = result /\ UNCHANGED <<haveFmt, fmt, limit>>

\* The file's first bytes are a RIFF/WAVE header, or something else.
ReadHeader == /\ outcome = "reading" /\ at = 0
              /\ at' = RiffHeaderLen
              /\ \/ UNCHANGED <<haveFmt, fmt, limit, outcome>>
                 \/ Return("not RIFF")
              /\ UNCHANGED <<seen, cut>>

\* Any read may fail: the file is too short, or the disk is at fault.
ReadFails == /\ outcome = "reading"
             /\ cut' = TRUE
             /\ Return("error")
             /\ UNCHANGED <<seen, at>>

ReadFmt(c) ==
  /\ c.id = "fmt "
  /\ at' = at + ChunkHeaderLen + c.size
  /\ IF Supported(c)
     THEN /\ haveFmt' = TRUE
          /\ fmt' = [channels |-> c.fmt.channels, rate |-> c.fmt.rate]
          /\ UNCHANGED <<limit, outcome>>
     ELSE Return("bad")

ReadData(c) ==
  /\ c.id = "data"
  /\ at' = at + ChunkHeaderLen
  /\ IF haveFmt
     THEN /\ limit' = c.size
          /\ outcome' = "ok"
          /\ UNCHANGED <<haveFmt, fmt>>
     ELSE Return("bad")

\* Mutant of SkipOther: the padding of an odd chunk is not skipped.
SkipOtherUnpadded(c) ==
  /\ c.id = "LIST"
  /\ at' = at + ChunkHeaderLen + c.size
  /\ UNCHANGED <<haveFmt, fmt, limit, outcome>>

SkipOther(c) ==
  /\ c.id = "LIST"
  /\ at' = at + ChunkHeaderLen + Padded(c.size)
  /\ UNCHANGED <<haveFmt, fmt, limit, outcome>>

\* The next chunk's header, when the reader stands at it.  When it stands a byte
\* before, the bytes spell no known chunk, and a size whose low byte is a letter:
\* more than is left of a file as short as these, so skipping it meets the end.
ReadChunk ==
  /\ outcome = "reading" /\ at > 0 /\ Len(seen) < MaxChunks
  /\ \E c \in Chunks :
       /\ seen' = Append(seen, c)
       /\ IF at = NextChunk THEN ReadFmt(c) \/ ReadData(c) \/ SkipOther(c)
          ELSE Return("error") /\ UNCHANGED at
  /\ UNCHANGED cut

Next == ReadHeader \/ ReadFails \/ ReadChunk

Spec == Init /\ [][Next]_vars

-----------------------------------------------------------------------------
FmtsSeen == {k \in DOMAIN seen : seen[k].id = "fmt "}
UpToData == outcome = "ok" => /\ seen # <<>> /\ Last(seen).id = "data"
                              /\ \A k \in 1..(Len(seen) - 1) : seen[k].id # "data"

\* "newWavReader parses the RIFF/WAVE header, validating 16-bit PCM, and returns
\* a reader positioned at the start of the sample data" (source.go:189): it
\* returns one exactly when the file can be read up to the first data chunk and
\* a format stands before it, each of them supported; then the reader is at the
\* samples, gives out all of them and nothing after them, and knows the last of
\* the formats.  Every other file is refused, and an error is the disk's.
RiffExact ==
  /\ UpToData
  /\ outcome = "ok" =>
       /\ FmtsSeen # {} /\ \A k \in FmtsSeen : Supported(seen[k])
       /\ LET said == seen[Max(FmtsSeen)].fmt
          IN fmt = [channels |-> said.channels, rate |-> said.rate]
       /\ at = NextChunk - Padded(Last(seen).size) /\ limit = Last(seen).size
  /\ outcome = "bad" => \/ \E k \in FmtsSeen : ~Supported(seen[k])
                        \/ FmtsSeen = {} /\ Last(seen).id = "data"
  /\ outcome = "error" => cut
=============================================================================

---------------------------- MODULE WavRecorder -----------------------------
(***************************************************************************)
(* meowcaller/sink.go: wavRecorder.  Frames go through a bufio.Writer to a *)
(* file whose header holds placeholders until Close has flushed the        *)
(* samples and gone back to rewrite it.  Goroutines call WriteFrame and    *)
(* Close at will; the mutex makes a WriteFrame one step, while Close, which *)
(* holds it throughout, is split where the process can die or the disk can *)
(* fail, so that every state of the file is one a crash may leave behind.  *)
(* The errors of writeHeader cannot happen: its 44 bytes fit an empty      *)
(* buffer.  The bufio.Writer and the file are external.                    *)
(***************************************************************************)
EXTENDS Integers, FiniteSets

CONSTANTS Users,       \* goroutines
          FrameBytes,  \* the sizes of frames, in bytes
          BufSize,     \* the size of the bufio.Writer
          HeaderLen,   \* the size of the header
          LenMod,      \* dataLen is an integer modulo LenMod
          MaxAccepted  \* bound: how many bytes WriteFrame is given in all

ASSUME WavAssumption ==
  /\ FrameBytes \subseteq Nat \ {0}
  /\ HeaderLen \in Nat \ {0} /\ BufSize \in Nat /\ BufSize >= HeaderLen
  /\ LenMod \in Nat \ {0} /\ MaxAccepted \in Nat

VARIABLES dataLen,   \* wavRecorder.dataLen
          closed,    \* wavRecorder.closed
          buffered,  \* bytes in the bufio.Writer
          werr,      \* the bufio.Writer's sticky error
          disk,      \* the length of the file
          header,    \* the data size the file's header gives, or NoHeader, or Torn
          fileOpen,  \* the file descriptor is open
          pc,        \* pc[u]: where u's Close is, "idle" when it is not in one
          accepted,  \* history: the bytes of the frames WriteFrame took without an error
          firstClose \* history: what the first Close returned, "none" before

vars == <<dataLen, closed, buffered, werr, disk, header, fileOpen, pc, accepted, firstClose>>

NoHeader == -1   \* the header has not reached the disk
Torn == -2       \* a rewrite of the header failed half way

TypeOK == /\ dataLen \in 0..(LenMod - 1)
          /\ closed \in BOOLEAN /\ werr \in BOOLEAN /\ fileOpen \in BOOLEAN
          /\ buffered \in 0..BufSize
          /\ disk \in 0..(HeaderLen + MaxAccepted)
          /\ header \in {NoHeader, Torn} \cup 0..(LenMod - 1)
          /\ pc \in [Users -> {"idle", "flush", "seek", "rewrite", "closeFile"}]
          /\ accepted \in 0..MaxAccepted
          /\ firstClose \in {"none", "nil", "error"}

\* WAVRecorder: the placeholder header waits in the buffer.
Init == /\ dataLen = 0 /\ closed = FALSE
        /\ buffered = HeaderLen /\ werr = FALSE
        /\ disk = 0 /\ header = NoHeader /\ fileOpen = TRUE
        /\ pc = [u \in Users |-> "idle"]
        /\ accepted = 0 /\ firstClose = "none"

\* The mutex is free.
Unlocked == \A u \in Users : pc[u] = "idle"

\* The file once it is len bytes long: its first bytes are the header's.
Grown(len) == /\ disk' = len
              /\ header' = IF header = NoHeader /\ len >= HeaderLen THEN 0 ELSE header

\* bufio.Writer.Write: what is buffered after n more bytes, which fill the
\* buffer before it is flushed, and go past it when they do not fit it empty.
BufferedAfter(n) ==
  LET rest == n - (BufSize - buffered)
  IN IF rest <= 0 THEN buffered + n ELSE IF buffered = 0 \/ rest > BufSize THEN 0 ELSE rest

WriteSucceeds(n) == /\ ~werr
                    /\ buffered' = BufferedAfter(n)
                    /\ Grown(disk + buffered + n - BufferedAfter(n))
                    /\ UNCHANGED werr

WriteFails(n) == /\ \/ werr /\ UNCHANGED <<disk, header, buffered>>
                    \/ /\ ~werr /\ buffered + n > BufSize
                       /\ \E k \in 0..(buffered + n - 1) : Grown(disk + k)
                       /\ buffered' \in 0..BufSize
                 /\ werr' = TRUE

\* Mutant of WriteFrame: it does not look at closed.
WriteFrameAfterClose(u, n) ==
  /\ Unlocked /\ accepted + n <= MaxAccepted
  /\ \/ /\ WriteSucceeds(n)
        /\ dataLen' = (dataLen + n) % LenMod
        /\ accepted' = accepted + n
     \/ WriteFails(n) /\ UNCHANGED <<dataLen, accepted>>
  /\ UNCHANGED <<closed, fileOpen, pc, firstClose>>

\* A frame given to a closed recorder is dropped, which changes nothing.
WriteFrame(u, n) ==
  /\ Unlocked /\ ~closed /\ accepted + n <= MaxAccepted
  /\ \/ /\ WriteSucceeds(n)
        /\ dataLen' = (dataLen + n) % LenMod
        /\ accepted' = accepted + n
     \/ WriteFails(n) /\ UNCHANGED <<dataLen, accepted>>
  /\ UNCHANGED <<closed, fileOpen, pc, firstClose>>

\* Close takes the mutex; on a closed recorder it returns nil at once.
StartClose(u) ==
  /\ Unlocked /\ ~closed
  /\ closed' = TRUE
  /\ pc' = [pc EXCEPT ![u] = "flush"]
  /\ UNCHANGED <<dataLen, buffered, werr, disk, header, fileOpen, accepted, firstClose>>

\* Close returns, and the mutex is released.
Return(u, result) == /\ pc' = [pc EXCEPT ![u] = "idle"]
                     /\ firstClose' = result

\* An error on the way: the file is closed and the error returned.
Fail(u) == Return(u, "error") /\ fileOpen' = FALSE

\* Mutant of Flush: its error is not looked at.
FlushUnchecked(u) ==
  /\ pc[u] = "flush"
  /\ pc' = [pc EXCEPT ![u] = "seek"]
  /\ \/ ~werr /\ Grown(disk + buffered) /\ buffered' = 0 /\ UNCHANGED werr
     \/ /\ \/ werr /\ UNCHANGED <<disk, header>>
           \/ ~werr /\ buffered > 0 /\ \E k \in 0..(buffered - 1) : Grown(disk + k)
        /\ werr' = TRUE /\ UNCHANGED buffered
  /\ UNCHANGED <<dataLen, closed, accepted, fileOpen, firstClose>>

\* What is buffered goes to the file, all of it or a part and an error.
Flush(u) ==
  /\ pc[u] = "flush"
  /\ \/ /\ ~werr /\ Grown(disk + buffered) /\ buffered' = 0
        /\ pc' = [pc EXCEPT ![u] = "seek"]
        /\ UNCHANGED <<werr, fileOpen, firstClose>>
     \/ /\ \/ werr /\ UNCHANGED <<disk, header>>
           \/ ~werr /\ buffered > 0 /\ \E k \in 0..(buffered - 1) : Grown(disk + k)
        /\ werr' = TRUE
        /\ Fail(u)
        /\ UNCHANGED buffered
  /\ UNCHANGED <<dataLen, closed, accepted>>

Seek(u) ==
  /\ pc[u] = "seek"
  /\ \/ pc' = [pc EXCEPT ![u] = "rewrite"] /\ UNCHANGED <<fileOpen, firstClose>>
     \/ Fail(u)
  /\ UNCHANGED <<dataLen, closed, buffered, werr, disk, header, accepted>>

\* The header is rewritten through a buffer of its own, which is then flushed.
Rewrite(u) ==
  /\ pc[u] = "rewrite"
  /\ \/ /\ header' = dataLen
        /\ pc' = [pc EXCEPT ![u] = "closeFile"] /\ UNCHANGED <<fileOpen, firstClose>>
     \/ header' \in {header, Torn} /\ Fail(u)
  /\ UNCHANGED <<dataLen, closed, buffered, werr, disk, accepted>>

CloseFile(u) ==
  /\ pc[u] = "closeFile"
  /\ fileOpen' = FALSE
  /\ \E result \in {"nil", "error"} : Return(u, result)
  /\ UNCHANGED <<dataLen, closed, buffered, werr, disk, header, accepted>>

CloseStep(u) == Flush(u) \/ Seek(u) \/ Rewrite(u) \/ CloseFile(u)

Next == \E u \in Users : \/ \E n \in FrameBytes : WriteFrame(u, n)
                         \/ StartClose(u) \/ CloseStep(u)

Spec == Init /\ [][Next]_vars

-----------------------------------------------------------------------------
\* Whenever the process dies, the sizes in the file's header are the
\* placeholder, or torn by a rewrite that failed, or those of samples that are
\* all on disk before it, modulo the width of the field (sink.go:92-101): a finalized header never promises
\* samples that are not there.
HeaderNeverLies == header \in 1..(LenMod - 1) => /\ disk = HeaderLen + accepted
                                                 /\ header = accepted % LenMod

\* A recorder whose Close returned nil has every accepted sample on disk, none
\* of a frame that failed, no error behind it, and a header that gives the number
\* of bytes as long as they are fewer than dataLen can count; TrueByteCount is
\* about more.
NilMeansComplete ==
  firstClose = "nil" => /\ disk = HeaderLen + accepted /\ ~werr
                        /\ accepted < LenMod => header = accepted

\* Against sink.go:10-12, "placeholders until Close rewrites them with the true
\* byte count": dataLen is 32 bits wide and wraps without a check (sink.go:80).
TrueByteCount == firstClose = "nil" => header = accepted

\* What is in a recorder that Close has begun with does not change any more but
\* for what Close itself writes: a frame that arrives late is dropped.  The file
\* is closed when Close returns, with or without an error, and not before, and a
\* second Close ("Safe to call more than once", sink.go:84) does nothing.
ClosedForGood ==
  [][ /\ closed => closed' /\ UNCHANGED <<dataLen, accepted>>
      /\ fileOpen' <=> firstClose' = "none"
      /\ firstClose # "none" => UNCHANGED vars ]_vars
=============================================================================

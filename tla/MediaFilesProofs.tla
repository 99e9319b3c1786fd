------------------------- MODULE MediaFilesProofs -------------------------
(***************************************************************************)
(* What the readers and writers of media files keep, for files, buffers    *)
(* and frames of every size: the recordings of audio and video, the walk   *)
(* over a WAV file's chunks, the Opus and the WAV source.                  *)
(***************************************************************************)
EXTENDS MCMediaFiles, FiniteSetTheorems, WellFoundedInduction, TLAPS

\* A step moves the part that moves, and no other.
LEMMA OnePartMoves ==
  ASSUME [MediaFilesNext]_allVars
  PROVE  /\ part' = part
         /\ part = "WavSource" => [Source!Next]_(Source!vars)
         /\ part = "RiffReader" => [Riff!Next]_(Riff!vars)
         /\ part = "OpusSource" => [Opus!Next]_(Opus!vars)
         /\ part = "AnnexBRecorder" => [Video!Next]_(Video!vars)
<1>1. CASE UNCHANGED allVars
  BY <1>1 DEF allVars, sourceVars, riffVars, opusVars, videoVars, Source!vars, Source!file, Riff!vars, Opus!vars,
              Video!vars
<1>2. CASE RecorderStep
  BY <1>2 DEF RecorderStep, Only
<1>3. CASE SourceStep
  BY <1>3 DEF SourceStep, Only
<1>4. CASE RiffStep
  BY <1>4 DEF RiffStep, Only
<1>5. CASE OpusStep
  BY <1>5 DEF OpusStep, Only
<1>6. CASE VideoStep
  BY <1>6 DEF VideoStep, Only
<1> QED
  BY <1>1, <1>2, <1>3, <1>4, <1>5, <1>6 DEF MediaFilesNext

\* A set of natural numbers that holds 0 and the successor of each member holds
\* them all: induction, without an operator for the predicate.
LEMMA Induct ==
  ASSUME NEW S, 0 \in S, \A n \in Nat : n \in S => n + 1 \in S
  PROVE  Nat \subseteq S
<1> DEFINE T == Nat \ S
<1> SUFFICES ASSUME T # {} PROVE FALSE
  OBVIOUS
<1>1. IsWellFoundedOn(OpToRel(<, Nat), Nat)
  BY NatLessThanWellFounded
<1>2. PICK m \in T : \A k \in T : ~(<<k, m>> \in OpToRel(<, Nat))
  BY <1>1, WFMin
<1>3. \A k \in Nat : k < m => <<k, m>> \in OpToRel(<, Nat)
  BY DEF OpToRel
<1>4. \A k \in T : ~(k < m)
  BY <1>2, <1>3, Zenon
<1>5. m \in Nat /\ m \notin S
  BY <1>2
<1>6. m # 0 /\ m - 1 \in Nat /\ m - 1 < m
  BY <1>5
<1>7. m - 1 \in S
  BY <1>4, <1>6
<1>8. (m - 1) + 1 \in S
  BY <1>6, <1>7
<1> QED
  BY <1>5, <1>8

\* The concatenation of the first k of ss, for each k, as the function the
\* library chooses.
Flattened(f, ss, n) == f = [k \in 1..n |-> IF k = 1 THEN ss[k] ELSE f[k - 1] \o ss[k]]

\* Such a function exists.
LEMMA FlattenExists ==
  ASSUME NEW ss
  PROVE  \A n \in Nat : \E f : Flattened(f, ss, n)
<1> DEFINE P(n) == \E f : f = [k \in 1..n |-> IF k = 1 THEN ss[k] ELSE f[k - 1] \o ss[k]]
<1>1. P(0)
  <2> DEFINE f == [k \in 1..0 |-> ss[k]]
  <2>1. f = [k \in 1..0 |-> IF k = 1 THEN ss[k] ELSE f[k - 1] \o ss[k]]
    OBVIOUS
  <2> QED
    BY <2>1
<1>2. ASSUME NEW n \in Nat, P(n) PROVE P(n + 1)
  <2>1. PICK f : f = [k \in 1..n |-> IF k = 1 THEN ss[k] ELSE f[k - 1] \o ss[k]]
    BY <1>2
  <2> DEFINE g == [k \in 1..(n + 1) |->
                     IF k = n + 1 THEN (IF k = 1 THEN ss[k] ELSE f[k - 1] \o ss[k]) ELSE f[k]]
  <2>2. ASSUME NEW k \in 1..(n + 1) PROVE g[k] = IF k = 1 THEN ss[k] ELSE g[k - 1] \o ss[k]
    <3>1. k > 1 => k - 1 \in 1..(n + 1) /\ k - 1 # n + 1
      OBVIOUS
    <3>2. k > 1 => g[k - 1] = f[k - 1]
      BY <3>1
    <3>6. k # n + 1 => k \in 1..n
      OBVIOUS
    <3>7. \A j \in 1..n : f[j] = IF j = 1 THEN ss[j] ELSE f[j - 1] \o ss[j]
      BY <2>1, Zenon
    <3>3. k # n + 1 => f[k] = IF k = 1 THEN ss[k] ELSE f[k - 1] \o ss[k]
      BY <3>6, <3>7, Zenon
    <3>4. g[k] = IF k = 1 THEN ss[k] ELSE f[k - 1] \o ss[k]
      BY <3>3, Zenon
    <3>5. k = 1 \/ k > 1
      OBVIOUS
    <3> HIDE DEF g
    <3> QED
      BY <3>2, <3>4, <3>5, Zenon
  <2>3. g = [k \in 1..(n + 1) |-> IF k = 1 THEN ss[k] ELSE g[k - 1] \o ss[k]]
    BY <2>2, Zenon
  <2> QED
    BY <2>3
<1> DEFINE S == {n \in Nat : P(n)}
<1> HIDE DEF P
<1>3. 0 \in S /\ \A n \in Nat : n \in S => n + 1 \in S
  BY <1>1, <1>2
<1>4. Nat \subseteq S
  BY <1>3, Induct
<1>5. \A n \in Nat : P(n)
  BY <1>4
<1> QED
  BY <1>5 DEF P, Flattened

\* The library's function, in the form of Flattened.
LEMMA FlattenIs ==
  ASSUME NEW ss, NEW n \in Nat \ {0}, Len(ss) = n
  PROVE  \E f : Flattened(f, ss, n) /\ Video!FlattenSeq(ss) = f[n]
<1> DEFINE I(f) == f = [k \in 1..n |-> IF k = 1 THEN ss[k] ELSE f[k - 1] \o ss[k]]
           g == CHOOSE f : I(f)
<1>1. \E f : I(f)
  <2>1. \E f : Flattened(f, ss, n)
    BY FlattenExists
  <2> QED
    BY <2>1 DEF Flattened
<1>2. I(g)
  <2> HIDE DEF I
  <2> QED
    BY <1>1
<1>3. Video!FlattenSeq(ss) = g[n]
  BY DEF Video!FlattenSeq
<1> HIDE DEF g
<1> QED
  BY <1>2, <1>3 DEF Flattened

\* Flattening one more sequence joins it to the others.
LEMMA FlattenAppend ==
  ASSUME NEW S, NEW ss \in Seq(Seq(S)), NEW x \in Seq(S)
  PROVE  Video!FlattenSeq(Append(ss, x)) = Video!FlattenSeq(ss) \o x
<1> DEFINE n == Len(ss)
           ts == Append(ss, x)
<1>1. n \in Nat /\ Len(ts) = n + 1 /\ ts[n + 1] = x /\ (\A k \in 1..n : ts[k] = ss[k] /\ ss[k] \in Seq(S))
      /\ n + 1 \in Nat \ {0} /\ (n = 0 => ss = <<>>)
  OBVIOUS
<1> HIDE DEF ts
<1>2. PICK g : Flattened(g, ts, n + 1) /\ Video!FlattenSeq(ts) = g[n + 1]
  BY <1>1, FlattenIs
<1>3. \A k \in 1..(n + 1) : g[k] = IF k = 1 THEN ts[k] ELSE g[k - 1] \o ts[k]
  BY <1>2 DEF Flattened
<1>4. CASE n = 0
  <2>1. Video!FlattenSeq(ss) = <<>>
    BY <1>1, <1>4 DEF Video!FlattenSeq
  <2>2. g[1] = x
    BY <1>1, <1>3, <1>4
  <2>3. <<>> \o x = x
    OBVIOUS
  <2> QED
    BY <1>2, <1>4, <2>1, <2>2, <2>3 DEF ts
<1>5. CASE n # 0
  <2>1. PICK f : Flattened(f, ss, n) /\ Video!FlattenSeq(ss) = f[n]
    BY <1>1, <1>5, FlattenIs
  <2>2. \A k \in 1..n : f[k] = IF k = 1 THEN ss[k] ELSE f[k - 1] \o ss[k]
    BY <2>1 DEF Flattened
  <2> DEFINE T == {k \in Nat : k \in 1..n => g[k] = f[k]}
  <2>3. 0 \in T
    OBVIOUS
  <2>4. ASSUME NEW k \in Nat, k \in T PROVE k + 1 \in T
    <3> SUFFICES ASSUME k + 1 \in 1..n PROVE g[k + 1] = f[k + 1]
      OBVIOUS
    <3>1. CASE k = 0
      BY <1>1, <1>3, <2>2, <3>1
    <3>2. CASE k # 0
      <4>1. k \in 1..n /\ k + 1 \in 1..(n + 1) /\ k + 1 # 1 /\ (k + 1) - 1 = k
        BY <1>1, <3>2
      <4>2. g[k] = f[k]
        BY <2>4, <4>1
      <4>3. f[k + 1] = f[k] \o ss[k + 1]
        BY <2>2, <4>1
      <4>4. g[k + 1] = g[k] \o ts[k + 1] /\ ts[k + 1] = ss[k + 1]
        BY <1>1, <1>3, <4>1
      <4> QED
        BY <4>2, <4>3, <4>4
    <3> QED
      BY <3>1, <3>2
  <2>5. n \in T
    <3>1. Nat \subseteq T
      BY <2>3, <2>4, Induct
    <3> QED
      BY <1>1, <3>1
  <2>6. g[n] = f[n] /\ n + 1 \in 1..(n + 1) /\ n + 1 # 1 /\ (n + 1) - 1 = n
    BY <1>1, <1>5, <2>5
  <2>7. g[n + 1] = g[n] \o ts[n + 1]
    BY <1>3, <2>6
  <2> QED
    BY <1>1, <1>2, <2>1, <2>6, <2>7, Zenon DEF ts
<1> QED
  BY <1>4, <1>5

-----------------------------------------------------------------------------
(* WavRecorder.                                                            *)

\* Everything accepted is on disk and nothing is behind it.
Complete == ~werr /\ buffered = 0 /\ disk = HeaderLen + accepted

\* The header is still the placeholder, or what a failed rewrite left of it.
Unfinished == header \in {NoHeader, Torn, 0}

\* Until a write fails, what was accepted is on disk or in the buffer.
NothingLost == /\ dataLen = accepted % LenMod
               /\ ~werr => disk + buffered = HeaderLen + accepted

\* At most one goroutine is in Close, once and for all.
OneCloser == /\ \A u, v \in Users : pc[u] # "idle" /\ pc[v] # "idle" => u = v
             /\ \A u \in Users : pc[u] # "idle" => closed /\ firstClose = "none"
             /\ firstClose # "none" => closed
             /\ fileOpen <=> firstClose = "none"

\* Only a complete recording gets past the flush, and only such a one has a
\* header that says anything.
Stages == /\ \A u \in Users : pc[u] \in {"seek", "rewrite", "closeFile"} => Complete
          /\ \A u \in Users : pc[u] = "closeFile" => header = dataLen
          /\ firstClose = "nil" => Complete /\ header = dataLen
          /\ Unfinished \/ (closed /\ Complete /\ header = dataLen)

WavInv == TypeOK /\ NothingLost /\ OneCloser /\ Stages

\* bufio.Writer.Write keeps what does not fit, and no more than that.
LEMMA BufferKeepsCount ==
  ASSUME NEW n \in Nat, TypeOK
  PROVE  BufferedAfter(n) \in 0..BufSize /\ BufferedAfter(n) <= buffered + n
  BY WavAssumption DEF BufferedAfter, TypeOK

\* What a quotient and a remainder are.
LEMMA Remainder ==
  ASSUME NEW m \in Nat \ {0}, NEW a \in Nat
  PROVE  a = m * (a \div m) + (a % m) /\ a % m \in 0..(m - 1) /\ a \div m \in Nat
  BY Z3T(30)

\* A remainder is determined by the number it is left of.
LEMMA OneRemainder ==
  ASSUME NEW m \in Nat \ {0}, NEW q \in Nat, NEW s \in Nat,
         NEW r \in 0..(m - 1), NEW t \in 0..(m - 1), m * q + r = m * s + t
  PROVE  r = t
<1>1. CASE q = s
  BY <1>1, Z3T(30)
<1>2. CASE q < s
  <2>1. s >= q + 1
    BY <1>2
  <2>2. m * s >= m * (q + 1)
    BY <2>1, Z3T(30)
  <2>3. m * q + m <= m * s
    BY <2>2, Z3T(30)
  <2> QED
    BY <2>3, Z3T(30)
<1>3. CASE q > s
  <2>1. q >= s + 1
    BY <1>3
  <2>2. m * q >= m * (s + 1)
    BY <2>1, Z3T(30)
  <2>3. m * s + m <= m * q
    BY <2>2, Z3T(30)
  <2> QED
    BY <2>3, Z3T(30)
<1> QED
  BY <1>1, <1>2, <1>3

\* Counting modulo m, frame by frame, is counting modulo m.
LEMMA RemainderOfSum ==
  ASSUME NEW m \in Nat \ {0}, NEW a \in Nat, NEW n \in Nat
  PROVE  ((a % m) + n) % m = (a + n) % m
<1> DEFINE x == a % m
           y == (x + n) % m
           z == (a + n) % m
<1>1. /\ x \in Nat /\ a + n \in Nat /\ x + n \in Nat
      /\ y \in 0..(m - 1) /\ z \in 0..(m - 1)
  BY Remainder
<1>2. PICK q \in Nat : a = m * q + x
  BY Remainder
<1>3. PICK s \in Nat : x + n = m * s + y
  BY Remainder, <1>1
<1>4. PICK t \in Nat : a + n = m * t + z
  BY Remainder, <1>1
<1> HIDE DEF x, y, z
<1>5. m * (q + s) = m * q + m * s /\ m * q \in Nat /\ m * s \in Nat /\ m * t \in Nat
  BY Z3T(30)
<1>6. m * (q + s) + y = m * t + z
  BY <1>1, <1>2, <1>3, <1>4, <1>5
<1>7. q + s \in Nat
  OBVIOUS
<1>8. y = z
  BY <1>1, <1>6, <1>7, OneRemainder
<1> QED
  BY <1>8 DEF x, y, z

\* A frame, written whole or in part.
LEMMA WriteFrameStep ==
  ASSUME WavInv, NEW u \in Users, NEW n \in FrameBytes, WriteFrame(u, n)
  PROVE  WavInv'
<1> USE WavAssumption DEF WavInv, TypeOK
<1>1. /\ ~closed /\ accepted + n <= MaxAccepted /\ n \in Nat /\ \A v \in Users : pc[v] = "idle"
      /\ UNCHANGED <<closed, fileOpen, pc, firstClose>>
  BY DEF WriteFrame, Unlocked
<1>2. firstClose = "none" /\ Unfinished
  BY <1>1 DEF OneCloser, Stages
<1>3. CASE /\ WriteSucceeds(n) /\ dataLen' = (dataLen + n) % LenMod /\ accepted' = accepted + n
  <2>1. /\ ~werr /\ werr' = werr /\ buffered' = BufferedAfter(n)
        /\ Grown(disk + buffered + n - BufferedAfter(n))
    BY <1>3 DEF WriteSucceeds
  <2> DEFINE kept == BufferedAfter(n)
  <2>2. kept \in 0..BufSize /\ kept <= buffered + n
    BY <1>1, BufferKeepsCount
  <2> HIDE DEF kept
  <2>3. disk' = disk + buffered + n - kept /\ header' \in {header, 0}
    BY <2>1 DEF Grown, kept
  <2>4. disk' + buffered' = HeaderLen + accepted' /\ disk' \in 0..(HeaderLen + MaxAccepted)
    <3>1. buffered' = kept /\ disk + buffered = HeaderLen + accepted
      BY <2>1 DEF kept, NothingLost
    <3> QED
      BY <1>1, <1>3, <2>2, <2>3, <3>1
  <2>5. dataLen' = accepted' % LenMod /\ dataLen' \in 0..(LenMod - 1)
    <3>1. dataLen = accepted % LenMod /\ accepted \in Nat /\ accepted + n \in Nat
      BY <1>1 DEF NothingLost
    <3>2. ((accepted % LenMod) + n) % LenMod = (accepted + n) % LenMod
      BY <1>1, <3>1, RemainderOfSum
    <3>3. (accepted + n) % LenMod \in 0..(LenMod - 1)
      BY <3>1, Remainder
    <3> QED
      BY <1>3, <3>1, <3>2, <3>3
  <2>6. TypeOK'
    BY <1>1, <1>3, <2>1, <2>2, <2>3, <2>4, <2>5 DEF kept
  <2> QED
    BY <1>1, <1>2, <2>1, <2>3, <2>4, <2>5, <2>6 DEF NothingLost, OneCloser, Stages, Unfinished, Complete
<1>4. CASE WriteFails(n) /\ UNCHANGED <<dataLen, accepted>>
  <2>1. /\ werr' = TRUE /\ buffered' \in 0..BufSize /\ header' \in {header, 0}
        /\ disk' \in 0..(HeaderLen + MaxAccepted)
    <3>1. CASE werr /\ UNCHANGED <<disk, header, buffered>>
      BY <1>4, <3>1 DEF WriteFails
    <3>2. CASE /\ ~werr /\ \E k \in 0..(buffered + n - 1) : Grown(disk + k)
               /\ buffered' \in 0..BufSize
      <4>1. PICK k \in 0..(buffered + n - 1) : Grown(disk + k)
        BY <3>2
      <4>2. disk + buffered = HeaderLen + accepted
        BY <3>2 DEF NothingLost
      <4> QED
        BY <1>1, <1>4, <3>2, <4>1, <4>2 DEF Grown, WriteFails
    <3> QED
      BY <1>4, <3>1, <3>2 DEF WriteFails
  <2>2. TypeOK'
    BY <1>1, <1>4, <2>1
  <2> QED
    BY <1>1, <1>2, <1>4, <2>1, <2>2 DEF NothingLost, OneCloser, Stages, Unfinished, Complete
<1> QED
  BY <1>3, <1>4 DEF WriteFrame

\* A step of Close, and what it may do to a complete recording.
LEMMA CloseStepStep ==
  ASSUME WavInv, NEW u \in Users, CloseStep(u)
  PROVE  WavInv'
<1> USE WavAssumption DEF WavInv, TypeOK
<1>1. pc[u] # "idle" /\ UNCHANGED <<dataLen, closed, accepted>>
  BY DEF CloseStep, Flush, Seek, Rewrite, CloseFile
<1>2. /\ closed /\ firstClose = "none" /\ fileOpen
      /\ \A v \in Users : v # u => pc[v] = "idle"
  BY <1>1 DEF OneCloser
<1>3. CASE Flush(u)
  <2>1. pc[u] = "flush"
    BY <1>3 DEF Flush
  <2>2. CASE /\ ~werr /\ Grown(disk + buffered) /\ buffered' = 0
             /\ pc' = [pc EXCEPT ![u] = "seek"]
             /\ UNCHANGED <<werr, fileOpen, firstClose>>
    <3>1. /\ disk' = HeaderLen + accepted /\ header' \in {header, 0} /\ Complete'
          /\ (header' = header \/ header = NoHeader)
      BY <1>1, <2>2 DEF Grown, NothingLost, Complete
    <3>2. TypeOK'
      BY <1>1, <2>2, <3>1
    <3>3. \A v \in Users : pc'[v] # "idle" => v = u
      BY <1>2, <2>2
    <3>4. OneCloser' /\ NothingLost'
      BY <1>1, <1>2, <2>2, <3>1, <3>3 DEF OneCloser, NothingLost, Complete
    <3>5. Stages'
      BY <1>1, <1>2, <2>1, <2>2, <3>1, <3>3 DEF Stages, Unfinished, Complete
    <3> QED
      BY <3>2, <3>4, <3>5
  <2>3. CASE /\ \/ werr /\ UNCHANGED <<disk, header>>
                \/ ~werr /\ buffered > 0 /\ \E k \in 0..(buffered - 1) : Grown(disk + k)
             /\ werr' = TRUE /\ Fail(u) /\ UNCHANGED buffered
    <3>1. header' \in {header, 0} /\ disk' \in 0..(HeaderLen + MaxAccepted)
      <4>1. CASE werr /\ UNCHANGED <<disk, header>>
        BY <4>1
      <4>2. CASE ~werr /\ \E k \in 0..(buffered - 1) : Grown(disk + k)
        <5>1. PICK k \in 0..(buffered - 1) : Grown(disk + k)
          BY <4>2
        <5>2. disk + buffered = HeaderLen + accepted
          BY <4>2 DEF NothingLost
        <5> QED
          BY <5>1, <5>2 DEF Grown
      <4> QED
        BY <2>3, <4>1, <4>2
    <3>2. Unfinished
      BY <2>3 DEF Stages, Complete
    <3>3. pc' = [pc EXCEPT ![u] = "idle"] /\ firstClose' = "error" /\ fileOpen' = FALSE
      BY <2>3 DEF Fail, Return
    <3>4. TypeOK'
      <4>1. buffered' = buffered /\ werr' = TRUE
        BY <2>3
      <4>2. header' \in {NoHeader, Torn} \cup 0..(LenMod - 1)
        BY <3>1
      <4> QED
        BY <1>1, <3>1, <3>3, <4>1, <4>2
    <3>5. \A v \in Users : pc'[v] = "idle"
      BY <1>2, <3>3
    <3> QED
      BY <1>1, <1>2, <2>3, <3>1, <3>2, <3>3, <3>4, <3>5
         DEF NothingLost, OneCloser, Stages, Unfinished, Complete
  <2> QED
    BY <1>3, <2>2, <2>3 DEF Flush
<1>4. CASE Seek(u) \/ Rewrite(u) \/ CloseFile(u)
  <2>1. /\ pc[u] \in {"seek", "rewrite", "closeFile"} /\ Complete
        /\ UNCHANGED <<dataLen, closed, buffered, werr, disk, accepted>> /\ Complete'
    BY <1>4 DEF Seek, Rewrite, CloseFile, Stages, Complete
  <2>2. CASE /\ Fail(u) /\ header' \in {header, Torn}
    <3>1. pc' = [pc EXCEPT ![u] = "idle"] /\ firstClose' = "error" /\ fileOpen' = FALSE
      BY <2>2 DEF Fail, Return
    <3>2. \A v \in Users : pc'[v] = "idle"
      BY <1>2, <3>1
    <3>3. TypeOK'
      BY <2>1, <2>2, <3>1
    <3> QED
      BY <1>2, <2>1, <2>2, <3>1, <3>2, <3>3 DEF NothingLost, OneCloser, Stages, Unfinished
  <2>3. CASE /\ pc' = [pc EXCEPT ![u] = "rewrite"] /\ UNCHANGED <<header, fileOpen, firstClose>>
    <3>1. \A v \in Users : pc'[v] # "idle" => v = u /\ pc'[v] = "rewrite"
      BY <1>2, <2>3
    <3>2. TypeOK'
      BY <2>1, <2>3
    <3> QED
      BY <1>2, <2>1, <2>3, <3>1, <3>2 DEF NothingLost, OneCloser, Stages, Unfinished
  <2>4. CASE /\ header' = dataLen /\ pc' = [pc EXCEPT ![u] = "closeFile"]
             /\ UNCHANGED <<fileOpen, firstClose>>
    <3>1. \A v \in Users : pc'[v] # "idle" => v = u /\ pc'[v] = "closeFile"
      BY <1>2, <2>4
    <3>2. TypeOK'
      BY <2>1, <2>4
    <3> QED
      BY <1>2, <2>1, <2>4, <3>1, <3>2 DEF NothingLost, OneCloser, Stages
  <2>5. CASE /\ pc[u] = "closeFile" /\ fileOpen' = FALSE
             /\ \E result \in {"nil", "error"} : Return(u, result)
             /\ UNCHANGED header
    <3>1. /\ pc' = [pc EXCEPT ![u] = "idle"] /\ firstClose' \in {"nil", "error"}
          /\ header = dataLen
      BY <2>5 DEF Return, Stages
    <3>2. \A v \in Users : pc'[v] = "idle"
      BY <1>2, <3>1
    <3>3. TypeOK'
      BY <2>1, <2>5, <3>1
    <3> QED
      BY <1>2, <2>1, <2>5, <3>1, <3>2, <3>3 DEF NothingLost, OneCloser, Stages
  <2> QED
    BY <1>4, <2>2, <2>3, <2>4, <2>5 DEF Seek, Rewrite, CloseFile
<1> QED
  BY <1>3, <1>4 DEF CloseStep

\* A new recorder, and every step of it.
LEMMA WavInvHolds == Spec => []WavInv
<1>1. Init => WavInv
  <2> SUFFICES ASSUME Init PROVE WavInv
    OBVIOUS
  <2>1. TypeOK
    <3>1. /\ 0 \in 0..(LenMod - 1) /\ HeaderLen \in 0..BufSize
          /\ 0 \in 0..(HeaderLen + MaxAccepted) /\ 0 \in 0..MaxAccepted
      BY WavAssumption
    <3>2. pc \in [Users -> {"idle", "flush", "seek", "rewrite", "closeFile"}]
      BY DEF Init
    <3> QED
      BY <3>1, <3>2 DEF Init, TypeOK
  <2>2. 0 % LenMod = 0
    BY WavAssumption
  <2>3. NothingLost
    BY <2>2, WavAssumption DEF Init, NothingLost
  <2>4. OneCloser /\ Stages
    BY DEF Init, OneCloser, Stages, Unfinished, NoHeader
  <2> QED
    BY <2>1, <2>3, <2>4 DEF WavInv
<1>2. WavInv /\ [Next]_vars => WavInv'
  <2> SUFFICES ASSUME WavInv, [Next]_vars PROVE WavInv'
    OBVIOUS
  <2>1. ASSUME NEW u \in Users, StartClose(u) PROVE WavInv'
    <3>1. /\ ~closed /\ closed' = TRUE /\ pc' = [pc EXCEPT ![u] = "flush"]
          /\ \A v \in Users : pc[v] = "idle"
          /\ UNCHANGED <<dataLen, buffered, werr, disk, header, fileOpen, accepted, firstClose>>
      BY <2>1 DEF StartClose, Unlocked
    <3>2. TypeOK'
      BY <3>1 DEF WavInv, TypeOK
    <3>3. \A v \in Users : pc'[v] # "idle" => v = u /\ pc'[v] = "flush"
      BY <3>1 DEF WavInv, TypeOK
    <3> QED
      BY <3>1, <3>2, <3>3 DEF WavInv, NothingLost, OneCloser, Stages, Unfinished, Complete
  <2>2. CASE UNCHANGED vars
    BY <2>2 DEF vars, WavInv, TypeOK, NothingLost, OneCloser, Stages, Unfinished, Complete
  <2> QED
    BY <2>1, <2>2, WriteFrameStep, CloseStepStep DEF Next
<1> QED
  BY <1>1, <1>2, PTL DEF Spec

\* Whenever the process dies, a header that gives a size gives that of samples
\* which are all on disk (sink.go:92-101).
THEOREM HeaderNeverLiesHolds == Spec => []HeaderNeverLies
<1>1. WavInv => HeaderNeverLies
  BY WavAssumption DEF WavInv, HeaderNeverLies, NothingLost, Stages, Unfinished, Complete, NoHeader, Torn
<1> QED
  BY <1>1, WavInvHolds, PTL

\* A Close that returned nil has left every accepted sample on disk, and a header
\* that gives their true size while 32 bits can (sink.go:84-116).
THEOREM NilMeansCompleteHolds == Spec => []NilMeansComplete
<1>1. WavInv => NilMeansComplete
  <2> SUFFICES ASSUME WavInv, firstClose = "nil" PROVE NilMeansComplete
    BY DEF NilMeansComplete
  <2>1. disk = HeaderLen + accepted /\ ~werr /\ header = accepted % LenMod
    BY DEF WavInv, NothingLost, Stages, Complete
  <2>2. accepted \in Nat /\ LenMod \in Nat \ {0}
    BY WavAssumption DEF WavInv, TypeOK
  <2>3. accepted < LenMod => accepted % LenMod = accepted
    BY <2>2
  <2> QED
    BY <2>1, <2>3 DEF NilMeansComplete
<1> QED
  BY <1>1, WavInvHolds, PTL

\* Closing is final: a late frame is dropped, the file is closed when Close
\* returns and not before, and a second Close does nothing (sink.go:61, 84-91).
THEOREM ClosedForGoodHolds == Spec => ClosedForGood
<1> DEFINE Final == /\ closed => closed' /\ UNCHANGED <<dataLen, accepted>>
                    /\ fileOpen' <=> firstClose' = "none"
                    /\ firstClose # "none" => UNCHANGED vars
<1>1. WavInv /\ WavInv' /\ [Next]_vars => [Final]_vars
  <2> SUFFICES ASSUME WavInv, WavInv', Next PROVE Final
    OBVIOUS
  <2>1. fileOpen' <=> firstClose' = "none"
    BY DEF WavInv, OneCloser
  <2>2. PICK u \in Users : (\E n \in FrameBytes : WriteFrame(u, n)) \/ StartClose(u) \/ CloseStep(u)
    BY DEF Next
  <2>3. CASE (\E n \in FrameBytes : WriteFrame(u, n)) \/ StartClose(u)
    BY <2>1, <2>3 DEF WriteFrame, StartClose, WavInv, OneCloser
  <2>4. CASE CloseStep(u)
    <3>1. pc[u] # "idle" /\ UNCHANGED <<dataLen, closed, accepted>>
      BY <2>4 DEF CloseStep, Flush, Seek, Rewrite, CloseFile
    <3> QED
      BY <2>1, <3>1 DEF WavInv, OneCloser
  <2> QED
    BY <2>2, <2>3, <2>4
<1> QED
  BY <1>1, WavInvHolds, PTL DEF Spec, ClosedForGood

-----------------------------------------------------------------------------
(* AnnexBRecorder.                                                         *)

VideoByte == Nat \X Nat
Given == Video!FlattenSeq(given)

\* What is on disk and in the buffer is the stream, until a write fails; then the
\* disk keeps a beginning of it.
VideoInv ==
  /\ given \in Seq(Seq(VideoByte)) /\ buf \in Seq(VideoByte) /\ file \in Seq(VideoByte)
  /\ taken \in Nat /\ Given \in Seq(VideoByte)
  /\ stage \in {"open", "flush", "close", "closed"} /\ verdict \in {"none", "nil", "error"}
  /\ \E rest \in Seq(VideoByte) : Given = file \o rest
  /\ ~sticky => file \o buf = Given /\ taken = Len(given)
  /\ stage = "close" => ~sticky /\ buf = <<>>
  /\ verdict # "none" <=> stage = "closed"
  /\ verdict = "nil" => file = Given /\ taken = Len(given)

\* s cut in two after k, and put together again behind f.
CutBehind(S, f, s, k) ==
  /\ f \o SubSeq(s, 1, k) \in Seq(S) /\ SubSeq(s, k + 1, Len(s)) \in Seq(S)
  /\ (f \o SubSeq(s, 1, k)) \o SubSeq(s, k + 1, Len(s)) = f \o s

\* It is what it was.
LEMMA CutInTwo ==
  ASSUME NEW S, NEW f \in Seq(S), NEW s \in Seq(S), NEW k \in Nat, k <= Len(s)
  PROVE  CutBehind(S, f, s, k)
<1> DEFINE a == SubSeq(s, 1, k)
           b == SubSeq(s, k + 1, Len(s))
           l == f \o a
           u == l \o b
           v == f \o s
<1>1. a \in Seq(S) /\ Len(a) = k /\ \A j \in 1..k : a[j] = s[j]
  OBVIOUS
<1>2. b \in Seq(S) /\ Len(b) = Len(s) - k /\ \A j \in 1..(Len(s) - k) : b[j] = s[k + j]
  OBVIOUS
<1> HIDE DEF a, b
<1>3. /\ l \in Seq(S) /\ Len(l) = Len(f) + k
      /\ \A j \in 1..Len(f) : l[j] = f[j]
      /\ \A j \in 1..k : l[Len(f) + j] = a[j]
  BY <1>1
<1> HIDE DEF l
<1>4. /\ u \in Seq(S) /\ Len(u) = Len(f) + Len(s)
      /\ \A j \in 1..Len(l) : u[j] = l[j]
      /\ \A j \in 1..Len(b) : u[Len(l) + j] = b[j]
  <2>1. l \in Seq(S) /\ b \in Seq(S)
    BY <1>2, <1>3
  <2>2. /\ u \in Seq(S) /\ Len(u) = Len(l) + Len(b)
        /\ \A j \in 1..Len(l) : u[j] = l[j]
        /\ \A j \in 1..Len(b) : u[Len(l) + j] = b[j]
    BY <2>1
  <2>3. Len(l) + Len(b) = Len(f) + Len(s)
    BY <1>2, <1>3
  <2> QED
    BY <2>2, <2>3
<1>5. /\ v \in Seq(S) /\ Len(v) = Len(f) + Len(s)
      /\ \A j \in 1..Len(f) : v[j] = f[j]
      /\ \A j \in 1..Len(s) : v[Len(f) + j] = s[j]
  OBVIOUS
<1> HIDE DEF u, v
<1>6. ASSUME NEW j \in 1..(Len(f) + Len(s)) PROVE u[j] = v[j]
  <2>1. CASE j <= Len(f)
    BY <1>3, <1>4, <1>5, <2>1
  <2>2. CASE j > Len(f) /\ j <= Len(f) + k
    <3>1. j - Len(f) \in 1..k /\ Len(f) + (j - Len(f)) = j
      BY <2>2
    <3> DEFINE i == j - Len(f)
    <3> HIDE DEF i
    <3>2. i \in 1..k /\ i \in 1..Len(s) /\ Len(f) + i = j /\ j \in 1..Len(l)
      BY <1>3, <3>1 DEF i
    <3>3. u[j] = l[j] /\ l[j] = a[i] /\ a[i] = s[i]
      BY <1>1, <1>3, <1>4, <3>2
    <3>4. v[j] = s[i]
      BY <1>5, <3>2
    <3> QED
      BY <3>3, <3>4
  <2>3. CASE j > Len(f) + k
    <3> DEFINE i == j - (Len(f) + k)
    <3>1. i \in 1..(Len(s) - k) /\ k + i \in 1..Len(s) /\ Len(f) + k + i = j
      BY <2>3
    <3> HIDE DEF i
    <3>2. u[j] = b[i]
      BY <1>2, <1>3, <1>4, <3>1
    <3>3. \A h \in 1..Len(s) : h + Len(f) = j => v[j] = s[h]
      BY <1>5
    <3>4. v[j] = s[k + i]
      BY <3>1, <3>3
    <3> QED
      BY <1>2, <3>1, <3>2, <3>4
  <2> QED
    BY <2>1, <2>2, <2>3
<1>7. u = v
  BY <1>4, <1>5, <1>6
<1> QED
  BY <1>2, <1>3, <1>7, Zenon DEF a, b, l, u, v, CutBehind

\* u behind b behind f.
Behind(S, f, b, u, g) ==
  /\ b \o u \in Seq(S) /\ Len(b \o u) = Len(b) + Len(u)
  /\ g \o u \in Seq(S) /\ f \o (b \o u) = g \o u

\* What comes behind the second part comes behind the whole.
LEMMA JoinedBehind ==
  ASSUME NEW S, NEW f \in Seq(S), NEW b \in Seq(S), NEW u \in Seq(S), NEW g, g = f \o b
  PROVE  Behind(S, f, b, u, g)
BY DEF Behind

\* A beginning of a sequence, and the rest.
LEMMA PrefixOf ==
  ASSUME NEW S, NEW a \in Seq(S), NEW b \in Seq(S)
  PROVE  Video!IsPrefix(a, a \o b)
<1>1. Len(a) <= Len(a \o b) /\ SubSeq(a, 1, Len(a)) = SubSeq(a \o b, 1, Len(a))
  OBVIOUS
<1> QED
  BY <1>1 DEF Video!IsPrefix

\* A write that fails leaves a beginning of the stream on disk.
LEMMA FailedWrite ==
  ASSUME NEW g \in Seq(VideoByte), NEW bytes \in Seq(VideoByte), file \in Seq(VideoByte),
         g = file \o bytes, Video!Failed(bytes)
  PROVE  /\ file' \in Seq(VideoByte) /\ \E rest \in Seq(VideoByte) : g = file' \o rest
         /\ sticky' /\ buf' = buf
<1>1. PICK n \in 0..(Len(bytes) - 1) : file' = file \o SubSeq(bytes, 1, n)
  BY DEF Video!Failed
<1> DEFINE b == SubSeq(bytes, n + 1, Len(bytes))
<1>2. n \in Nat /\ n <= Len(bytes)
  OBVIOUS
<1>3. CutBehind(VideoByte, file, bytes, n)
  BY <1>2, CutInTwo
<1>4. file' \in Seq(VideoByte) /\ b \in Seq(VideoByte) /\ file' \o b = file \o bytes
  BY <1>1, <1>3, Zenon DEF CutBehind
<1> HIDE DEF b
<1> QED
  BY <1>4, Zenon DEF Video!Failed

\* A write that succeeds splits the bytes between the disk and the buffer.
LEMMA WholeWrite ==
  ASSUME NEW bytes \in Seq(VideoByte), NEW n \in 0..Len(bytes), file \in Seq(VideoByte), Video!Written(bytes, n)
  PROVE  /\ file' \in Seq(VideoByte) /\ buf' \in Seq(VideoByte) /\ file' \o buf' = file \o bytes
         /\ sticky' = sticky
<1> DEFINE kept == Video!Kept(Len(bytes) - n, n)
           m == Len(bytes) - kept
           a == SubSeq(bytes, 1, m)
           b == SubSeq(bytes, m + 1, Len(bytes))
<1>1. kept \in 0..Len(bytes)
  BY MediaFilesAssumption DEF Video!RecorderAssumption, Video!Kept
<1>2. file' = file \o a /\ buf' = b /\ sticky' = sticky
  BY DEF Video!Written
<1> HIDE DEF kept
<1>3. m \in Nat /\ m <= Len(bytes)
  BY <1>1
<1> HIDE DEF m
<1>4. CutBehind(VideoByte, file, bytes, m)
  BY <1>3, CutInTwo
<1>5. file \o a \in Seq(VideoByte) /\ b \in Seq(VideoByte) /\ (file \o a) \o b = file \o bytes
  BY <1>4, Zenon DEF CutBehind
<1> QED
  BY <1>2, <1>5, Zenon

\* Every step keeps the recording.
LEMMA VideoStays ==
  ASSUME VideoInv, [Video!Next]_(Video!vars)
  PROVE  VideoInv'
<1>1. CASE UNCHANGED Video!vars
  BY <1>1 DEF VideoInv, Given, Video!vars
<1>2. ASSUME NEW n \in UnitSizes, Video!WriteVideo(n) PROVE VideoInv'
  <2> DEFINE unit == Video!Unit(Len(given) + 1, n)
             bytes == buf \o unit
             g == Given \o unit
  <2>1. /\ stage = "open" /\ ~sticky /\ given' = Append(given, unit) /\ UNCHANGED <<stage, verdict>>
        /\ \/ Video!Written(bytes, n) /\ taken' = taken + 1
           \/ Video!Failed(bytes) /\ UNCHANGED taken
    BY <1>2 DEF Video!WriteVideo
  <2>2. unit \in Seq(VideoByte) /\ Len(unit) = n /\ n \in Nat
    <3>1. n \in Nat
      BY MediaFilesAssumption DEF Video!RecorderAssumption
    <3>2. \A k \in 1..n : <<Len(given) + 1, k>> \in VideoByte
      BY SMTT(30) DEF VideoInv, VideoByte
    <3> QED
      BY <3>1, <3>2 DEF Video!Unit
  <2> HIDE DEF unit
  <2>3. Given' = g
    <3>1. Video!FlattenSeq(Append(given, unit)) = Video!FlattenSeq(given) \o unit
      BY <2>2, FlattenAppend DEF VideoInv
    <3> QED
      BY <2>1, <3>1, Zenon DEF Given
  <2>4. bytes \in Seq(VideoByte) /\ n \in 0..Len(bytes) /\ g \in Seq(VideoByte) /\ file \o bytes = g
    <3>1. file \in Seq(VideoByte) /\ buf \in Seq(VideoByte) /\ Given \in Seq(VideoByte) /\ file \o buf = Given
      BY <2>1 DEF VideoInv
    <3>2. bytes \in Seq(VideoByte) /\ Len(bytes) = Len(buf) + n /\ g \in Seq(VideoByte) /\ file \o bytes = g
      <4>1. Behind(VideoByte, file, buf, unit, Given)
        BY <2>2, <3>1, JoinedBehind
      <4>2. /\ buf \o unit \in Seq(VideoByte) /\ Len(buf \o unit) = Len(buf) + Len(unit)
            /\ Given \o unit \in Seq(VideoByte) /\ file \o (buf \o unit) = Given \o unit
        BY <4>1, Zenon DEF Behind
      <4> QED
        BY <2>2, <4>2, Zenon
    <3>3. n \in 0..Len(bytes)
      BY <2>2, <3>1, <3>2
    <3> QED
      BY <3>2, <3>3
  <2> HIDE DEF bytes, g
  <2>5. file \in Seq(VideoByte) /\ verdict = "none" /\ given' \in Seq(Seq(VideoByte)) /\ Len(given') = Len(given) + 1
        /\ taken = Len(given) /\ verdict' = "none" /\ stage' = "open"
    BY <2>1, <2>2 DEF VideoInv
  <2>6. CASE Video!Written(bytes, n) /\ taken' = taken + 1
    <3>1. /\ file' \in Seq(VideoByte) /\ buf' \in Seq(VideoByte) /\ file' \o buf' = g /\ ~sticky'
      BY <2>1, <2>4, <2>5, <2>6, WholeWrite
    <3>2. taken' \in Nat /\ taken' = Len(given')
      BY <2>5, <2>6 DEF VideoInv
    <3>3. Given' = file' \o buf'
      BY <2>3, <3>1, Zenon
    <3> QED
      BY <2>3, <2>4, <2>5, <3>1, <3>2, <3>3, Zenon DEF VideoInv
  <2>7. CASE Video!Failed(bytes) /\ UNCHANGED taken
    <3>1. /\ file' \in Seq(VideoByte) /\ \E rest \in Seq(VideoByte) : g = file' \o rest
          /\ sticky' /\ buf' = buf
      BY <2>4, <2>5, <2>7, FailedWrite
    <3> QED
      BY <2>3, <2>4, <2>5, <2>7, <3>1 DEF VideoInv
  <2> QED
    BY <2>1, <2>6, <2>7
<1>3. CASE Video!StartClose
  <2>1. stage = "open" /\ stage' = "flush" /\ UNCHANGED <<given, taken, buf, sticky, file, verdict>> /\ Given' = Given
    BY <1>3 DEF Video!StartClose, Given
  <2> QED
    BY <2>1 DEF VideoInv
<1>4. CASE Video!Flush
  <2>1. stage = "flush" /\ UNCHANGED <<given, taken>> /\ Given' = Given /\ verdict = "none"
    BY <1>4 DEF Video!Flush, Given, VideoInv
  <2>2. CASE ~sticky /\ file' = file \o buf /\ buf' = <<>> /\ stage' = "close" /\ UNCHANGED <<sticky, verdict>>
    <3>1. \A S : <<>> \in Seq(S)
      OBVIOUS
    <3>2. file' = Given /\ file' \o <<>> = file' /\ file' \in Seq(VideoByte)
      BY <2>2 DEF VideoInv
    <3> QED
      BY <2>1, <2>2, <3>1, <3>2 DEF VideoInv
  <2>3. CASE sticky /\ Video!Return("error") /\ UNCHANGED <<buf, sticky, file>>
    BY <2>1, <2>3 DEF VideoInv, Video!Return
  <2>4. CASE ~sticky /\ Video!Failed(buf) /\ Video!Return("error")
    <3>1. Given \in Seq(VideoByte) /\ buf \in Seq(VideoByte) /\ file \in Seq(VideoByte) /\ Given = file \o buf
      BY <2>4 DEF VideoInv
    <3>2. /\ file' \in Seq(VideoByte) /\ \E rest \in Seq(VideoByte) : Given = file' \o rest
          /\ sticky' /\ buf' = buf
      BY <2>4, <3>1, FailedWrite
    <3> QED
      BY <2>1, <2>4, <3>2 DEF VideoInv, Video!Return
  <2> QED
    BY <1>4, <2>2, <2>3, <2>4 DEF Video!Flush
<1>5. CASE Video!CloseFile
  <2>1. /\ stage = "close" /\ UNCHANGED <<given, taken, buf, sticky, file>> /\ Given' = Given
        /\ stage' = "closed" /\ verdict' \in {"nil", "error"}
    BY <1>5 DEF Video!CloseFile, Video!Return, Given
  <2>2. file = Given /\ taken = Len(given) /\ ~sticky
    BY <2>1 DEF VideoInv
  <2> QED
    BY <2>1, <2>2 DEF VideoInv
<1> QED
  BY <1>1, <1>2, <1>3, <1>4, <1>5 DEF Video!Next

\* Whenever the process dies and whichever write failed, the file is a beginning
\* of the stream, and after a Close that returned nil all of it (video.go:49-92).
THEOREM RecordingHolds == MediaFilesSpec => []RecordingIsPrefix
<1> DEFINE Inv == part = "AnnexBRecorder" => VideoInv
<1>1. MediaFilesInit => Inv
  <2> SUFFICES ASSUME MediaFilesInit PROVE VideoInv
    OBVIOUS
  <2>1. /\ given = <<>> /\ taken = 0 /\ buf = <<>> /\ sticky = FALSE /\ file = <<>>
        /\ stage = "open" /\ verdict = "none"
    BY DEF MediaFilesInit, Video!Init
  <2>2. \A S : <<>> \in Seq(S)
    OBVIOUS
  <2>3. Given = <<>>
    BY <2>1 DEF Given, Video!FlattenSeq
  <2>4. <<>> \o <<>> = <<>> /\ Len(<<>>) = 0 /\ 0 \in Nat
    OBVIOUS
  <2> QED
    BY <2>1, <2>2, <2>3, <2>4, Zenon DEF VideoInv
<1>2. Inv /\ [MediaFilesNext]_allVars => Inv'
  <2> SUFFICES ASSUME Inv, [MediaFilesNext]_allVars, part = "AnnexBRecorder" PROVE VideoInv'
    BY OnePartMoves
  <2>1. [Video!Next]_(Video!vars)
    BY OnePartMoves
  <2> QED
    BY <2>1, VideoStays
<1>3. Inv => RecordingIsPrefix
  <2> SUFFICES ASSUME VideoInv PROVE Video!RecordingIsPrefix
    BY DEF RecordingIsPrefix
  <2>1. PICK rest \in Seq(VideoByte) : Given = file \o rest
    BY DEF VideoInv
  <2>2. Video!IsPrefix(file, Given)
    BY <2>1, PrefixOf DEF VideoInv
  <2> QED
    BY <2>2 DEF VideoInv, Given, Video!RecordingIsPrefix
<1> QED
  BY <1>1, <1>2, <1>3, PTL DEF MediaFilesSpec

-----------------------------------------------------------------------------
(* RiffReader.                                                             *)

\* One step of FoldLeft over the chunks of a file, as the function the library chooses.
Walk(f, chunks, s) ==
  IF s = {} THEN 0
  ELSE f[s \ {Riff!Max(s)}] + Riff!ChunkHeaderLen + Riff!Padded(chunks[Riff!Max(s)].size)

IsWalk(f, chunks, n) == f = [s \in SUBSET (1..n) |-> Walk(f, chunks, s)]

\* The library's function exists.
LEMMA WalkExists ==
  ASSUME NEW chunks
  PROVE  \A n \in Nat : \E f : IsWalk(f, chunks, n)
<1> DEFINE P(n) == \E f : f = [s \in SUBSET (1..n) |-> Walk(f, chunks, s)]
<1>1. P(0)
  <2>1. 1..0 = {}
    OBVIOUS
  <2> DEFINE f == [s \in SUBSET (1..0) |-> 0]
  <2>2. f = [s \in SUBSET (1..0) |-> Walk(f, chunks, s)]
    BY <2>1 DEF Walk
  <2> QED
    BY <2>2
<1>2. ASSUME NEW n \in Nat, P(n) PROVE P(n + 1)
  <2>1. PICK f : f = [s \in SUBSET (1..n) |-> Walk(f, chunks, s)]
    BY <1>2
  <2> DEFINE g == [s \in SUBSET (1..(n + 1)) |->
                     IF n + 1 \in s THEN f[s \ {n + 1}] + Riff!ChunkHeaderLen + Riff!Padded(chunks[n + 1].size)
                     ELSE f[s]]
  <2>2. ASSUME NEW s \in SUBSET (1..(n + 1)) PROVE g[s] = Walk(g, chunks, s)
    <3>1. CASE n + 1 \in s
      <4>1. Riff!Max(s) = n + 1
        <5>1. \A y \in s : y \in Int /\ n + 1 >= y
          OBVIOUS
        <5>2. \A x \in s : (\A y \in s : x >= y) => x = n + 1
          BY <3>1, <5>1
        <5> QED
          BY <3>1, <5>1, <5>2 DEF Riff!Max
      <4>2. s \ {n + 1} \in SUBSET (1..(n + 1)) /\ n + 1 \notin s \ {n + 1}
        OBVIOUS
      <4>3. g[s \ {n + 1}] = f[s \ {n + 1}]
        BY <4>2
      <4> QED
        BY <3>1, <4>1, <4>3 DEF Walk
    <3>2. CASE n + 1 \notin s
      <4>1. s \in SUBSET (1..n)
        BY <3>2
      <4>2. g[s] = Walk(f, chunks, s)
        BY <2>1, <3>2, <4>1
      <4>3. CASE s # {}
        <5>1. s \ {Riff!Max(s)} \in SUBSET (1..(n + 1)) /\ n + 1 \notin s \ {Riff!Max(s)}
          <6>1. \A x : s \ {x} \in SUBSET (1..(n + 1)) /\ n + 1 \notin s \ {x}
            BY <3>2
          <6> QED
            BY <6>1
        <5>2. g[s \ {Riff!Max(s)}] = f[s \ {Riff!Max(s)}]
          BY <5>1
        <5> QED
          BY <4>2, <4>3, <5>2 DEF Walk
      <4> QED
        BY <4>2, <4>3 DEF Walk
    <3> QED
      BY <3>1, <3>2
  <2>3. g = [s \in SUBSET (1..(n + 1)) |-> Walk(g, chunks, s)]
    BY <2>2
  <2> QED
    BY <2>3
<1> DEFINE S == {n \in Nat : P(n)}
<1> HIDE DEF P
<1>3. 0 \in S /\ \A n \in Nat : n \in S => n + 1 \in S
  BY <1>1, <1>2
<1>4. Nat \subseteq S
  BY <1>3, Induct
<1>5. \A n \in Nat : P(n)
  BY <1>4
<1> QED
  BY <1>5 DEF P, IsWalk

\* Where the chunk after the given ones starts.
NextAfter(chunks) ==
  Riff!RiffHeaderLen
    + Riff!FoldLeft(LAMBDA n, c : n + Riff!ChunkHeaderLen + Riff!Padded(c.size), 0, chunks)

\* It is where the last but one ends, behind the chunks before it, chunk by chunk.
WalkRun(s, chunks, n) ==
  /\ s[0] = 0
  /\ \A k \in 1..n : s[k] = s[k - 1] + Riff!ChunkHeaderLen + Riff!Padded(chunks[k].size)
  /\ NextAfter(chunks) = Riff!RiffHeaderLen + s[n]

\* FoldLeft goes through the chunks one by one.
LEMMA WalkSteps ==
  ASSUME NEW n \in Nat, NEW chunks, DOMAIN chunks = 1..n
  PROVE  \E s : WalkRun(s, chunks, n)
<1> DEFINE I(f) == f = [s \in SUBSET (1..n) |-> Walk(f, chunks, s)]
           iter == CHOOSE f : I(f)
<1>0. \E f : I(f)
  <2>1. \E f : IsWalk(f, chunks, n)
    BY WalkExists
  <2> QED
    BY <2>1 DEF I, IsWalk
<1>1. iter = [s \in SUBSET (1..n) |-> Walk(iter, chunks, s)]
  <2> HIDE DEF I
  <2>1. I(iter)
    BY <1>0
  <2> QED
    BY <2>1 DEF I
<1>2. NextAfter(chunks) = Riff!RiffHeaderLen + iter[1..n]
  BY DEF NextAfter, Riff!FoldLeft, Riff!MapThenFoldSet, Walk
<1> HIDE DEF iter
<1> DEFINE s == [k \in 0..n |-> iter[1..k]]
<1>3. s[0] = 0
  <2>1. 1..0 = {} /\ 0 \in 0..n /\ {} \in SUBSET (1..n)
    OBVIOUS
  <2> QED
    BY <1>1, <2>1 DEF Walk
<1>4. ASSUME NEW k \in 1..n PROVE s[k] = s[k - 1] + Riff!ChunkHeaderLen + Riff!Padded(chunks[k].size)
  <2>1. Riff!Max(1..k) = k
    <3>1. \A x \in 1..k : (\A y \in 1..k : x >= y) => x = k
      OBVIOUS
    <3> QED
      BY <3>1 DEF Riff!Max
  <2>2. (1..k) \ {k} = 1..(k - 1) /\ 1..k \in SUBSET (1..n) /\ 1..k # {} /\ k \in 0..n /\ k - 1 \in 0..n
    OBVIOUS
  <2> QED
    BY <1>1, <2>1, <2>2 DEF Walk
<1>5. s[n] = iter[1..n]
  OBVIOUS
<1> HIDE DEF s
<1>6. WalkRun(s, chunks, n)
  BY <1>2, <1>3, <1>4, <1>5 DEF WalkRun
<1> QED
  BY <1>6

\* One more chunk moves the next one on by its header, its bytes and their padding.
LEMMA OneMoreChunk ==
  ASSUME NEW S, NEW chunks \in Seq(S), NEW c \in S, \A d \in S : d.size \in Nat
  PROVE  /\ NextAfter(chunks) \in Nat
         /\ NextAfter(Append(chunks, c)) = NextAfter(chunks) + Riff!ChunkHeaderLen + Riff!Padded(c.size)
<1> DEFINE n == Len(chunks)
           more == Append(chunks, c)
<1>1. /\ n \in Nat /\ n + 1 \in Nat /\ DOMAIN chunks = 1..n /\ DOMAIN more = 1..(n + 1) /\ more[n + 1] = c
      /\ \A k \in 1..n : more[k] = chunks[k]
      /\ \A k \in 1..(n + 1) : more[k] \in S
  OBVIOUS
<1>2. PICK s : WalkRun(s, chunks, n)
  BY <1>1, WalkSteps
<1>3. PICK t : WalkRun(t, more, n + 1)
  BY <1>1, WalkSteps
<1> HIDE DEF n, more
<1>4. \A k \in 1..(n + 1) : Riff!Padded(more[k].size) \in Nat
  BY <1>1 DEF Riff!Padded
<1> DEFINE T == {k \in Nat : k \in 0..n => s[k] = t[k] /\ s[k] \in Nat}
<1>5. 0 \in T
  BY <1>2, <1>3 DEF WalkRun
<1>6. ASSUME NEW k \in Nat, k \in T PROVE k + 1 \in T
  <2> SUFFICES ASSUME k + 1 \in 0..n PROVE s[k + 1] = t[k + 1] /\ s[k + 1] \in Nat
    BY k + 1 \in Nat, Zenon
  <2>1. k \in 0..n /\ k + 1 \in 1..n /\ k + 1 \in 1..(n + 1) /\ (k + 1) - 1 = k
    BY <1>1
  <2>2. s[k] = t[k] /\ s[k] \in Nat
    BY <1>6, <2>1
  <2>3. s[k + 1] = s[k] + Riff!ChunkHeaderLen + Riff!Padded(chunks[k + 1].size)
    BY <1>2, <2>1 DEF WalkRun
  <2>4. t[k + 1] = t[k] + Riff!ChunkHeaderLen + Riff!Padded(more[k + 1].size)
    BY <1>3, <2>1 DEF WalkRun
  <2>5. more[k + 1] = chunks[k + 1] /\ Riff!Padded(more[k + 1].size) \in Nat
    BY <1>1, <1>4, <2>1
  <2> QED
    BY <2>2, <2>3, <2>4, <2>5 DEF Riff!ChunkHeaderLen
<1>7. n \in T
  <2>1. Nat \subseteq T
    BY <1>5, <1>6, Induct
  <2> QED
    BY <1>1, <2>1
<1>8. s[n] = t[n] /\ s[n] \in Nat
  BY <1>1, <1>7
<1>9. t[n + 1] = t[n] + Riff!ChunkHeaderLen + Riff!Padded(c.size)
  <2>1. n + 1 \in 1..(n + 1) /\ (n + 1) - 1 = n
    BY <1>1
  <2> QED
    BY <1>1, <1>3, <2>1 DEF WalkRun
<1>10. /\ NextAfter(chunks) = Riff!RiffHeaderLen + s[n]
       /\ NextAfter(more) = Riff!RiffHeaderLen + t[n + 1]
  BY <1>2, <1>3 DEF WalkRun
<1>11. Riff!Padded(c.size) \in Nat
  BY DEF Riff!Padded
<1>12. NextAfter(chunks) \in Nat /\ NextAfter(more) = NextAfter(chunks) + Riff!ChunkHeaderLen + Riff!Padded(c.size)
  <2> DEFINE z == Riff!Padded(c.size)
             x == s[n]
  <2>1. z \in Nat /\ x \in Nat /\ NextAfter(chunks) = 12 + x /\ NextAfter(more) = 12 + (x + 8 + z)
    <3>1. t[n + 1] = x + 8 + z
      BY <1>8, <1>9, Zenon DEF Riff!ChunkHeaderLen
    <3> QED
      BY <1>8, <1>10, <1>11, <3>1, Zenon DEF Riff!RiffHeaderLen
  <2> HIDE DEF x, z
  <2>2. NextAfter(chunks) \in Nat /\ NextAfter(more) = NextAfter(chunks) + 8 + z
    BY <2>1
  <2> QED
    BY <2>2, Zenon DEF z, Riff!ChunkHeaderLen
<1> QED
  BY <1>12, Zenon DEF more

\* The format chunks among the given ones.
IsFmt(c) == c.id = "fmt "
Fmts(chunks) == {k \in DOMAIN chunks : IsFmt(chunks[k])}

\* What the reader knows of the chunks behind it.
Walked(chunks, a, have, said) ==
  /\ a = 0 => chunks = <<>>
  /\ a # 0 => a = NextAfter(chunks)
  /\ \A k \in DOMAIN chunks : chunks[k].id # "data"
  /\ \A k \in Fmts(chunks) : Riff!Supported(chunks[k])
  /\ have <=> Fmts(chunks) # {}
  /\ have => said = [channels |-> chunks[Riff!Max(Fmts(chunks))].fmt.channels,
                     rate |-> chunks[Riff!Max(Fmts(chunks))].fmt.rate]

\* RiffExact, of what has been seen, where the reader is, what it knows and how
\* it has returned.
Exactly(chunks, a, said, samples, met, out) ==
  /\ out = "ok" => /\ chunks # <<>> /\ chunks[Len(chunks)].id = "data"
                   /\ \A k \in 1..(Len(chunks) - 1) : chunks[k].id # "data"
                   /\ Fmts(chunks) # {} /\ \A k \in Fmts(chunks) : Riff!Supported(chunks[k])
                   /\ said = [channels |-> chunks[Riff!Max(Fmts(chunks))].fmt.channels,
                              rate |-> chunks[Riff!Max(Fmts(chunks))].fmt.rate]
                   /\ a = NextAfter(chunks) - Riff!Padded(chunks[Len(chunks)].size)
                   /\ samples = chunks[Len(chunks)].size
  /\ out = "bad" => \/ \E k \in Fmts(chunks) : ~Riff!Supported(chunks[k])
                    \/ Fmts(chunks) = {} /\ chunks[Len(chunks)].id = "data"
  /\ out = "error" => met

RiffInv == /\ seen \in Seq(Riff!Chunks) /\ at \in Nat
           /\ outcome = "reading" => Walked(seen, at, haveFmt, fmt)
           /\ Exactly(seen, at, fmt, limit, cut, outcome)

\* One more chunk, and the formats then.
LEMMA FmtsOfMore ==
  ASSUME NEW S, NEW chunks \in Seq(S), NEW c \in S
  PROVE  /\ ~IsFmt(c) => Fmts(Append(chunks, c)) = Fmts(chunks)
         /\ IsFmt(c) => /\ Fmts(Append(chunks, c)) = Fmts(chunks) \cup {Len(chunks) + 1}
                             /\ Riff!Max(Fmts(Append(chunks, c))) = Len(chunks) + 1
<1> DEFINE more == Append(chunks, c)
           n == Len(chunks)
<1>1. /\ n \in Nat /\ DOMAIN chunks = 1..n /\ DOMAIN more = 1..(n + 1) /\ more[n + 1] = c
      /\ \A k \in 1..n : more[k] = chunks[k]
  OBVIOUS
<1> HIDE DEF n, more
<1>10. \A k : k \in Fmts(more) <=> k \in 1..(n + 1) /\ IsFmt(more[k])
  BY <1>1, Zenon DEF Fmts
<1>11. \A k : k \in Fmts(chunks) <=> k \in 1..n /\ IsFmt(chunks[k])
  BY <1>1, Zenon DEF Fmts
<1>2. ~IsFmt(c) => Fmts(more) = Fmts(chunks)
  <2> SUFFICES ASSUME ~IsFmt(c) PROVE Fmts(more) = Fmts(chunks)
    OBVIOUS
  <2>1. ASSUME NEW k PROVE k \in Fmts(more) <=> k \in Fmts(chunks)
    BY <1>1, <1>10, <1>11
  <2> QED
    BY <2>1
<1>3. IsFmt(c) => Fmts(more) = Fmts(chunks) \cup {n + 1}
  <2> SUFFICES ASSUME IsFmt(c) PROVE Fmts(more) = Fmts(chunks) \cup {n + 1}
    OBVIOUS
  <2>1. ASSUME NEW k PROVE k \in Fmts(more) <=> k \in Fmts(chunks) \/ k = n + 1
    BY <1>1, <1>10, <1>11
  <2> QED
    BY <2>1
<1>4. IsFmt(c) => Riff!Max(Fmts(more)) = n + 1
  <2> SUFFICES ASSUME IsFmt(c) PROVE Riff!Max(Fmts(more)) = n + 1
    OBVIOUS
  <2>1. \A y \in Fmts(more) : y \in Int /\ n + 1 >= y
    BY <1>1, <1>10
  <2>2. n + 1 \in Fmts(more)
    BY <1>3
  <2>3. ASSUME NEW x \in Fmts(more), \A y \in Fmts(more) : x >= y PROVE x = n + 1
    <3>1. x >= n + 1 /\ x \in Int /\ n + 1 >= x
      BY <2>1, <2>2, <2>3
    <3> QED
      BY <1>1, <3>1
  <2> QED
    BY <2>1, <2>2, <2>3 DEF Riff!Max
<1> QED
  BY <1>2, <1>3, <1>4, Zenon DEF more, n

\* What a chunk is.
LEMMA ChunkIs ==
  ASSUME NEW c \in Riff!Chunks
  PROVE  /\ c.size \in Nat /\ (IsFmt(c) => c.size \in FmtSizes /\ c.id # "data")
<1>1. FmtSizes \subseteq Nat /\ DataSizes \subseteq Nat /\ OtherSizes \subseteq Nat
  BY MediaFilesAssumption DEF Riff!RiffAssumption
<1> QED
  BY <1>1, ZenonT(60) DEF Riff!Chunks, IsFmt

\* A finite set of numbers has a largest.
LEMMA TopOf ==
  ASSUME NEW n \in Nat, NEW s, s \subseteq 1..n, s # {}
  PROVE  \E x \in s : \A y \in s : x >= y
<1> DEFINE T == {k \in Nat : \A t : t \subseteq 1..k /\ t # {} => \E x \in t : \A y \in t : x >= y}
<1>1. 0 \in T
  OBVIOUS
<1>2. ASSUME NEW k \in Nat, k \in T PROVE k + 1 \in T
  <2> SUFFICES ASSUME NEW t, t \subseteq 1..(k + 1), t # {} PROVE \E x \in t : \A y \in t : x >= y
    BY k + 1 \in Nat, Zenon
  <2>1. CASE k + 1 \in t
    BY <2>1
  <2>2. CASE k + 1 \notin t
    <3>1. t \subseteq 1..k
      BY <2>2
    <3> QED
      BY <1>2, <3>1
  <2> QED
    BY <2>1, <2>2
<1>3. n \in T
  <2> HIDE DEF T
  <2>1. Nat \subseteq T
    BY <1>1, <1>2, Induct
  <2> QED
    BY <2>1
<1> QED
  BY <1>3, Zenon

\* A step leaves a reader that still walks where it should be, and one that has
\* returned where it should have.  The code does not skip the padding of an odd
\* "fmt " chunk, so there are none.
LEMMA RiffStays ==
  ASSUME \A n \in FmtSizes : n % 2 = 0, RiffInv, [Riff!Next]_(Riff!vars)
  PROVE  RiffInv'
<1>1. CASE UNCHANGED Riff!vars
  BY <1>1, Zenon DEF RiffInv, Riff!vars
<1>2. CASE Riff!ReadHeader
  <2>1. outcome = "reading" /\ at = 0 /\ at' = 12 /\ seen' = seen /\ Walked(seen, at, haveFmt, fmt)
    BY <1>2, Zenon DEF Riff!ReadHeader, RiffInv, Riff!RiffHeaderLen
  <2>2. NextAfter(<<>>) = 12
    <3>1. DOMAIN <<>> = 1..0 /\ 0 \in Nat
      OBVIOUS
    <3>2. PICK s : WalkRun(s, <<>>, 0)
      BY <3>1, WalkSteps
    <3> QED
      BY <3>2 DEF WalkRun, Riff!RiffHeaderLen
  <2>3. CASE UNCHANGED <<haveFmt, fmt, limit, outcome>>
    <3>1. 12 # 0 /\ 12 \in Nat
      OBVIOUS
    <3>2. Walked(seen, 12, haveFmt, fmt)
      BY <2>1, <2>2, <3>1, Zenon DEF Walked
    <3>3. outcome' = "reading" /\ haveFmt' = haveFmt /\ fmt' = fmt
      BY <2>1, <2>3, Zenon
    <3>4. Exactly(seen, at, fmt, limit, cut, outcome)'
      BY <3>3, Zenon DEF Exactly
    <3> QED
      BY <2>1, <3>1, <3>2, <3>3, <3>4, Zenon DEF RiffInv
  <2>4. CASE Riff!Return("not RIFF")
    <3>1. outcome' = "not RIFF"
      BY <2>4, Zenon DEF Riff!Return
    <3>2. Exactly(seen, at, fmt, limit, cut, outcome)'
      BY <3>1, Zenon DEF Exactly
    <3>3. outcome' # "reading" /\ 12 \in Nat
      <4>1. 12 \in Nat
        OBVIOUS
      <4> QED
        BY <3>1, <4>1, Zenon
    <3> QED
      BY <2>1, <3>2, <3>3, Zenon DEF RiffInv
  <2> QED
    BY <1>2, <2>3, <2>4, Zenon DEF Riff!ReadHeader
<1>3. CASE Riff!ReadFails
  <2>1. outcome' = "error" /\ cut' = TRUE /\ seen' = seen /\ at' = at
    BY <1>3, Zenon DEF Riff!ReadFails, Riff!Return
  <2>2. Exactly(seen, at, fmt, limit, cut, outcome)'
    BY <2>1, Zenon DEF Exactly
  <2> QED
    BY <2>1, <2>2, Zenon DEF RiffInv
<1>4. CASE Riff!ReadChunk
  <2>1. /\ outcome = "reading" /\ at # 0 /\ at \in Nat /\ seen \in Seq(Riff!Chunks) /\ Walked(seen, at, haveFmt, fmt)
    <3>1. at > 0 /\ outcome = "reading"
      BY <1>4, Zenon DEF Riff!ReadChunk
    <3>2. at # 0
      BY <3>1
    <3> QED
      BY <3>1, <3>2, Zenon DEF RiffInv
  <2>2. at = NextAfter(seen) /\ at = Riff!NextChunk
    <3>1. at = NextAfter(seen)
      BY <2>1, Zenon DEF Walked
    <3> QED
      BY <3>1 DEF NextAfter, Riff!NextChunk
  <2>3. PICK c \in Riff!Chunks : seen' = Append(seen, c) /\ (Riff!ReadFmt(c) \/ Riff!ReadData(c) \/ Riff!SkipOther(c))
    BY <1>4, <2>2, Zenon DEF Riff!ReadChunk
  <2> DEFINE more == Append(seen, c)
             n == Len(seen)
             z == Riff!Padded(c.size)
             next == NextAfter(more)
  <2>4. /\ more \in Seq(Riff!Chunks) /\ more # <<>> /\ DOMAIN more = 1..(n + 1) /\ more[n + 1] = c /\ n \in Nat
        /\ DOMAIN seen = 1..n /\ Len(more) = n + 1 /\ \A k \in 1..n : more[k] = seen[k]
    BY <2>1
  <2>5. c.size \in Nat /\ (IsFmt(c) => c.size \in FmtSizes /\ c.id # "data")
    BY ChunkIs
  <2>6. z \in Nat /\ next = at + 8 + z /\ next \in Nat /\ next # 0
    <3>1. \A d \in Riff!Chunks : d.size \in Nat
      BY ChunkIs
    <3>2. NextAfter(Append(seen, c)) = NextAfter(seen) + Riff!ChunkHeaderLen + Riff!Padded(c.size)
      BY <2>1, <3>1, OneMoreChunk
    <3>3. z \in Nat
      BY <2>5 DEF Riff!Padded
    <3>4. next = at + 8 + z
      BY <2>2, <3>2, Zenon DEF Riff!ChunkHeaderLen
    <3> HIDE DEF next, z
    <3> QED
      BY <2>1, <3>3, <3>4
  <2>7. /\ ~IsFmt(c) => Fmts(more) = Fmts(seen)
        /\ IsFmt(c) => Fmts(more) = Fmts(seen) \cup {n + 1} /\ Riff!Max(Fmts(more)) = n + 1
    BY <2>1, FmtsOfMore
  <2>8. Fmts(seen) \subseteq 1..n
    BY <2>4, Zenon DEF Fmts
  <2>9. seen' = more /\ seen' \in Seq(Riff!Chunks)
    BY <2>3, <2>4, Zenon
  <2> HIDE DEF more, next, z, n
  <2>14. IsFmt(c) /\ Riff!Supported(c) => \A k \in Fmts(more) : Riff!Supported(more[k])
    BY <2>1, <2>4, <2>7, <2>8, Zenon DEF Walked
  <2>15. ~IsFmt(c) => \A k \in Fmts(more) : Riff!Supported(more[k])
    BY <2>1, <2>4, <2>7, <2>8, Zenon DEF Walked
  <2>16. c.id # "data" => \A k \in DOMAIN more : more[k].id # "data"
    <3> SUFFICES ASSUME c.id # "data", NEW k \in 1..(n + 1) PROVE more[k].id # "data"
      BY <2>4, Zenon
    <3>1. k = n + 1 \/ k \in 1..n
      BY <2>4
    <3> QED
      BY <2>1, <2>4, <3>1, Zenon DEF Walked
  <2>17. haveFmt /\ ~IsFmt(c) => fmt = [channels |-> more[Riff!Max(Fmts(more))].fmt.channels,
                                        rate |-> more[Riff!Max(Fmts(more))].fmt.rate]
    <3> SUFFICES ASSUME haveFmt, ~IsFmt(c)
                 PROVE  fmt = [channels |-> more[Riff!Max(Fmts(more))].fmt.channels,
                               rate |-> more[Riff!Max(Fmts(more))].fmt.rate]
      OBVIOUS
    <3> DEFINE top == Riff!Max(Fmts(seen))
    <3>1. top \in Fmts(seen)
      <4>1. \E x \in Fmts(seen) : \A y \in Fmts(seen) : x >= y
        <5>1. Fmts(seen) # {}
          BY <2>1, Zenon DEF Walked
        <5> QED
          BY <2>4, <2>8, <5>1, TopOf
      <4> QED
        BY <4>1, Zenon DEF Riff!Max
    <3>2. more[top] = seen[top] /\ Fmts(more) = Fmts(seen)
      BY <2>4, <2>7, <2>8, <3>1, Zenon
    <3> QED
      BY <2>1, <3>2, Zenon DEF Walked
  <2>10. CASE Riff!ReadFmt(c)
    <3>1. IsFmt(c) /\ at' = at + 8 + c.size
      BY <2>10, Zenon DEF Riff!ReadFmt, IsFmt, Riff!ChunkHeaderLen
    <3>2. z = c.size
      <4>1. c.size % 2 = 0 /\ c.size + 0 = c.size
        BY <2>5, <3>1
      <4> QED
        BY <4>1, Zenon DEF z, Riff!Padded
    <3>3. at' = next /\ at' \in Nat /\ at' # 0
      BY <2>6, <3>1, <3>2, Zenon
    <3>4. CASE Riff!Supported(c)
      <4>1. haveFmt' = TRUE /\ fmt' = [channels |-> c.fmt.channels, rate |-> c.fmt.rate] /\ outcome' = outcome
        BY <2>10, <3>4, Zenon DEF Riff!ReadFmt
      <4>2. Walked(more, at', haveFmt', fmt')
        <5>1. n + 1 \in Fmts(more) /\ Riff!Max(Fmts(more)) = n + 1
          BY <2>7, <3>1
        <5>2. fmt' = [channels |-> more[Riff!Max(Fmts(more))].fmt.channels, rate |-> more[Riff!Max(Fmts(more))].fmt.rate]
          BY <2>4, <4>1, <5>1, Zenon
        <5> QED
          BY <2>5, <2>14, <2>16, <3>1, <3>3, <3>4, <4>1, <5>1, <5>2, Zenon DEF Walked, next
      <4>3. Exactly(seen', at', fmt', limit', cut', outcome')
        BY <2>1, <4>1, Zenon DEF Exactly
      <4> QED
        BY <2>9, <3>3, <4>2, <4>3, Zenon DEF RiffInv
    <3>5. CASE ~Riff!Supported(c)
      <4>1. outcome' = "bad"
        BY <2>10, <3>5, Zenon DEF Riff!ReadFmt, Riff!Return
      <4>2. n + 1 \in Fmts(more)
        BY <2>7, <3>1
      <4>3. Exactly(more, at', fmt', limit', cut', outcome')
        BY <2>4, <3>5, <4>1, <4>2, Zenon DEF Exactly
      <4> QED
        BY <2>9, <3>3, <4>1, <4>3, Zenon DEF RiffInv
    <3> QED
      BY <3>4, <3>5
  <2>11. CASE Riff!ReadData(c)
    <3>1. c.id = "data" /\ at' = at + 8
      BY <2>11, Zenon DEF Riff!ReadData, Riff!ChunkHeaderLen
    <3>2. ~IsFmt(c)
      BY <2>5, <3>1
    <3>3. at' = next - z /\ at' \in Nat
      <4> HIDE DEF next, z
      <4> QED
        BY <2>1, <2>6, <3>1
    <3>4. CASE haveFmt
      <4>1. limit' = c.size /\ outcome' = "ok" /\ fmt' = fmt
        BY <2>11, <3>4, Zenon DEF Riff!ReadData
      <4>2. \A k \in 1..n : more[k].id # "data"
        BY <2>1, <2>4, Zenon DEF Walked
      <4>3. Len(more) - 1 = n /\ more[Len(more)] = c
        BY <2>4
      <4>4. Fmts(more) # {}
        BY <2>1, <2>7, <3>2, <3>4, Zenon DEF Walked
      <4>5. Exactly(more, at', fmt', limit', cut', outcome')
        BY <2>4, <2>15, <2>17, <3>1, <3>2, <3>3, <3>4, <4>1, <4>2, <4>3, <4>4, Zenon DEF Exactly, next, z
      <4> QED
        BY <2>9, <3>3, <4>1, <4>5, Zenon DEF RiffInv
    <3>5. CASE ~haveFmt
      <4>1. outcome' = "bad"
        BY <2>11, <3>5, Zenon DEF Riff!ReadData, Riff!Return
      <4>2. Fmts(more) = {} /\ more[Len(more)] = c
        BY <2>1, <2>4, <2>7, <3>2, <3>5, Zenon DEF Walked
      <4>3. Exactly(more, at', fmt', limit', cut', outcome')
        BY <3>1, <4>1, <4>2, Zenon DEF Exactly
      <4> QED
        BY <2>9, <3>3, <4>1, <4>3, Zenon DEF RiffInv
    <3> QED
      BY <3>4, <3>5
  <2>12. CASE Riff!SkipOther(c)
    <3>1. c.id = "LIST" /\ at' = at + 8 + z /\ UNCHANGED <<haveFmt, fmt, limit, outcome>>
      BY <2>12, Zenon DEF Riff!SkipOther, Riff!ChunkHeaderLen, z
    <3>2. ~IsFmt(c) /\ c.id # "data"
      BY <3>1, Zenon DEF IsFmt
    <3>3. at' = next /\ at' \in Nat /\ at' # 0
      BY <2>6, <3>1, Zenon
    <3>4. Walked(more, at', haveFmt', fmt')
      <4>1. haveFmt <=> Fmts(more) # {}
        BY <2>1, <2>7, <3>2, Zenon DEF Walked
      <4> QED
        BY <2>15, <2>16, <2>17, <3>1, <3>2, <3>3, <4>1, Zenon DEF Walked, next
    <3>5. Exactly(seen', at', fmt', limit', cut', outcome')
      BY <2>1, <3>1, Zenon DEF Exactly
    <3> QED
      BY <2>9, <3>3, <3>4, <3>5, Zenon DEF RiffInv
  <2> QED
    BY <2>3, <2>10, <2>11, <2>12, Zenon
<1> QED
  BY <1>1, <1>2, <1>3, <1>4, Zenon DEF Riff!Next

\* When no "fmt " chunk has an odd size, newWavReader returns a reader at the
\* samples exactly when the file can be read up to the first data chunk and
\* supported formats stand before it (source.go:189-246).
THEOREM RiffReaderExact == ASSUME \A n \in FmtSizes : n % 2 = 0
                           PROVE  MediaFilesSpec => []RiffExact
<1> DEFINE Inv == part = "RiffReader" => RiffInv
<1>1. MediaFilesInit => Inv
  <2> SUFFICES ASSUME MediaFilesInit PROVE RiffInv
    OBVIOUS
  <2>1. /\ seen = <<>> /\ at = 0 /\ haveFmt = FALSE /\ outcome = "reading"
    BY DEF MediaFilesInit, Riff!Init
  <2>2. (\A S : <<>> \in Seq(S)) /\ DOMAIN <<>> = {} /\ 0 \in Nat
    OBVIOUS
  <2>3. Walked(seen, at, haveFmt, fmt) /\ Exactly(seen, at, fmt, limit, cut, outcome)
    BY <2>1, <2>2, Zenon DEF Walked, Exactly, Fmts
  <2> QED
    BY <2>1, <2>2, <2>3, Zenon DEF RiffInv
<1>2. Inv /\ [MediaFilesNext]_allVars => Inv'
  <2> SUFFICES ASSUME Inv, [MediaFilesNext]_allVars, part = "RiffReader" PROVE RiffInv'
    BY OnePartMoves
  <2>1. [Riff!Next]_(Riff!vars)
    BY OnePartMoves
  <2> QED
    BY <2>1, RiffStays
<1>3. Inv => RiffExact
  <2> SUFFICES ASSUME RiffInv PROVE Riff!RiffExact
    BY DEF RiffExact
  <2>1. Riff!FmtsSeen = Fmts(seen)
    BY Zenon DEF Riff!FmtsSeen, Fmts, IsFmt
  <2>2. Riff!NextChunk = NextAfter(seen)
    BY DEF Riff!NextChunk, NextAfter
  <2>3. Riff!Last(seen) = seen[Len(seen)]
    BY Zenon DEF Riff!Last
  <2>4. Exactly(seen, at, fmt, limit, cut, outcome)
    BY Zenon DEF RiffInv
  <2> QED
    BY <2>1, <2>2, <2>3, <2>4, Zenon DEF Exactly, Riff!RiffExact, Riff!UpToData
<1> QED
  BY <1>1, <1>2, <1>3, PTL DEF MediaFilesSpec

-----------------------------------------------------------------------------
(* OpusSource.                                                             *)

\* The samples that are dropped, and the padding.
Dropped == preSkip \div Clock
Zeros(n) == [k \in 1..n |-> Opus!Silence]

\* What is left to drop is what has not been decoded yet of what is to be
\* dropped; all the rest is played or waits, and padding follows only at the end.
OpusInv ==
  /\ preSkip \in Nat /\ Dropped \in Nat /\ skip \in Nat /\ decoded \in Nat
  /\ queue \in Seq(Nat) /\ played \in Seq(Nat) /\ dry \in BOOLEAN
  /\ decoded <= Dropped => skip = Dropped - decoded
  /\ decoded > Dropped => skip = 0
  /\ \E padding \in 0..(FrameLen - 1) :
       /\ played \o queue = Opus!Samples(Dropped + 1, decoded) \o Zeros(padding)
       /\ padding > 0 => dry /\ queue = <<>>
  /\ end = "eof" => queue = <<>>

\* The samples up to one, and those from there on.
SamplesMeet(a, d, e) == Opus!Samples(a + 1, d) \o Opus!Samples(d + 1, e) = Opus!Samples(a + 1, e)

\* They follow each other.
LEMMA SamplesJoin ==
  ASSUME NEW a \in Nat, NEW d \in Nat, NEW e \in Nat, a <= d, d <= e
  PROVE  /\ SamplesMeet(a, d, e) /\ Opus!Samples(a + 1, d) \in Seq(Nat) /\ Opus!Samples(d + 1, e) \in Seq(Nat)
<1> DEFINE x == [k \in 1..(d - a) |-> a + k]
           y == [k \in 1..(e - d) |-> d + k]
           z == [k \in 1..(e - a) |-> a + k]
<1>1. x \in Seq(Nat) /\ y \in Seq(Nat) /\ z \in Seq(Nat) /\ Len(x) = d - a /\ Len(y) = e - d /\ Len(z) = e - a
  OBVIOUS
<1>2. \A k \in 1..(d - a) : x[k] = a + k
  OBVIOUS
<1>3. \A k \in 1..(e - d) : y[k] = d + k
  OBVIOUS
<1>4. \A k \in 1..(e - a) : z[k] = a + k
  OBVIOUS
<1>5. Opus!Samples(a + 1, d) = x /\ Opus!Samples(d + 1, e) = y /\ Opus!Samples(a + 1, e) = z
  BY DEF Opus!Samples
<1> HIDE DEF x, y, z
<1> DEFINE w == x \o y
<1>6. /\ w \in Seq(Nat) /\ Len(w) = Len(x) + Len(y) /\ \A k \in 1..Len(x) : w[k] = x[k]
      /\ \A k \in 1..Len(y) : w[Len(x) + k] = y[k]
  <2>1. x \in Seq(Nat) /\ y \in Seq(Nat)
    BY <1>1
  <2> QED
    BY <2>1
<1> HIDE DEF w
<1>7. Len(w) = Len(z)
  BY <1>1, <1>6, SMTT(30)
<1>8. ASSUME NEW k \in 1..(e - a) PROVE w[k] = z[k]
  <2>1. CASE k <= d - a
    BY <1>1, <1>2, <1>4, <1>6, <2>1
  <2>2. CASE k > d - a
    <3> DEFINE j == k - (d - a)
    <3>1. j \in 1..Len(y) /\ Len(x) + j = k /\ d + j = a + k
      BY <1>1, <2>2
    <3> HIDE DEF j
    <3>2. w[k] = y[j]
      BY <1>6, <3>1
    <3>3. y[j] = d + j
      BY <1>1, <1>3, <3>1
    <3> QED
      BY <1>4, <3>1, <3>2, <3>3
  <2> QED
    BY <2>1, <2>2
<1>9. w = z
  BY <1>1, <1>6, <1>7, <1>8
<1> QED
  BY <1>1, <1>5, <1>9, Zenon DEF w, SamplesMeet

\* There are none from one to one before it.
LEMMA NoSamples ==
  ASSUME NEW a \in Nat, NEW d \in Nat, d <= a
  PROVE  Opus!Samples(a + 1, d) = <<>>
BY DEF Opus!Samples

\* Samples are numbers.
LEMMA SamplesAre ==
  ASSUME NEW a \in Nat, NEW d \in Nat
  PROVE  Opus!Samples(a + 1, d) \in Seq(Nat)
<1>1. CASE d <= a
  <2>1. <<>> \in Seq(Nat)
    OBVIOUS
  <2> QED
    BY <1>1, <2>1, NoSamples, Zenon
<1>2. CASE a <= d
  <2>1. d <= d
    OBVIOUS
  <2> QED
    BY <1>2, <2>1, SamplesJoin
<1> QED
  BY <1>1, <1>2

\* No padding.
LEMMA NoZeros ==
  ASSUME NEW s \in Seq(Nat)
  PROVE  Zeros(0) = <<>> /\ s \o Zeros(0) = s
<1>1. Zeros(0) = <<>>
  BY DEF Zeros
<1>2. s \o <<>> = s
  OBVIOUS
<1> QED
  BY <1>1, <1>2, Zenon

\* A packet: its samples but those to be dropped follow the others.
LEMMA OpusMore ==
  ASSUME OpusInv, NEW n \in PacketSizes, Opus!More(n)
  PROVE  OpusInv'
<1> DEFINE from == decoded + skip
           to == decoded + n
           p == Dropped
<1>1. /\ end = "no" /\ ~dry /\ decoded' = to /\ UNCHANGED <<preSkip, dry, played, end>>
      /\ skip >= n => skip' = skip - n /\ queue' = queue
      /\ ~(skip >= n) => skip' = 0 /\ queue' = queue \o Opus!Samples(from + 1, to)
  BY DEF Opus!More, Opus!ReadsOn
<1>2. Dropped' = p
  BY <1>1 DEF Dropped
<1>3. n \in Nat /\ FrameLen \in Nat \ {0}
  BY MediaFilesAssumption DEF Opus!OpusAssumption
<1>4. /\ p \in Nat /\ skip \in Nat /\ decoded \in Nat
      /\ decoded <= p => skip = p - decoded
      /\ decoded > p => skip = 0
  BY DEF OpusInv
<1>5. played \in Seq(Nat) /\ queue \in Seq(Nat)
  BY DEF OpusInv
<1>6. played \o queue = Opus!Samples(p + 1, decoded)
  <2>1. PICK padding \in 0..(FrameLen - 1) :
          /\ played \o queue = Opus!Samples(Dropped + 1, decoded) \o Zeros(padding)
          /\ padding > 0 => dry /\ queue = <<>>
    BY DEF OpusInv
  <2>2. padding = 0
    BY <1>1, <1>3, <2>1
  <2>3. Opus!Samples(p + 1, decoded) \in Seq(Nat)
    BY <1>4, SamplesAre
  <2> QED
    BY <2>1, <2>2, <2>3, NoZeros, Zenon
<1> HIDE DEF p, to, from
<1>7. to \in Nat /\ skip' \in Nat /\ (to <= p => skip' = p - to) /\ (to > p => skip' = 0)
  BY <1>1, <1>3, <1>4 DEF to
<1>8. played \o queue' = Opus!Samples(p + 1, to) /\ queue' \in Seq(Nat)
  <2>1. CASE skip >= n
    <3>1. CASE decoded <= p
      <4>1. to <= p
        BY <1>3, <1>4, <2>1, <3>1 DEF to
      <4> QED
        BY <1>1, <1>4, <1>5, <1>6, <1>7, <2>1, <3>1, <4>1, NoSamples, Zenon
    <3>2. CASE decoded > p
      <4>1. to = decoded
        BY <1>3, <1>4, <2>1, <3>2 DEF to
      <4> QED
        BY <1>1, <1>5, <1>6, <2>1, <4>1, Zenon
    <3> QED
      BY <1>4, <3>1, <3>2
  <2>2. CASE ~(skip >= n)
    <3> DEFINE x == Opus!Samples(from + 1, to)
               y == Opus!Samples(p + 1, decoded)
               z == Opus!Samples(p + 1, from)
    <3>1. from \in Nat /\ p <= from /\ from <= to
      BY <1>3, <1>4, <2>2 DEF to, from
    <3>2. x \in Seq(Nat) /\ z \in Seq(Nat) /\ SamplesMeet(p, from, to)
      BY <1>4, <1>7, <3>1, SamplesJoin
    <3>3. y = z
      <4>1. CASE decoded <= p
        <5>1. from <= p /\ from = p
          BY <1>4, <4>1 DEF from
        <5> QED
          BY <1>4, <4>1, <5>1, NoSamples, Zenon
      <4>2. CASE decoded > p
        <5>1. from = decoded
          BY <1>4, <4>2 DEF from
        <5> QED
          BY <5>1, Zenon
      <4> QED
        BY <1>4, <4>1, <4>2
    <3>4. z \o x = Opus!Samples(p + 1, to)
      BY <3>2, Zenon DEF SamplesMeet
    <3>5. Behind(Nat, played, queue, x, y)
      <4> HIDE DEF x, y, z
      <4>1. y = played \o queue
        BY <1>6 DEF y
      <4> QED
        BY <1>5, <3>2, <4>1, JoinedBehind
    <3>6. queue \o x \in Seq(Nat) /\ played \o (queue \o x) = y \o x
      BY <3>5, Zenon DEF Behind
    <3> QED
      BY <1>1, <2>2, <3>3, <3>4, <3>6, Zenon
  <2> QED
    BY <2>1, <2>2
<1>9. /\ played' \o queue' = Opus!Samples(Dropped' + 1, decoded') \o Zeros(0)
      /\ 0 \in 0..(FrameLen - 1) /\ ~(0 > 0)
  <2>1. Opus!Samples(p + 1, to) \in Seq(Nat)
    <3> DEFINE q == queue'
    <3>1. q \in Seq(Nat)
      BY <1>8
    <3> HIDE DEF q
    <3>2. played \o q \in Seq(Nat)
      BY <1>5, <3>1
    <3> QED
      BY <1>8, <3>2, Zenon DEF q
  <2>2. Opus!Samples(p + 1, to) \o Zeros(0) = Opus!Samples(p + 1, to)
    BY <2>1, NoZeros, Zenon
  <2>3. 0 \in 0..(FrameLen - 1) /\ ~(0 > 0)
    BY <1>3
  <2>4. played' = played /\ decoded' = to /\ Dropped' = p
    BY <1>1, <1>2
  <2> QED
    BY <1>8, <2>2, <2>3, <2>4, Zenon
<1>10. decoded' = to /\ Dropped' = p /\ dry' = dry /\ dry \in BOOLEAN /\ preSkip' \in Nat /\ end' # "eof"
  BY <1>1, <1>2 DEF OpusInv
<1>11. /\ decoded' <= Dropped' => skip' = Dropped' - decoded'
       /\ decoded' > Dropped' => skip' = 0
  BY <1>7, <1>10, Zenon
<1> QED
  BY <1>1, <1>4, <1>5, <1>7, <1>8, <1>9, <1>10, <1>11, Zenon DEF OpusInv

\* A frame: what was played and waits is still all there is, with the padding of
\* the last.
LEMMA OpusFrame ==
  ASSUME OpusInv, Opus!ReadFrame
  PROVE  OpusInv'
<1>1. /\ end = "no" /\ (Len(queue) >= FrameLen \/ dry)
      /\ UNCHANGED <<preSkip, skip, packets, decoded, dry>> /\ Dropped' = Dropped
  BY DEF Opus!ReadFrame, Dropped
<1>2. FrameLen \in Nat \ {0}
  BY MediaFilesAssumption DEF Opus!OpusAssumption
<1>3. played \in Seq(Nat) /\ queue \in Seq(Nat) /\ dry \in BOOLEAN
  BY DEF OpusInv
<1> DEFINE y == Opus!Samples(Dropped + 1, decoded)
<1>4. PICK padding \in 0..(FrameLen - 1) : played \o queue = y \o Zeros(padding) /\ (padding > 0 => dry /\ queue = <<>>)
  BY DEF OpusInv
<1>5. CASE queue = <<>>
  <2>1. UNCHANGED <<queue, played>>
    BY <1>5 DEF Opus!ReadFrame
  <2>2. queue' = <<>>
    BY <1>5, <2>1
  <2>3. skip' = skip /\ decoded' = decoded /\ preSkip' = preSkip /\ dry' = dry /\ queue' = queue /\ played' = played
    BY <1>1, <2>1
  <2>4. \E p \in 0..(FrameLen - 1) :
          /\ played' \o queue' = Opus!Samples(Dropped' + 1, decoded') \o Zeros(p)
          /\ p > 0 => dry' /\ queue' = <<>>
    <3>1. played' \o queue' = Opus!Samples(Dropped' + 1, decoded') \o Zeros(padding)
      BY <1>1, <1>4, <2>3, Zenon
    <3>2. padding > 0 => dry' /\ queue' = <<>>
      BY <1>4, <2>2, <2>3
    <3>3. padding \in 0..(FrameLen - 1)
      OBVIOUS
    <3> QED
      BY <3>1, <3>2, <3>3, Zenon
  <2> QED
    BY <1>1, <2>2, <2>3, <2>4, Zenon DEF OpusInv
<1>6. CASE queue # <<>>
  <2> DEFINE n == Opus!Min({FrameLen, Len(queue)})
             a == SubSeq(queue, 1, n)
             b == SubSeq(queue, n + 1, Len(queue))
             pad == Zeros(FrameLen - n)
             w == played \o a
  <2>1. end' = end /\ queue' = b /\ played' = w \o pad
    BY <1>6 DEF Opus!ReadFrame, Zeros
  <2>2. /\ n \in Nat \ {0} /\ n <= FrameLen /\ n <= Len(queue) /\ (n = FrameLen \/ n = Len(queue))
    <3>1. Len(queue) \in Nat \ {0}
      BY <1>3, <1>6
    <3>2. n \in {FrameLen, Len(queue)} /\ n <= FrameLen /\ n <= Len(queue)
      <4>1. \E x \in {FrameLen, Len(queue)} : \A z \in {FrameLen, Len(queue)} : x =< z
        BY <1>2, <3>1
      <4>2. n \in {FrameLen, Len(queue)} /\ \A z \in {FrameLen, Len(queue)} : n =< z
        BY <4>1, Zenon DEF Opus!Min
      <4> QED
        BY <4>2
    <3> HIDE DEF n
    <3> QED
      BY <1>2, <3>1, <3>2
  <2> HIDE DEF n
  <2>3. CutBehind(Nat, played, queue, n)
    BY <1>3, <2>2, CutInTwo
  <2>4. w \in Seq(Nat) /\ b \in Seq(Nat) /\ w \o b = played \o queue
    BY <2>3, Zenon DEF CutBehind
  <2>5. padding = 0 /\ y \in Seq(Nat) /\ played \o queue = y
    <3>1. padding = 0
      BY <1>2, <1>4, <1>6
    <3>2. y \in Seq(Nat)
      BY SamplesAre DEF OpusInv
    <3> QED
      BY <1>4, <3>1, <3>2, NoZeros, Zenon
  <2>6. CASE n = FrameLen
    <3>1. FrameLen - n = 0 /\ 0 \in 0..(FrameLen - 1) /\ ~(0 > 0)
      BY <1>2, <2>6
    <3>2. played' = w
      BY <2>1, <2>4, <3>1, NoZeros, Zenon
    <3>3. played' \o queue' = y \o Zeros(0)
      BY <2>1, <2>4, <2>5, <3>2, NoZeros, Zenon
    <3>4. y = Opus!Samples(Dropped' + 1, decoded')
      BY <1>1, Zenon
    <3> QED
      BY <1>1, <1>6, <2>1, <2>4, <3>1, <3>2, <3>3, <3>4, Zenon DEF OpusInv
  <2>7. CASE n # FrameLen
    <3>1. dry /\ n = Len(queue) /\ FrameLen - n \in 0..(FrameLen - 1)
      BY <1>1, <1>2, <2>2, <2>7
    <3>2. b = <<>>
      BY <1>3, <3>1
    <3>3. w = y
      <4>1. w \o <<>> = w
        BY <2>4
      <4> QED
        BY <2>4, <2>5, <3>2, <4>1, Zenon
    <3>4. played' \in Seq(Nat) /\ played' \o <<>> = played'
      <4>1. pad \in Seq(Nat)
        BY <3>1 DEF Zeros, Opus!Silence
      <4> HIDE DEF w, pad
      <4>2. w \o pad \in Seq(Nat) /\ (w \o pad) \o <<>> = w \o pad
        BY <2>4, <4>1
      <4> QED
        BY <2>1, <4>2, Zenon
    <3>5. played' \o queue' = y \o pad
      BY <2>1, <3>2, <3>3, <3>4, Zenon
    <3>6. y = Opus!Samples(Dropped' + 1, decoded')
      BY <1>1, Zenon
    <3> QED
      BY <1>1, <1>6, <2>1, <2>4, <3>1, <3>2, <3>4, <3>5, <3>6, Zenon DEF OpusInv
  <2> QED
    BY <2>6, <2>7
<1> QED
  BY <1>5, <1>6

\* Every step keeps what the source holds.
LEMMA OpusStays ==
  ASSUME OpusInv, [Opus!Next]_(Opus!vars)
  PROVE  OpusInv'
<1>1. CASE UNCHANGED Opus!vars
  BY <1>1, Zenon DEF OpusInv, Dropped, Opus!vars
<1>2. CASE \E n \in PacketSizes : Opus!More(n)
  BY <1>2, OpusMore
<1>3. CASE Opus!MoreExhausted
  <2>1. dry' = TRUE /\ Dropped' = Dropped /\ UNCHANGED <<preSkip, skip, packets, decoded, queue, played, end>>
    BY <1>3, Zenon DEF Opus!MoreExhausted, Dropped
  <2> QED
    BY <2>1, Zenon DEF OpusInv
<1>4. CASE Opus!MoreFails
  <2>1. end' = "error" /\ Dropped' = Dropped /\ UNCHANGED <<preSkip, skip, packets, decoded, queue, dry, played>>
    BY <1>4, Zenon DEF Opus!MoreFails, Dropped
  <2>2. "error" # "eof"
    OBVIOUS
  <2> QED
    BY <2>1, <2>2, Zenon DEF OpusInv
<1>5. CASE Opus!ReadFrame
  BY <1>5, OpusFrame
<1> QED
  BY <1>1, <1>2, <1>3, <1>4, <1>5, Zenon DEF Opus!Next

\* Every sample the decoder gave but the first preSkip / Clock is played or
\* waiting, once and in order, and only the padding of the last frame follows
\* (source.go:306-342).
THEOREM OpusIsPlayed == MediaFilesSpec => []OpusPlaysItAll
<1> DEFINE Inv == part = "OpusSource" => OpusInv
<1>1. MediaFilesInit => Inv
  <2> SUFFICES ASSUME MediaFilesInit PROVE OpusInv
    OBVIOUS
  <2>1. /\ preSkip \in PreSkips /\ skip = preSkip \div Clock /\ decoded = 0
        /\ queue = <<>> /\ played = <<>> /\ dry = FALSE /\ end = "no"
    BY DEF MediaFilesInit, Opus!Init
  <2>2. preSkip \in Nat /\ Clock \in Nat \ {0} /\ FrameLen \in Nat \ {0}
    BY <2>1, MediaFilesAssumption DEF Opus!OpusAssumption
  <2>3. Dropped \in Nat /\ skip = Dropped
    BY <2>1, <2>2, Remainder DEF Dropped
  <2>4. \A S : <<>> \in Seq(S)
    OBVIOUS
  <2>5. Opus!Samples(Dropped + 1, 0) = <<>>
    BY <2>3, NoSamples
  <2>6. <<>> \o <<>> = <<>> /\ 0 \in 0..(FrameLen - 1) /\ ~(0 > 0) /\ 0 \in Nat
    BY <2>2
  <2>7. Zeros(0) = <<>>
    BY <2>4, NoZeros
  <2>8. played \o queue = Opus!Samples(Dropped + 1, decoded) \o Zeros(0)
    BY <2>1, <2>5, <2>6, <2>7, Zenon
  <2>9. /\ 0 <= Dropped => skip = Dropped - 0
        /\ ~(0 > Dropped)
    BY <2>3
  <2> QED
    BY <2>1, <2>2, <2>3, <2>4, <2>6, <2>8, <2>9, Zenon DEF OpusInv
<1>2. Inv /\ [MediaFilesNext]_allVars => Inv'
  <2> SUFFICES ASSUME Inv, [MediaFilesNext]_allVars, part = "OpusSource" PROVE OpusInv'
    BY OnePartMoves
  <2>1. [Opus!Next]_(Opus!vars)
    BY OnePartMoves
  <2> QED
    BY <2>1, OpusStays
<1>3. Inv => OpusPlaysItAll
  <2> SUFFICES ASSUME OpusInv PROVE Opus!OpusPlaysItAll
    BY DEF OpusPlaysItAll
  <2> QED
    BY Zenon DEF OpusInv, Opus!OpusPlaysItAll, Dropped, Zeros
<1> QED
  BY <1>1, <1>2, <1>3, PTL DEF MediaFilesSpec

-----------------------------------------------------------------------------
(* WavSource.                                                              *)

\* A quotient is below a bound when the number is below its multiple.
LEMMA QuotientBelow ==
  ASSUME NEW d \in Nat \ {0}, NEW x \in Nat, NEW m \in Int
  PROVE  (x \div d) + 1 < m <=> x < (m - 1) * d
<1> DEFINE q == x \div d
           s == x % d
<1>1. x = d * q + s /\ s \in 0..(d - 1) /\ q \in Nat
  BY Remainder
<1> HIDE DEF q, s
<1>2. q + 1 < m => x < (m - 1) * d
  <2> SUFFICES ASSUME q + 1 <= m - 1 PROVE x < (m - 1) * d
    BY <1>1
  <2> DEFINE w == (m - 1) - (q + 1)
  <2>1. w \in Nat /\ m - 1 = q + 1 + w
    BY <1>1
  <2> HIDE DEF w
  <2>2. (m - 1) * d = d * q + d + w * d /\ w * d >= 0 /\ w * d \in Int /\ d * q \in Int
    BY <1>1, <2>1, Z3T(20)
  <2> QED
    BY <1>1, <2>2
<1>3. q + 1 >= m => x >= (m - 1) * d
  <2> SUFFICES ASSUME q >= m - 1 PROVE x >= (m - 1) * d
    BY <1>1
  <2> DEFINE w == q - (m - 1)
  <2>1. w \in Nat /\ q = (m - 1) + w
    BY <1>1
  <2> HIDE DEF w
  <2>2. d * q = (m - 1) * d + w * d /\ w * d >= 0 /\ w * d \in Int /\ (m - 1) * d \in Int
    BY <1>1, <2>1, Z3T(20)
  <2> QED
    BY <1>1, <2>2
<1>4. x \in Int /\ (m - 1) * d \in Int
  OBVIOUS
<1>5. (q + 1 < m \/ q + 1 >= m) /\ ~(x < (m - 1) * d /\ x >= (m - 1) * d)
  BY <1>1, <1>4
<1> QED
  BY <1>2, <1>3, <1>5 DEF q

\* Quotients and remainders are determined by the number.
LEMMA OneQuotient ==
  ASSUME NEW d \in Nat \ {0}, NEW x \in Nat, NEW q \in Nat, NEW s \in 0..(d - 1), x = d * q + s
  PROVE  x \div d = q /\ x % d = s
<1> DEFINE p == x \div d
           t == x % d
<1>1. x = d * p + t /\ t \in 0..(d - 1) /\ p \in Nat
  BY Remainder
<1> HIDE DEF p, t
<1>2. t = s
  BY <1>1, OneRemainder
<1>3. d * p = d * q
  <2>1. d * p \in Int /\ d * q \in Int
    BY <1>1
  <2> HIDE DEF p
  <2> QED
    BY <1>1, <1>2, <2>1
<1>4. p = q
  BY <1>1, <1>3, Z3T(20)
<1> QED
  BY <1>2, <1>4 DEF p, t

\* A whole number of divisors less.
LEMMA QuotientLess ==
  ASSUME NEW d \in Nat \ {0}, NEW x \in Nat, NEW e \in Nat, e * d <= x
  PROVE  /\ x - e * d \in Nat /\ e <= x \div d
         /\ (x - e * d) \div d = (x \div d) - e /\ (x - e * d) % d = x % d
<1> DEFINE q == x \div d
           s == x % d
           y == x - e * d
<1>1. x = d * q + s /\ s \in 0..(d - 1) /\ q \in Nat
  BY Remainder
<1>2. y \in Nat
  OBVIOUS
<1> HIDE DEF q, s
<1>3. e <= q
  <2> SUFFICES ASSUME e >= q + 1 PROVE FALSE
    BY <1>1
  <2> DEFINE w == e - (q + 1)
  <2>1. w \in Nat /\ e = q + 1 + w
    BY <1>1
  <2> HIDE DEF w
  <2>2. e * d = d * q + d + w * d /\ w * d >= 0 /\ w * d \in Int /\ d * q \in Int
    BY <1>1, <2>1, Z3T(20)
  <2> QED
    BY <1>1, <2>2
<1>4. y = d * (q - e) + s
  <2>1. d * (q - e) = d * q - e * d
    BY <1>1, Z3T(20)
  <2>2. d * q \in Int /\ e * d \in Int
    BY <1>1
  <2> QED
    BY <1>1, <2>1, <2>2
<1>5. q - e \in Nat
  BY <1>1, <1>3
<1> HIDE DEF y
<1>6. y \div d = q - e /\ y % d = s
  BY <1>1, <1>2, <1>4, <1>5, OneQuotient
<1> QED
  BY <1>2, <1>3, <1>6 DEF y, q, s

\* The first n numbers are n.
LEMMA FirstAre ==
  ASSUME NEW n \in Nat
  PROVE  Source!Cardinality(0..(n - 1)) = n
<1>1. \A s : Source!Cardinality(s) = Cardinality(s)
  BY Zenon DEF Source!Cardinality, Cardinality, Source!IsFiniteSet, IsFiniteSet
<1>2. Cardinality(0..(n - 1)) = n
  <2>1. Cardinality(0..(n - 1)) = IF 0 > n - 1 THEN 0 ELSE (n - 1) - 0 + 1
    BY n - 1 \in Int, 0 \in Int, FS_Interval
  <2> QED
    BY <2>1
<1> QED
  BY <1>1, <1>2

\* n multiples of r are below y: those of 0 to n - 1.
IsCount(n, r, y) == n \in Nat /\ \A k \in Nat : k < n <=> k * r < y

\* There are as many as there are.
LEMMA CountExists ==
  ASSUME NEW r \in Nat \ {0}, NEW y \in Int
  PROVE  \E n \in Nat : IsCount(n, r, y)
<1> DEFINE T == {k \in Nat : ~(k * r < y)}
<1>1. \E k \in Nat : k \in T
  <2>1. CASE y <= 0
    <3>1. ~(0 * r < y) /\ 0 \in Nat
      BY <2>1
    <3> QED
      BY <3>1
  <2>2. CASE y > 0
    <3>1. y * r >= y
      BY <2>2, Z3T(20)
    <3>2. y \in Nat /\ ~(y * r < y)
      BY <2>2, <3>1
    <3> QED
      BY <3>2
  <2> QED
    BY <2>1, <2>2
<1>2. PICK n \in T : \A k \in T : ~(<<k, n>> \in OpToRel(<, Nat))
  <2>1. IsWellFoundedOn(OpToRel(<, Nat), Nat)
    BY NatLessThanWellFounded
  <2>2. T \subseteq Nat /\ T # {}
    BY <1>1
  <2> HIDE DEF T
  <2> QED
    BY <2>1, <2>2, WFMin
<1>3. \A k \in T : ~(k < n)
  BY <1>2 DEF OpToRel
<1>4. n \in Nat /\ ~(n * r < y)
  BY <1>2
<1>5. ASSUME NEW k \in Nat PROVE k < n <=> k * r < y
  <2>1. CASE k < n
    BY <1>3, <2>1
  <2>2. CASE k >= n
    <3>1. k * r >= n * r /\ k * r \in Int /\ n * r \in Int
      BY <1>4, <2>2, Z3T(20)
    <3> QED
      BY <1>4, <2>2, <3>1
  <2> QED
    BY <1>4, <2>1, <2>2
<1> QED
  BY <1>4, <1>5 DEF IsCount

\* The more there is to be below, the more are.
LEMMA CountGrows ==
  ASSUME NEW r \in Nat \ {0}, NEW y \in Int, NEW z \in Int, y <= z,
         NEW m, IsCount(m, r, y), NEW n, IsCount(n, r, z)
  PROVE  m <= n
<1>1. m \in Nat /\ n \in Nat
  BY DEF IsCount
<1>2. CASE n < m
  <2>1. n * r < y
    BY <1>1, <1>2 DEF IsCount
  <2>2. ~(n * r < z)
    BY <1>1 DEF IsCount
  <2>3. n * r \in Int
    BY <1>1
  <2> QED
    BY <2>1, <2>2, <2>3
<1> QED
  BY <1>1, <1>2

\* The positions between two of l samples that are read, from a on in steps of r.
ReadsOf(l, d, a, r) == {k \in 0..(l * d) : (a + k * r) \div d + 1 < l}

\* The read position a is that of sample m, e samples on, and of the samples
\* there are n have one on both sides.
Reading(l, d, r, e, m, a, n) ==
  /\ d \in Nat \ {0} /\ r \in Nat \ {0} /\ l \in Nat /\ e \in Nat /\ m \in Nat /\ a \in Nat /\ n \in Nat
  /\ a = m * r - e * d /\ IsCount(n, r, (e + l - 1) * d) /\ m <= n

\* The read positions, from the one of sample m on: those with a sample on both
\* sides are those up to sample n, all in a row.
LEMMA ReadsAre ==
  ASSUME NEW l, NEW d, NEW r, NEW e, NEW m, NEW a, NEW n, Reading(l, d, r, e, m, a, n)
  PROVE  ReadsOf(l, d, a, r) = 0..(n - m - 1)
<1>0. /\ d \in Nat \ {0} /\ r \in Nat \ {0} /\ l \in Nat /\ e \in Nat /\ m \in Nat /\ a \in Nat /\ n \in Nat
      /\ a = m * r - e * d /\ IsCount(n, r, (e + l - 1) * d) /\ m <= n
  BY Zenon DEF Reading
<1>1. ASSUME NEW k \in Nat PROVE (a + k * r) \div d + 1 < l <=> k <= n - m - 1
  <2> DEFINE x == a + k * r
  <2>1. k * r \in Nat /\ x \in Nat
    BY <1>0, Z3T(20)
  <2> HIDE DEF x
  <2>2. x \div d + 1 < l <=> x < (l - 1) * d
    <3>1. l \in Int
      BY <1>0
    <3> QED
      BY <1>0, <2>1, <3>1, QuotientBelow, Zenon
  <2>3. x < (l - 1) * d <=> (m + k) * r < (e + l - 1) * d
    <3>1. (m + k) * r = m * r + k * r /\ (e + l - 1) * d = e * d + (l - 1) * d
      BY <1>0, Z3T(20)
    <3>2. m * r \in Int /\ k * r \in Int /\ e * d \in Int /\ (l - 1) * d \in Int
      BY <1>0
    <3> QED
      BY <1>0, <3>1, <3>2 DEF x
  <2>4. (m + k) * r < (e + l - 1) * d <=> m + k < n
    <3>1. m + k \in Nat
      BY <1>0
    <3> QED
      BY <1>0, <3>1, Zenon DEF IsCount
  <2>5. m + k < n <=> k <= n - m - 1
    BY <1>0
  <2> QED
    BY <2>2, <2>3, <2>4, <2>5, Zenon DEF x
<1>2. ASSUME NEW k \in Nat, k <= n - m - 1 PROVE k <= l * d
  <2>1. (m + k) * r < (e + l - 1) * d
    <3>1. m + k \in Nat /\ m + k < n
      BY <1>0, <1>2
    <3> QED
      BY <1>0, <3>1, Zenon DEF IsCount
  <2>2. (m + k) * r = m * r + k * r /\ (e + l - 1) * d = e * d + l * d - d /\ k * r >= k
    BY <1>0, Z3T(20)
  <2>3. m * r \in Int /\ k * r \in Int /\ e * d \in Int /\ l * d \in Int
    BY <1>0
  <2> QED
    BY <1>0, <2>1, <2>2, <2>3
<1>3. ASSUME NEW k PROVE k \in {j \in 0..(l * d) : (a + j * r) \div d + 1 < l} <=> k \in 0..(n - m - 1)
  <2>1. l * d \in Nat
    BY <1>0, Z3T(20)
  <2>2. k \in 0..(l * d) <=> k \in Nat /\ k <= l * d
    BY <1>0, <2>1
  <2>3. k \in 0..(n - m - 1) <=> k \in Nat /\ k <= n - m - 1
    BY <1>0
  <2> QED
    BY <1>1, <1>2, <2>2, <2>3, Zenon
<1> QED
  BY <1>3, Zenon DEF ReadsOf

\* What sample k of the output is, at rate r, in groups of g bytes.
Sample(k, r, d, g) ==
  IF r = d THEN <<k * g>> ELSE <<((k * r) \div d) * g, ((k * r) \div d + 1) * g, (k * r) % d>>
FirstSamples(n, r, d, g) == [j \in 1..n |-> Sample(j - 1, r, d, g)]

\* m input samples yield n of them.
Yield(n, m, r, d) == IF r = d THEN n = m ELSE IsCount(n, r, (m - 1) * d)

\* Resampling in one piece.
LEMMA ResampledIs ==
  ASSUME Den \in Nat \ {0}, rate \in Nat \ {0}, Source!GroupBytes \in Nat \ {0}, NEW b \in Nat,
         NEW n \in Nat, Yield(n, b \div Source!GroupBytes, rate, Den)
  PROVE  Source!Resampled(b) = FirstSamples(n, rate, Den, Source!GroupBytes)
<1> DEFINE g == Source!GroupBytes
           m == b \div g
           src == Source!Whole(b)
           reads == {k \in 0..(Len(src) * Den) : (k * rate) \div Den + 1 < Len(src)}
           sample(k) == Source!Between(src[(k * rate) \div Den + 1], src[(k * rate) \div Den + 2], (k * rate) % Den)
<1>1. Source!Resampled(b) = IF rate = Den THEN src ELSE [j \in 1..Source!Cardinality(reads) |-> sample(j - 1)]
  BY DEF Source!Resampled
<1>2. m \in Nat
  <2>1. g \in Nat \ {0}
    OBVIOUS
  <2> HIDE DEF g
  <2> QED
    BY <2>1, Remainder
<1>3. src = [i \in 1..m |-> <<(i - 1) * g>>]
  BY DEF Source!Whole
<1> HIDE DEF g, m
<1>4. Len(src) = m /\ \A i \in 1..m : src[i] = <<(i - 1) * g>> /\ src[i][1] = (i - 1) * g
  BY <1>2, <1>3
<1> HIDE DEF src
<1>5. CASE rate = Den
  <2>1. n = m
    BY <1>5, Zenon DEF Yield, m, g
  <2>2. FirstSamples(n, rate, Den, g) = [j \in 1..n |-> <<(j - 1) * g>>]
    BY <1>5, Zenon DEF FirstSamples, Sample
  <2> QED
    BY <1>1, <1>3, <1>5, <2>1, <2>2, Zenon DEF g
<1>6. CASE rate # Den
  <2>1. IsCount(n, rate, (m - 1) * Den)
    BY <1>6, Zenon DEF Yield, m, g
  <2> DEFINE from0 == ReadsOf(m, Den, 0, rate)
  <2>2. from0 = 0..(n - 0 - 1)
    <3>1. 0 = 0 * rate - 0 * Den /\ 0 \in Nat /\ 0 <= n
      OBVIOUS
    <3>2. IsCount(n, rate, (0 + m - 1) * Den)
      <4>1. 0 + m - 1 = m - 1
        BY <1>2
      <4> QED
        BY <2>1, <4>1, Zenon
    <3>3. Reading(m, Den, rate, 0, 0, 0, n)
      BY <1>2, <3>1, <3>2, Zenon DEF Reading
    <3> QED
      BY <3>3, ReadsAre
  <2>3. reads = 0..(n - 1)
    <3>1. \A k \in Nat : 0 + k * rate = k * rate
      OBVIOUS
    <3>2. reads = {k \in 0..(m * Den) : (k * rate) \div Den + 1 < m}
      BY <1>4, Zenon
    <3>3. \A k \in 0..(m * Den) : (k * rate) \div Den + 1 < m <=> (0 + k * rate) \div Den + 1 < m
      <4> SUFFICES ASSUME NEW k \in 0..(m * Den)
                   PROVE  (k * rate) \div Den + 1 < m <=> (0 + k * rate) \div Den + 1 < m
        OBVIOUS
      <4>1. k \in Nat
        OBVIOUS
      <4> QED
        BY <3>1, <4>1, Zenon
    <3>4. reads = from0
      BY <3>2, <3>3, Zenon DEF ReadsOf
    <3>5. n - 0 - 1 = n - 1
      OBVIOUS
    <3> QED
      BY <2>2, <3>4, <3>5, Zenon
  <2>4. Source!Cardinality(reads) = n
    BY <2>3, FirstAre, Zenon
  <2>5. ASSUME NEW j \in 1..n PROVE sample(j - 1) = Sample(j - 1, rate, Den, g)
    <3> DEFINE k == j - 1
               x == k * rate
               q == x \div Den
               s == x % Den
    <3>1. k \in Nat /\ k \in 0..(n - 1)
      OBVIOUS
    <3>2. x \in Nat
      <4> HIDE DEF k
      <4> QED
        BY <3>1, Z3T(20)
    <3>3. q + 1 < m /\ q \in Nat
      <4>1. k \in reads
        BY <2>3, <3>1, Zenon
      <4>2. q + 1 < Len(src)
        BY <4>1, Zenon
      <4>3. q \in Nat
        <5> HIDE DEF x
        <5> QED
          BY <3>2, Remainder
      <4> QED
        BY <1>4, <4>2, <4>3
    <3>4. sample(k) = <<src[q + 1][1], src[q + 2][1], s>>
      BY Zenon DEF Source!Between
    <3> HIDE DEF q, s
    <3>5. src[q + 1][1] = q * g /\ src[q + 2][1] = (q + 1) * g
      <4>1. q + 1 \in 1..m /\ q + 2 \in 1..m /\ (q + 1) - 1 = q /\ (q + 2) - 1 = q + 1
        BY <1>2, <3>3
      <4>2. src[q + 1][1] = ((q + 1) - 1) * g /\ src[q + 2][1] = ((q + 2) - 1) * g
        BY <1>4, <4>1, Zenon
      <4> QED
        BY <4>1, <4>2, Zenon
    <3> QED
      BY <1>6, <3>4, <3>5, Zenon DEF Sample, q, s
  <2>6. Source!Resampled(b) = [j \in 1..n |-> sample(j - 1)]
    BY <1>1, <1>6, <2>4, Zenon
  <2>7. [j \in 1..n |-> sample(j - 1)] = [j \in 1..n |-> Sample(j - 1, rate, Den, g)]
    BY <2>5, Zenon
  <2> QED
    BY <2>6, <2>7, Zenon DEF FirstSamples, g
<1> QED
  BY <1>5, <1>6

\* Where the elements of two sequences are in their concatenation.
Joined(v, w) ==
  /\ Len(v \o w) = Len(v) + Len(w)
  /\ \A k \in 1..Len(v) : (v \o w)[k] = v[k]
  /\ \A k \in 1..Len(w) : (v \o w)[Len(v) + k] = w[k]

\* They are there.
LEMMA JoinedAre ==
  ASSUME NEW S, NEW v \in Seq(S), NEW w \in Seq(S)
  PROVE  Joined(v, w)
BY DEF Joined

\* What the resampler keeps when n samples have come out of m.
Held(n, m, p, l, r, g) ==
  r # Den => /\ p = n * r - m * Den
             /\ l = IF m = 0 THEN <<>> ELSE <<<<(m - 1) * g>>>>

\* c samples more, the output that was still to come of them, and what is kept.
Chunk(n, m, c, t, mono) ==
  /\ n <= t
  /\ Source!process(mono).out = [j \in 1..(t - n) |-> Sample(n + j - 1, rate, Den, Source!GroupBytes)]
  /\ Held(t, m + c, Source!process(mono).pos, Source!process(mono).last, rate, Source!GroupBytes)

\* The samples of a chunk, in the words of the process operator, and what it keeps.
LEMMA ProcessIs ==
  ASSUME Den \in Nat \ {0}, rate \in Nat \ {0}, Source!GroupBytes \in Nat \ {0},
         NEW n \in Nat, NEW m \in Nat, NEW c \in Nat \ {0}, NEW t \in Nat, NEW mono,
         Yield(n, m, rate, Den), Yield(t, m + c, rate, Den), Held(n, m, pos, last, rate, Source!GroupBytes),
         mono = [i \in 1..c |-> <<(m + i - 1) * Source!GroupBytes>>]
  PROVE  Chunk(n, m, c, t, mono)
<1> DEFINE g == Source!GroupBytes
           src == last \o mono
           base == Len(last) * Den
           reads == {k \in 0..(Len(src) * Den) : (pos + base + k * rate) \div Den + 1 < Len(src)}
           sample(k) == LET x == pos + base + k * rate
                        IN Source!Between(src[x \div Den + 1], src[x \div Den + 2], x % Den)
           out == [j \in 1..Source!Cardinality(reads) |-> sample(j - 1)]
           pr == Source!process(mono)
<1>1. pr = IF rate = Den THEN [out |-> mono, pos |-> pos, last |-> last]
           ELSE [out |-> out, pos |-> pos + Len(out) * rate - Len(mono) * Den, last |-> <<Source!Last(mono)>>]
  BY DEF Source!process
<1>2. CASE rate = Den
  <2>1. n = m /\ t = m + c
    BY <1>2, Zenon DEF Yield
  <2>2. n <= t /\ t - n = c
    BY <2>1
  <2>3. pr.out = mono
    BY <1>1, <1>2, SMTT(30)
  <2>4. [j \in 1..c |-> Sample(n + j - 1, rate, Den, g)] = [j \in 1..c |-> <<(m + j - 1) * g>>]
    BY <1>2, <2>1, Zenon DEF Sample
  <2>5. Held(t, m + c, pr.pos, pr.last, rate, g)
    BY <1>2, Zenon DEF Held
  <2> QED
    BY <2>2, <2>3, <2>4, <2>5, Zenon DEF Chunk, g, pr
<1>3. CASE rate # Den
  <2> DEFINE e == IF m = 0 THEN 0 ELSE m - 1
             l == m + c - e
             a == pos + base
  <2>1. IsCount(n, rate, (m - 1) * Den) /\ IsCount(t, rate, (m + c - 1) * Den)
    BY <1>3 DEF Yield
  <2>2. n <= t
    <3> DEFINE y == (m - 1) * Den
               z == (m + c - 1) * Den
    <3>1. y \in Int /\ z \in Int /\ y <= z
      <4>1. z = y + c * Den /\ c * Den >= 0 /\ c * Den \in Int
        BY Z3T(20)
      <4> QED
        BY <4>1
    <3>2. IsCount(n, rate, y) /\ IsCount(t, rate, z)
      BY <2>1
    <3> HIDE DEF y, z
    <3> QED
      BY <3>1, <3>2, CountGrows
  <2>3. e \in Nat /\ l \in Nat /\ c < l + 1 /\ (m = 0 => e = 0 /\ l = c) /\ (m # 0 => e = m - 1 /\ l = c + 1)
    OBVIOUS
  <2>4. pos = n * rate - m * Den /\ last = (IF m = 0 THEN <<>> ELSE <<<<(m - 1) * g>>>>)
    BY <1>3, Zenon DEF Held, g
  <2> HIDE DEF g
  <2>5. Len(mono) = c /\ \A i \in 1..c : mono[i] = <<(m + i - 1) * g>>
    BY DEF g
  <2>6. mono \in Seq(Seq(Int))
    <3>1. \A i \in 1..c : (m + i - 1) * g \in Int
      BY DEF g
    <3>2. \A i \in 1..c : <<(m + i - 1) * g>> \in Seq(Int)
      BY <3>1
    <3> QED
      BY <3>2 DEF g
  <2>7. last \in Seq(Seq(Int)) /\ Len(last) = m - e /\ (m # 0 => last[1] = <<(m - 1) * g>>)
    <3>1. CASE m = 0
      <4>1. \A S : <<>> \in Seq(S)
        OBVIOUS
      <4>2. last = <<>> /\ Len(<<>>) = 0
        BY <2>4, <3>1
      <4>3. m - e = 0
        BY <2>3, <3>1
      <4> QED
        BY <3>1, <4>1, <4>2, <4>3, Zenon
    <3>2. CASE m # 0
      <4> DEFINE w == <<(m - 1) * g>>
      <4>1. w \in Seq(Int)
        <5>1. (m - 1) * g \in Int
          BY DEF g
        <5> QED
          BY <5>1
      <4>2. last = <<w>>
        BY <2>4, <3>2, Zenon
      <4> HIDE DEF w
      <4>3. <<w>> \in Seq(Seq(Int)) /\ Len(<<w>>) = 1 /\ <<w>>[1] = w
        BY <4>1
      <4>4. m - e = 1
        BY <2>3, <3>2
      <4> QED
        BY <4>2, <4>3, <4>4, Zenon DEF w
    <3> QED
      BY <3>1, <3>2
  <2> HIDE DEF e, l
  <2>20. Joined(last, mono)
    BY <2>6, <2>7, JoinedAre
  <2>8. Len(src) = l
    <3>1. Len(src) = Len(last) + Len(mono)
      BY <2>20, Zenon DEF Joined
    <3> QED
      BY <2>3, <2>5, <2>7, <3>1 DEF l
  <2>9. ASSUME NEW i \in 1..l PROVE src[i] = <<(e + i - 1) * g>>
    <3>1. CASE i <= m - e
      <4>1. m # 0 /\ i = 1 /\ e + i - 1 = m - 1
        BY <2>3, <3>1
      <4>2. src[i] = last[i]
        <5>1. i \in 1..Len(last)
          BY <2>7, <3>1
        <5> QED
          BY <2>20, <5>1, Zenon DEF Joined
      <4> QED
        BY <2>7, <4>1, <4>2, Zenon
    <3>2. CASE i > m - e
      <4> DEFINE j == i - (m - e)
      <4>1. j \in 1..c /\ (m - e) + j = i /\ m + j - 1 = e + i - 1
        BY <2>3, <3>2 DEF l
      <4> HIDE DEF j
      <4>2. \A h \in 1..c : src[Len(last) + h] = mono[h]
        BY <2>5, <2>20, Zenon DEF Joined
      <4>3. src[i] = mono[j]
        BY <2>7, <4>1, <4>2, Zenon
      <4> QED
        BY <2>5, <4>1, <4>3, Zenon
    <3>3. i <= m - e \/ i > m - e
      BY <2>3
    <3> QED
      BY <3>1, <3>2, <3>3, Zenon
  <2>10. a = n * rate - e * Den /\ a \in Nat
    <3>1. base = (m - e) * Den
      BY <2>7, Zenon
    <3>2. (m - e) * Den = m * Den - e * Den /\ n * rate \in Nat /\ m * Den \in Int /\ e * Den \in Int
      BY <2>3, Z3T(20)
    <3>3. e * Den <= n * rate
      <4>1. CASE m = 0
        <5>1. e * Den = 0
          BY <2>3, <4>1
        <5> QED
          BY <3>2, <5>1
      <4>2. CASE m # 0
        <5>1. ~(n * rate < (m - 1) * Den)
          <6>1. n \in Nat /\ ~(n < n)
            OBVIOUS
          <6> QED
            BY <2>1, <6>1, Zenon DEF IsCount
        <5>2. (m - 1) * Den = e * Den
          BY <2>3, <4>2
        <5> QED
          BY <3>2, <5>1, <5>2
      <4> QED
        BY <4>1, <4>2
    <3> DEFINE x == n * rate
               y == m * Den
               z == e * Den
    <3>4. a = (x - y) + (y - z) /\ x \in Nat /\ y \in Int /\ z \in Int /\ z <= x
      BY <2>4, <3>1, <3>2, <3>3, Zenon
    <3> HIDE DEF a, x, y, z
    <3>5. a = x - z /\ a \in Nat
      BY <3>4
    <3> QED
      BY <3>5, Zenon DEF x, z
  <2>11. reads = 0..(t - n - 1)
    <3>1. reads = ReadsOf(l, Den, a, rate)
      BY <2>8, Zenon DEF ReadsOf
    <3>2. Reading(l, Den, rate, e, n, a, t)
      <4>1. e + l - 1 = m + c - 1
        BY <2>3 DEF l
      <4> QED
        BY <2>1, <2>2, <2>3, <2>10, <4>1, Zenon DEF Reading
    <3> HIDE DEF a, reads
    <3>3. ReadsOf(l, Den, a, rate) = 0..(t - n - 1)
      BY <3>2, ReadsAre
    <3> QED
      BY <3>1, <3>3, Zenon
  <2>12. Source!Cardinality(reads) = t - n /\ t - n \in Nat
    <3>1. t - n \in Nat
      BY <2>2
    <3> QED
      BY <2>11, <3>1, FirstAre, Zenon
  <2>13. ASSUME NEW j \in 1..(t - n) PROVE sample(j - 1) = Sample(n + j - 1, rate, Den, g)
    <3> DEFINE k == j - 1
               x == a + k * rate
               u == (n + k) * rate
               q == u \div Den
               s == u % Den
               p == x \div Den
    <3>1. k \in Nat /\ k \in 0..(t - n - 1) /\ n + j - 1 = n + k
      OBVIOUS
    <3>2. u \in Nat /\ x = u - e * Den /\ e * Den <= u
      <4> HIDE DEF a, k
      <4>1. (n + k) * rate = n * rate + k * rate /\ k * rate \in Nat /\ n * rate \in Nat /\ e * Den \in Nat
        BY <2>3, <3>1, Z3T(20)
      <4> DEFINE y == n * rate
                 v == k * rate
                 z == e * Den
      <4>2. u = y + v /\ x = a + v /\ a = y - z /\ a \in Nat /\ y \in Nat /\ v \in Nat /\ z \in Nat
        BY <2>10, <4>1, Zenon
      <4> HIDE DEF u, v, x, y, z
      <4>3. u \in Nat /\ x = u - z /\ z <= u
        BY <4>2
      <4> QED
        BY <4>3, Zenon DEF z
    <3>3. p = q - e /\ e <= q /\ q \in Nat /\ x % Den = s
      <4> HIDE DEF u, x
      <4>1. u \in Nat /\ e \in Nat /\ e * Den <= u /\ Den \in Nat \ {0}
        BY <2>3, <3>2
      <4>2. (u - e * Den) \div Den = u \div Den - e /\ (u - e * Den) % Den = u % Den /\ e <= u \div Den
        BY <4>1, QuotientLess, Zenon
      <4>3. q \in Nat
        BY <4>1, Remainder
      <4> QED
        BY <3>2, <4>2, <4>3, Zenon
    <3>4. p + 1 < l
      <4>1. k \in reads
        BY <2>11, <3>1, Zenon
      <4>2. p + 1 < Len(src)
        BY <4>1, Zenon
      <4> QED
        BY <2>8, <4>2, Zenon
    <3>5. sample(k) = <<src[p + 1][1], src[p + 2][1], x % Den>>
      BY Zenon DEF Source!Between
    <3> HIDE DEF p, q, s
    <3>6. src[p + 1][1] = q * g /\ src[p + 2][1] = (q + 1) * g
      <4>1. p + 1 \in 1..l /\ p + 2 \in 1..l /\ e + (p + 1) - 1 = q /\ e + (p + 2) - 1 = q + 1
        BY <2>3, <3>3, <3>4
      <4>2. src[p + 1] = <<q * g>> /\ src[p + 2] = <<(q + 1) * g>>
        BY <2>9, <4>1, Zenon
      <4>3. <<q * g>>[1] = q * g /\ <<(q + 1) * g>>[1] = (q + 1) * g
        OBVIOUS
      <4> QED
        BY <4>2, <4>3, Zenon
    <3> QED
      BY <1>3, <3>1, <3>3, <3>5, <3>6, Zenon DEF Sample, q, s
  <2>14. out = [j \in 1..(t - n) |-> Sample(n + j - 1, rate, Den, g)] /\ Len(out) = t - n
    <3>1. out = [j \in 1..(t - n) |-> sample(j - 1)]
      BY <2>12, Zenon
    <3>2. [j \in 1..(t - n) |-> sample(j - 1)] = [j \in 1..(t - n) |-> Sample(n + j - 1, rate, Den, g)]
      BY <2>13, Zenon
    <3> HIDE DEF out
    <3>3. Len([j \in 1..(t - n) |-> Sample(n + j - 1, rate, Den, g)]) = t - n
      BY <2>12
    <3> QED
      BY <3>1, <3>2, <3>3, Zenon
  <2>15. /\ pr.out = out /\ pr.pos = pos + Len(out) * rate - Len(mono) * Den
         /\ pr.last = <<Source!Last(mono)>>
    <3> HIDE DEF out, pr
    <3> QED
      BY <1>1, <1>3
  <2>16. pr.pos = t * rate - (m + c) * Den
    <3>1. (t - n) * rate = t * rate - n * rate /\ (m + c) * Den = m * Den + c * Den
      BY Z3T(20)
    <3>2. t * rate \in Int /\ n * rate \in Int /\ m * Den \in Int /\ c * Den \in Int
      OBVIOUS
    <3>3. pr.pos = pos + (t - n) * rate - c * Den
      BY <2>5, <2>14, <2>15, Zenon
    <3> HIDE DEF pr
    <3> QED
      BY <2>4, <3>1, <3>2, <3>3
  <2>17. m + c # 0 /\ pr.last = <<<<(m + c - 1) * g>>>>
    <3>1. Source!Last(mono) = mono[c]
      BY <2>5, Zenon DEF Source!Last
    <3>2. c \in 1..c /\ m + c # 0
      OBVIOUS
    <3> QED
      BY <2>5, <2>15, <3>1, <3>2, Zenon
  <2>18. Held(t, m + c, pr.pos, pr.last, rate, g)
    <3>1. (IF m + c = 0 THEN <<>> ELSE <<<<(m + c - 1) * g>>>>) = <<<<(m + c - 1) * g>>>>
      BY <2>17, Zenon
    <3>2. /\ pr.pos = t * rate - (m + c) * Den
          /\ pr.last = IF m + c = 0 THEN <<>> ELSE <<<<(m + c - 1) * g>>>>
      <4> HIDE DEF pr
      <4> QED
        BY <2>16, <2>17, <3>1, Zenon
    <3> HIDE DEF pr
    <3> QED
      BY <3>2 DEF Held, g
  <2> QED
    BY <2>2, <2>14, <2>15, <2>18, Zenon DEF Chunk, g, pr
<1> QED
  BY <1>2, <1>3

\* The samples that may come out, and silence.
Value == {Sample(k, r, Den, g) : k \in Nat, r \in Nat, g \in Nat} \cup {Source!Silence}

Quiet(n) == [i \in 1..n |-> Source!Silence]

\* So many first samples are a sequence of them, and the others follow it.
MoreSamples(n, t, r, g) ==
  /\ FirstSamples(n, r, Den, g) \o [j \in 1..(t - n) |-> Sample(n + j - 1, r, Den, g)] = FirstSamples(t, r, Den, g)
  /\ FirstSamples(n, r, Den, g) \in Seq(Value)
  /\ [j \in 1..(t - n) |-> Sample(n + j - 1, r, Den, g)] \in Seq(Value)

LEMMA FirstSamplesJoin ==
  ASSUME NEW n \in Nat, NEW t \in Nat, n <= t, NEW r \in Nat, NEW g \in Nat
  PROVE  MoreSamples(n, t, r, g)
<1> DEFINE x == FirstSamples(n, r, Den, g)
           y == [j \in 1..(t - n) |-> Sample(n + j - 1, r, Den, g)]
           z == FirstSamples(t, r, Den, g)
           w == x \o y
<1>1. \A k \in Nat : Sample(k, r, Den, g) \in Value
  <2> SUFFICES ASSUME NEW k \in Nat PROVE Sample(k, r, Den, g) \in Value
    OBVIOUS
  <2>1. \E kk \in Nat, rr \in Nat, gg \in Nat : Sample(k, r, Den, g) = Sample(kk, rr, Den, gg)
    BY Zenon
  <2> QED
    BY <2>1 DEF Value
<1>2. /\ \A j \in 1..n : Sample(j - 1, r, Den, g) \in Value
      /\ \A j \in 1..t : Sample(j - 1, r, Den, g) \in Value
      /\ \A j \in 1..(t - n) : Sample(n + j - 1, r, Den, g) \in Value
  <2>1. (\A j \in 1..n : j - 1 \in Nat) /\ (\A j \in 1..t : j - 1 \in Nat) /\ (\A j \in 1..(t - n) : n + j - 1 \in Nat)
    OBVIOUS
  <2> QED
    BY <1>1, <2>1, Zenon
<1>3. x \in Seq(Value) /\ Len(x) = n /\ \A j \in 1..n : x[j] = Sample(j - 1, r, Den, g)
  BY <1>2 DEF FirstSamples
<1>4. z \in Seq(Value) /\ Len(z) = t /\ \A j \in 1..t : z[j] = Sample(j - 1, r, Den, g)
  BY <1>2 DEF FirstSamples
<1>5. y \in Seq(Value) /\ Len(y) = t - n /\ \A j \in 1..(t - n) : y[j] = Sample(n + j - 1, r, Den, g)
  BY <1>2
<1> HIDE DEF x, y, z
<1>6. Joined(x, y)
  BY <1>3, <1>5, JoinedAre
<1>7. /\ Len(w) = Len(x) + Len(y) /\ \A k \in 1..Len(x) : w[k] = x[k]
      /\ \A k \in 1..Len(y) : w[Len(x) + k] = y[k]
  BY <1>6, Zenon DEF Joined
<1>8. w \in Seq(Value)
  BY <1>3, <1>5
<1> HIDE DEF w
<1>9. ASSUME NEW k \in 1..t PROVE w[k] = z[k]
  <2>1. CASE k <= n
    BY <1>3, <1>4, <1>7, <2>1
  <2>2. CASE k > n
    <3> DEFINE j == k - n
    <3>1. j \in 1..(t - n) /\ n + j = k /\ n + j - 1 = k - 1
      BY <2>2
    <3> HIDE DEF j
    <3>2. w[n + j] = y[j]
      BY <1>3, <1>5, <1>7, <3>1, Zenon
    <3>3. y[j] = Sample(n + j - 1, r, Den, g)
      BY <1>5, <3>1, Zenon
    <3> QED
      BY <1>4, <3>1, <3>2, <3>3, Zenon
  <2> QED
    BY <2>1, <2>2
<1>10. Len(w) = t
  BY <1>3, <1>5, <1>7
<1>11. w = z
  BY <1>4, <1>8, <1>9, <1>10
<1> QED
  BY <1>3, <1>5, <1>11, Zenon DEF x, y, z, w, MoreSamples

\* A read of c bytes, at an offset at which a group of g starts: the whole groups
\* of it, and how many there are then.
Aligned(g, b, o, l, c) ==
  /\ g \in Nat \ {0} /\ b \in Nat \ {0} /\ b % g = 0 /\ o \in Nat /\ l \in Nat /\ o <= l
  /\ o % g = 0 \/ o = l
  /\ c \in Nat /\ (c = b \/ c = l - o) /\ c <= b /\ c <= l - o
GroupsRead(g, o, l, c) ==
  /\ o + c <= l /\ o + c \in Nat
  /\ (o + c) % g = 0 \/ o + c = l
  /\ c - (c % g) > 0 => /\ (o + c) \div g = (o \div g) + ((c - (c % g)) \div g)
                        /\ (c - (c % g)) \div g \in Nat \ {0} /\ o = (o \div g) * g /\ o \div g \in Nat
  /\ c = 0 \/ c - (c % g) = 0 => o + c = l /\ (o + c) \div g = o \div g

\* They follow those before, and there are none only at the end of the file.
LEMMA ChunkGroups ==
  ASSUME NEW g, NEW b, NEW o, NEW l, NEW c, Aligned(g, b, o, l, c)
  PROVE  GroupsRead(g, o, l, c)
<1> DEFINE a == o \div g
           q == c \div g
           s == c % g
           h == b \div g
<1>0. /\ g \in Nat \ {0} /\ b \in Nat \ {0} /\ b % g = 0 /\ o \in Nat /\ l \in Nat /\ o <= l
      /\ (o % g = 0 \/ o = l)
      /\ c \in Nat /\ (c = b \/ c = l - o) /\ c <= b /\ c <= l - o
  BY Zenon DEF Aligned
<1>1. c = g * q + s /\ s \in 0..(g - 1) /\ q \in Nat
  BY <1>0, Remainder
<1>2. b = g * h + 0 /\ h \in Nat
  BY <1>0, Remainder
<1>3. a \in Nat /\ o = g * a + (o % g)
  BY <1>0, Remainder
<1>4. o + c <= l /\ o + c \in Nat
  BY <1>0
<1>5. o % g = 0 => (o + c) \div g = a + q /\ (o + c) % g = s /\ o = a * g
  <2> SUFFICES ASSUME o % g = 0 PROVE (o + c) \div g = a + q /\ (o + c) % g = s /\ o = a * g
    BY <1>0
  <2> HIDE DEF a, q, s
  <2>1. g * (a + q) = g * a + g * q /\ g * a \in Int /\ g * q \in Int /\ g * a = a * g
    BY <1>0, <1>1, <1>3, Z3T(20)
  <2>2. o + c = g * (a + q) + s /\ a + q \in Nat
    BY <1>0, <1>1, <1>3, <2>1
  <2>3. o = a * g
    BY <1>0, <1>3, <2>1
  <2>4. g \in Nat \ {0}
    BY <1>0
  <2>5. (o + c) \div g = a + q /\ (o + c) % g = s
    BY <1>1, <1>4, <2>2, <2>4, OneQuotient
  <2> QED
    BY <2>3, <2>5
<1>6. c = b => s = 0
  <2> HIDE DEF h, q
  <2> QED
    BY <1>0, <1>1
<1>7. c - s = g * q /\ (c - s) \div g = q
  <2> HIDE DEF s, q
  <2>1. c - s = g * q + 0 /\ 0 \in 0..(g - 1) /\ g * q \in Nat
    BY <1>0, <1>1, Z3T(20)
  <2>2. c - s \in Nat
    BY <1>0, <2>1
  <2> QED
    BY <1>0, <1>1, <2>1, <2>2, OneQuotient
<1>8. c - s > 0 => q # 0 /\ o # l
  <2>1. c - s > 0 => q # 0
    <3>1. g * 0 = 0
      BY <1>0
    <3> HIDE DEF s, q
    <3> QED
      BY <1>0, <1>7, <3>1
  <2>2. c - s > 0 => o # l
    <3> HIDE DEF s
    <3> QED
      BY <1>0, <1>1
  <2> QED
    BY <1>0, <2>1, <2>2
<1>9. c = 0 \/ c - s = 0 => o + c = l /\ (o + c) \div g = a
  <2>1. CASE c = 0
    BY <1>0, <2>1
  <2>2. CASE c # 0 /\ c - s = 0
    <3>1. c = s /\ q = 0
      <4> HIDE DEF s, q
      <4>1. c = s
        BY <1>0, <1>1, <2>2
      <4>2. g * q = 0
        BY <1>0, <1>7, <2>2
      <4> QED
        BY <1>0, <1>1, <4>1, <4>2, Z3T(20)
    <3>2. c # b
      BY <1>0, <1>6, <2>2, <3>1
    <3>3. o # l
      BY <1>0, <2>2
    <3>4. (o + c) \div g = a + q
      BY <1>0, <1>5, <3>3
    <3> QED
      BY <1>0, <1>3, <3>1, <3>2, <3>4
  <2> QED
    BY <1>0, <2>1, <2>2
<1>10. (o + c) % g = 0 \/ o + c = l
  <2>1. CASE o = l
    BY <1>0, <2>1
  <2>2. CASE o # l /\ c = b
    BY <1>0, <1>5, <1>6, <2>2
  <2>3. CASE o # l /\ c # b
    BY <1>0, <2>3
  <2> QED
    BY <1>0, <2>1, <2>2, <2>3
<1> HIDE DEF a, q, s
<1> QED
  BY <1>0, <1>1, <1>3, <1>4, <1>5, <1>7, <1>8, <1>9, <1>10 DEF a, q, s, GroupsRead

\* The samples of the frames, in a row.
Flat == Source!FlattenSeq(frames)

\* Of the o bytes read, n samples have come out, and nothing else but the padding
\* of a last frame.
CameOut(n, padding, o, p, l, r, g, out, waiting, over) ==
  /\ Yield(n, o \div g, r, Den) /\ Held(n, o \div g, p, l, r, g)
  /\ out \o waiting = FirstSamples(n, r, Den, g) \o Quiet(padding)
  /\ padding > 0 => over /\ waiting = <<>>

SourceInv ==
  /\ channels \in Channels /\ length \in Nat /\ rate \in Nat \ {0} /\ offset \in Nat /\ offset <= length
  /\ offset % Source!GroupBytes = 0 \/ offset = length
  /\ done => offset = length
  /\ ended = "eof" => done
  /\ pending \in Seq(Value) /\ frames \in Seq(Seq(Value)) /\ Flat \in Seq(Value)
  /\ \E n \in Nat, padding \in 0..(FrameSamples - 1) :
       CameOut(n, padding, offset, pos, last, rate, Source!GroupBytes, Flat, pending, done)

\* No padding.
LEMMA NoQuiet ==
  ASSUME NEW s \in Seq(Value)
  PROVE  Quiet(0) = <<>> /\ s \o Quiet(0) = s
<1>1. Quiet(0) = <<>>
  BY DEF Quiet
<1>2. s \o <<>> = s
  OBVIOUS
<1> QED
  BY <1>1, <1>2, Zenon

\* The sizes, and the bytes of the next chunk.
LEMMA NextBytes ==
  ASSUME SourceInv
  PROVE  /\ Source!GroupBytes \in Nat \ {0} /\ Source!GroupBytes = 2 * channels
         /\ BufBytes \in Nat \ {0} /\ Den \in Nat \ {0} /\ FrameSamples \in Nat \ {0}
         /\ Source!ChunkLen \in Nat /\ Source!ChunkLen <= BufBytes /\ Source!ChunkLen <= length - offset
         /\ Source!ChunkLen = BufBytes \/ Source!ChunkLen = length - offset
<1>1. BufBytes \in Nat \ {0} /\ Den \in Nat \ {0} /\ FrameSamples \in Nat \ {0} /\ channels \in Nat \ {0}
  BY MediaFilesAssumption DEF Source!SourceAssumption, SourceInv
<1>2. length - offset \in Nat
  BY DEF SourceInv
<1> DEFINE x == length - offset
<1>3. x \in Nat
  BY <1>2
<1> HIDE DEF x
<1>4. \E y \in {BufBytes, x} : \A z \in {BufBytes, x} : y =< z
  BY <1>1, <1>3
<1>5. Source!ChunkLen \in {BufBytes, x} /\ \A z \in {BufBytes, x} : Source!ChunkLen =< z
  BY <1>4, Zenon DEF Source!Min, Source!ChunkLen, x
<1> QED
  BY <1>1, <1>3, <1>5 DEF Source!GroupBytes, x

\* Some number of samples comes out of m.
LEMMA YieldExists ==
  ASSUME NEW m \in Nat, NEW r \in Nat \ {0}, NEW d \in Nat \ {0}
  PROVE  \E t \in Nat : Yield(t, m, r, d)
<1>1. CASE r = d
  BY <1>1, Zenon DEF Yield
<1>2. CASE r # d
  <2> DEFINE y == (m - 1) * d
  <2>1. y \in Int
    OBVIOUS
  <2> HIDE DEF y
  <2>2. \E t \in Nat : IsCount(t, r, y)
    BY <2>1, CountExists
  <2> QED
    BY <1>2, <2>2, Zenon DEF Yield, y
<1> QED
  BY <1>1, <1>2

\* A chunk: its samples follow the others.
LEMMA SourceMore ==
  ASSUME \A c \in Channels : BufBytes % (2 * c) = 0, SourceInv, Source!MoreChunk
  PROVE  SourceInv'
<1> DEFINE g == Source!GroupBytes
           c == Source!ChunkLen
           m == offset \div g
           h == (c - (c % g)) \div g
           mono == Source!wavMono(Source!Trimmed)
           out == Source!process(mono).out
<1>1. /\ ended = "no" /\ ~done /\ UNCHANGED <<channels, length, rate, broken, frames, ended>>
      /\ c - (c % g) > 0 /\ offset' = offset + c /\ pending' = pending \o out
      /\ pos' = Source!process(mono).pos /\ last' = Source!process(mono).last
      /\ done' => offset + c = length
  BY DEF Source!MoreChunk, Source!ReadsOn, Source!Trimmed, Source!AtEnd, Source!file
<1>2. g' = g /\ Flat' = Flat
  BY <1>1, Zenon DEF Source!GroupBytes, Flat
<1>3. g \in Nat \ {0} /\ Den \in Nat \ {0} /\ FrameSamples \in Nat \ {0} /\ rate \in Nat \ {0}
  BY NextBytes DEF SourceInv
<1>4. /\ offset + c <= length /\ offset + c \in Nat /\ ((offset + c) % g = 0 \/ offset + c = length)
      /\ (offset + c) \div g = m + h /\ h \in Nat \ {0} /\ offset = m * g /\ m \in Nat
  <2>1. BufBytes \in Nat \ {0} /\ BufBytes % g = 0
    BY NextBytes DEF SourceInv
  <2>2. /\ offset \in Nat /\ length \in Nat /\ offset <= length /\ (offset % g = 0 \/ offset = length)
        /\ c \in Nat /\ (c = BufBytes \/ c = length - offset) /\ c <= BufBytes /\ c <= length - offset
    BY NextBytes DEF SourceInv
  <2> HIDE DEF g, c
  <2>3. Aligned(g, BufBytes, offset, length, c)
    BY <1>3, <2>1, <2>2, Zenon DEF Aligned
  <2>4. GroupsRead(g, offset, length, c)
    BY <2>3, ChunkGroups
  <2> QED
    BY <1>1, <2>4, Zenon DEF m, h, GroupsRead
<1>5. mono = [i \in 1..h |-> <<(m + i - 1) * g>>]
  <2>1. mono = [i \in 1..h |-> <<offset + (i - 1) * g>>]
    BY Zenon DEF Source!wavMono, Source!Trimmed
  <2> HIDE DEF g, h, m, mono
  <2>2. ASSUME NEW i \in 1..h PROVE offset + (i - 1) * g = (m + i - 1) * g
    <3>1. (m + (i - 1)) * g = m * g + (i - 1) * g /\ m + (i - 1) = m + i - 1
      BY <1>3, <1>4, Z3T(20)
    <3> QED
      BY <1>4, <3>1, Zenon
  <2> QED
    BY <2>1, <2>2, Zenon
<1>6. PICK n \in Nat, padding \in 0..(FrameSamples - 1) :
        CameOut(n, padding, offset, pos, last, rate, g, Flat, pending, done)
  BY Zenon DEF SourceInv
<1>7. /\ Yield(n, m, rate, Den) /\ Held(n, m, pos, last, rate, g)
      /\ Flat \o pending = FirstSamples(n, rate, Den, g) \o Quiet(padding) /\ ~(padding > 0)
  BY <1>1, <1>6, Zenon DEF CameOut
<1>8. PICK t \in Nat : Yield(t, m + h, rate, Den)
  <2> HIDE DEF g, m, h
  <2>1. m + h \in Nat
    BY <1>4
  <2> QED
    BY <1>3, <2>1, YieldExists
<1>9. Chunk(n, m, h, t, mono)
  <2> HIDE DEF m, h, mono
  <2> QED
    BY <1>3, <1>4, <1>5, <1>7, <1>8, ProcessIs
<1> DEFINE x == FirstSamples(n, rate, Den, g)
           y == [j \in 1..(t - n) |-> Sample(n + j - 1, rate, Den, g)]
           z == FirstSamples(t, rate, Den, g)
<1>10. n <= t /\ out = y /\ Held(t, m + h, pos', last', rate, g)
  <2> HIDE DEF m, h, mono
  <2> QED
    BY <1>1, <1>9, Zenon DEF Chunk
<1>11. MoreSamples(n, t, rate, g)
  <2>1. rate \in Nat /\ g \in Nat
    BY <1>3
  <2> HIDE DEF g
  <2> QED
    BY <1>10, <2>1, FirstSamplesJoin
<1>12. MoreSamples(t, t, rate, g)
  <2>1. rate \in Nat /\ g \in Nat /\ t <= t
    BY <1>3
  <2> HIDE DEF g
  <2> QED
    BY <2>1, FirstSamplesJoin
<1>13. x \o y = z /\ x \in Seq(Value) /\ y \in Seq(Value) /\ z \in Seq(Value)
  BY <1>11, <1>12, Zenon DEF MoreSamples
<1>14. pending \in Seq(Value) /\ Flat \in Seq(Value)
  BY Zenon DEF SourceInv
<1>15. Flat \o pending = x
  <2>1. padding = 0
    BY <1>3, <1>7
  <2> QED
    BY <1>7, <1>13, <2>1, NoQuiet, Zenon
<1>16. pending' \in Seq(Value) /\ Flat \o pending' = z
  <2> HIDE DEF x, y, z, out
  <2>1. Behind(Value, Flat, pending, y, x)
    BY <1>13, <1>14, <1>15, JoinedBehind
  <2> QED
    BY <1>1, <1>10, <1>13, <2>1, Zenon DEF Behind
<1>17. CameOut(t, 0, offset', pos', last', rate', g', Flat', pending', done')
  <2>1. z \o Quiet(0) = z /\ ~(0 > 0)
    BY <1>13, NoQuiet
  <2>2. offset' = offset + c /\ rate' = rate
    BY <1>1
  <2>3. (offset + c) \div g = m + h
    BY <1>4
  <2> HIDE DEF m, h, c, g
  <2> QED
    BY <1>2, <1>8, <1>10, <1>16, <2>1, <2>2, <2>3, Zenon DEF CameOut
<1>18. \E k \in Nat, p \in 0..(FrameSamples - 1) :
         CameOut(k, p, offset', pos', last', rate', g', Flat', pending', done')
  <2>1. 0 \in 0..(FrameSamples - 1)
    BY <1>3
  <2> QED
    BY <1>17, <2>1, Zenon
<1>19. /\ offset' = offset + c /\ length' = length /\ rate' = rate /\ channels' = channels /\ frames' = frames
       /\ ended' = "no" /\ "no" # "eof"
  BY <1>1
<1>20. channels \in Channels /\ length \in Nat /\ rate \in Nat \ {0} /\ frames \in Seq(Seq(Value))
  BY Zenon DEF SourceInv
<1>21. /\ offset' \in Nat /\ offset' <= length' /\ (offset' % g' = 0 \/ offset' = length')
       /\ (done' => offset' = length') /\ (ended' = "eof" => done')
  <2> HIDE DEF g, c
  <2> QED
    BY <1>1, <1>2, <1>4, <1>19, Zenon
<1> QED
  BY <1>2, <1>14, <1>16, <1>18, <1>19, <1>20, <1>21, Zenon DEF SourceInv

\* The end of the file, in part of a sample or not.
LEMMA SourceExhausted ==
  ASSUME \A c \in Channels : BufBytes % (2 * c) = 0, SourceInv, Source!MoreExhausted
  PROVE  SourceInv'
<1> DEFINE g == Source!GroupBytes
           c == Source!ChunkLen
<1>1. /\ ended = "no" /\ done' = TRUE /\ offset' = offset + c
      /\ UNCHANGED <<channels, length, rate, pos, last, pending, frames, ended>>
      /\ c = 0 \/ c - (c % g) = 0
  BY DEF Source!MoreExhausted, Source!ReadsOn, Source!Trimmed, Source!file
<1>2. g' = g /\ Flat' = Flat
  BY <1>1, Zenon DEF Source!GroupBytes, Flat
<1>3. offset + c = length /\ (offset + c) \div g = offset \div g
  <2>1. g \in Nat \ {0} /\ BufBytes \in Nat \ {0} /\ BufBytes % g = 0
    BY NextBytes DEF SourceInv
  <2>2. /\ offset \in Nat /\ length \in Nat /\ offset <= length /\ (offset % g = 0 \/ offset = length)
        /\ c \in Nat /\ (c = BufBytes \/ c = length - offset) /\ c <= BufBytes /\ c <= length - offset
    BY NextBytes DEF SourceInv
  <2> HIDE DEF g, c
  <2>3. Aligned(g, BufBytes, offset, length, c)
    BY <2>1, <2>2, Zenon DEF Aligned
  <2>4. GroupsRead(g, offset, length, c)
    BY <2>3, ChunkGroups
  <2> QED
    BY <1>1, <2>4, Zenon DEF GroupsRead
<1>4. PICK n \in Nat, padding \in 0..(FrameSamples - 1) :
        CameOut(n, padding, offset, pos, last, rate, g, Flat, pending, done)
  BY Zenon DEF SourceInv
<1>5. CameOut(n, padding, offset', pos', last', rate', g', Flat', pending', done')
  <2>1. /\ offset' = offset + c /\ rate' = rate /\ pos' = pos /\ last' = last /\ pending' = pending /\ done'
        /\ (offset + c) \div g = offset \div g
    BY <1>1, <1>3
  <2> HIDE DEF g, c
  <2> QED
    BY <1>2, <1>4, <2>1, Zenon DEF CameOut
<1>6. \E k \in Nat, p \in 0..(FrameSamples - 1) :
        CameOut(k, p, offset', pos', last', rate', g', Flat', pending', done')
  <2>1. padding \in 0..(FrameSamples - 1)
    OBVIOUS
  <2> QED
    BY <1>5, <2>1, Zenon
<1>7. /\ channels \in Channels /\ length \in Nat /\ rate \in Nat \ {0} /\ frames \in Seq(Seq(Value))
      /\ pending \in Seq(Value) /\ Flat \in Seq(Value)
  BY Zenon DEF SourceInv
<1>8. /\ offset' = length /\ length' = length /\ rate' = rate /\ channels' = channels /\ frames' = frames
      /\ pending' = pending /\ done' /\ length \in Nat /\ length <= length
  BY <1>1, <1>3, <1>7
<1> QED
  BY <1>2, <1>6, <1>7, <1>8, Zenon DEF SourceInv

\* A frame: the samples are all still there, with the padding of the last.
LEMMA SourceFrame ==
  ASSUME SourceInv, Source!ReadFrame
  PROVE  SourceInv'
<1> DEFINE g == Source!GroupBytes
<1>1. /\ ended = "no" /\ (Len(pending) >= FrameSamples \/ done)
      /\ UNCHANGED <<channels, length, rate, offset, pos, last, done>>
  BY DEF Source!ReadFrame, Source!file
<1>2. FrameSamples \in Nat \ {0}
  BY NextBytes
<1>3. /\ channels \in Channels /\ length \in Nat /\ rate \in Nat \ {0} /\ frames \in Seq(Seq(Value))
      /\ pending \in Seq(Value) /\ Flat \in Seq(Value) /\ offset \in Nat /\ offset <= length
      /\ (offset % g = 0 \/ offset = length) /\ (done => offset = length)
  BY Zenon DEF SourceInv
<1>4. /\ channels' = channels /\ length' = length /\ rate' = rate /\ offset' = offset /\ pos' = pos
      /\ last' = last /\ done' = done /\ g' = g
  BY <1>1, Zenon DEF Source!GroupBytes
<1>5. PICK n \in Nat, padding \in 0..(FrameSamples - 1) :
        CameOut(n, padding, offset, pos, last, rate, g, Flat, pending, done)
  BY Zenon DEF SourceInv
<1>6. padding \in 0..(FrameSamples - 1)
  OBVIOUS
<1>7. CASE pending = <<>>
  <2>1. pending' = pending /\ frames' = frames /\ done
    <3>1. Len(<<>>) = 0
      OBVIOUS
    <3>2. ~(Len(pending) >= FrameSamples)
      BY <1>2, <1>7, <3>1
    <3>3. pending' = pending /\ frames' = frames
      BY <1>7 DEF Source!ReadFrame
    <3> QED
      BY <1>1, <3>2, <3>3, Zenon
  <2>2. Flat' = Flat
    BY <2>1, Zenon DEF Flat
  <2> QED
    BY <1>3, <1>4, <1>5, <1>6, <2>1, <2>2, Zenon DEF SourceInv
<1>8. CASE pending # <<>>
  <2> DEFINE k == Source!Min({FrameSamples, Len(pending)})
             a == SubSeq(pending, 1, k)
             b == SubSeq(pending, k + 1, Len(pending))
             pad == Quiet(FrameSamples - k)
             w == Flat \o a
             x == FirstSamples(n, rate, Den, g)
  <2>1. ended' = ended /\ pending' = b /\ frames' = Append(frames, a \o pad)
    BY <1>8 DEF Source!ReadFrame, Quiet
  <2>2. /\ k \in Nat \ {0} /\ k <= FrameSamples /\ k <= Len(pending) /\ (k = FrameSamples \/ k = Len(pending))
    <3>1. Len(pending) \in Nat \ {0}
      BY <1>3, <1>8
    <3>2. k \in {FrameSamples, Len(pending)} /\ k <= FrameSamples /\ k <= Len(pending)
      <4>1. \E v \in {FrameSamples, Len(pending)} : \A z \in {FrameSamples, Len(pending)} : v =< z
        BY <1>2, <3>1
      <4>2. k \in {FrameSamples, Len(pending)} /\ \A z \in {FrameSamples, Len(pending)} : k =< z
        BY <4>1, Zenon DEF Source!Min
      <4> QED
        BY <4>2
    <3> HIDE DEF k
    <3> QED
      BY <1>2, <3>1, <3>2
  <2> HIDE DEF k
  <2>3. CutBehind(Value, Flat, pending, k)
    BY <1>3, <2>2, CutInTwo
  <2>4. w \in Seq(Value) /\ b \in Seq(Value) /\ w \o b = Flat \o pending
    BY <2>3, Zenon DEF CutBehind
  <2>5. a \in Seq(Value)
    BY <1>3, <2>2
  <2>6. pad \in Seq(Value)
    <3>1. FrameSamples - k \in Nat
      BY <1>2, <2>2
    <3>2. Source!Silence \in Value
      BY DEF Value
    <3> QED
      BY <3>1, <3>2 DEF Quiet
  <2>7. x \in Seq(Value) /\ g \in Nat /\ rate \in Nat
    <3>1. rate \in Nat /\ g \in Nat /\ n <= n
      BY NextBytes DEF SourceInv
    <3> HIDE DEF g
    <3>2. MoreSamples(n, n, rate, g)
      BY <3>1, FirstSamplesJoin
    <3> QED
      BY <3>1, <3>2, Zenon DEF MoreSamples
  <2>8. padding = 0 /\ Flat \o pending = x
    <3>1. ~(padding > 0) /\ Flat \o pending = x \o Quiet(padding)
      BY <1>5, <1>8, Zenon DEF CameOut
    <3>2. padding = 0
      BY <1>6, <3>1
    <3> QED
      BY <2>7, <3>1, <3>2, NoQuiet, Zenon
  <2>9. frames' \in Seq(Seq(Value)) /\ Flat' = w \o pad /\ Flat' \in Seq(Value) /\ (w \o pad) \o <<>> = w \o pad
    <3> DEFINE u == a \o pad
    <3> HIDE DEF a, pad, w
    <3>1. u \in Seq(Value)
      BY <2>5, <2>6
    <3>2. Behind(Value, Flat, a, pad, w)
      BY <1>3, <2>5, <2>6, JoinedBehind DEF w
    <3>3. Flat \o u = w \o pad /\ w \o pad \in Seq(Value)
      BY <3>2, Zenon DEF Behind
    <3> HIDE DEF u
    <3>4. Append(frames, u) \in Seq(Seq(Value))
      BY <1>3, <3>1
    <3>5. Video!FlattenSeq(Append(frames, u)) = Video!FlattenSeq(frames) \o u
      BY <1>3, <3>1, FlattenAppend
    <3>6. \A ss : Source!FlattenSeq(ss) = Video!FlattenSeq(ss)
      BY Zenon DEF Source!FlattenSeq, Video!FlattenSeq
    <3>7. frames' = Append(frames, u)
      BY <2>1, Zenon DEF u
    <3>8. Flat' = Flat \o u
      BY <3>5, <3>6, <3>7, Zenon DEF Flat
    <3>9. (w \o pad) \o <<>> = w \o pad
      BY <3>3
    <3> QED
      BY <3>3, <3>4, <3>7, <3>8, <3>9, Zenon
  <2>10. /\ channels' \in Channels /\ length' \in Nat /\ rate' \in Nat \ {0} /\ offset' \in Nat
         /\ offset' <= length' /\ (offset' % g' = 0 \/ offset' = length')
         /\ (done' => offset' = length') /\ (ended' = "eof" => done')
    <3>1. ended' # "eof"
      BY <1>1, <2>1
    <3> HIDE DEF g
    <3> QED
      BY <1>3, <1>4, <3>1, Zenon
  <2>11. CASE k = FrameSamples
    <3>1. FrameSamples - k = 0 /\ 0 \in 0..(FrameSamples - 1) /\ ~(0 > 0)
      BY <1>2, <2>11
    <3>2. Flat' = w
      BY <2>4, <2>9, <3>1, NoQuiet, Zenon
    <3>3. Flat' \o pending' = x \o Quiet(0)
      BY <2>1, <2>4, <2>7, <2>8, <3>2, NoQuiet, Zenon
    <3>4. CameOut(n, 0, offset', pos', last', rate', g', Flat', pending', done')
      BY <1>4, <1>5, <3>1, <3>3, Zenon DEF CameOut
    <3>6. \E l \in Nat, p \in 0..(FrameSamples - 1) :
            CameOut(l, p, offset', pos', last', rate', g', Flat', pending', done')
      BY <3>1, <3>4, Zenon
    <3> QED
      BY <2>1, <2>4, <2>9, <2>10, <3>6, Zenon DEF SourceInv
  <2>12. CASE k # FrameSamples
    <3>1. done /\ k = Len(pending) /\ FrameSamples - k \in 0..(FrameSamples - 1)
      BY <1>1, <1>2, <2>2, <2>12
    <3>2. b = <<>>
      BY <1>3, <3>1
    <3>3. w = x
      <4>1. w \o <<>> = w
        BY <2>4
      <4> QED
        BY <2>4, <2>8, <3>2, <4>1, Zenon
    <3>4. Flat' \o pending' = x \o pad
      BY <2>1, <2>9, <3>2, <3>3, Zenon
    <3>5. CameOut(n, FrameSamples - k, offset', pos', last', rate', g', Flat', pending', done')
      BY <1>4, <1>5, <2>1, <3>1, <3>2, <3>4, Zenon DEF CameOut
    <3>6. \E l \in Nat, p \in 0..(FrameSamples - 1) :
            CameOut(l, p, offset', pos', last', rate', g', Flat', pending', done')
      BY <3>1, <3>5, Zenon
    <3> QED
      BY <2>1, <2>4, <2>9, <2>10, <3>6, Zenon DEF SourceInv
  <2> QED
    BY <2>11, <2>12
<1> QED
  BY <1>7, <1>8

\* Every step keeps what the source holds, when a buffer is a whole number of
\* sample groups: otherwise the code drops the bytes of the last, broken group.
LEMMA SourceStays ==
  ASSUME \A c \in Channels : BufBytes % (2 * c) = 0, SourceInv, [Source!Next]_(Source!vars)
  PROVE  SourceInv'
<1>1. CASE UNCHANGED Source!vars
  BY <1>1, Zenon DEF SourceInv, Source!vars, Source!file, Source!GroupBytes, Flat
<1>2. CASE Source!MoreExhausted
  BY <1>2, SourceExhausted
<1>3. CASE Source!MoreChunk
  BY <1>3, SourceMore
<1>4. CASE Source!ReadError
  <2>1. /\ UNCHANGED <<channels, length, rate, offset, pos, last, pending, done, frames>> /\ ended' = "error"
        /\ "error" # "eof"
    BY <1>4 DEF Source!ReadError, Source!file
  <2>2. Source!GroupBytes' = Source!GroupBytes /\ Flat' = Flat
    BY <2>1, Zenon DEF Source!GroupBytes, Flat
  <2> QED
    BY <2>1, <2>2, Zenon DEF SourceInv
<1>5. CASE Source!ReadFrame
  BY <1>5, SourceFrame
<1> QED
  BY <1>1, <1>2, <1>3, <1>4, <1>5, Zenon DEF Source!Next

\* Nothing is read yet and nothing has come out.
LEMMA SourceStarts ==
  ASSUME Source!Init
  PROVE  SourceInv
<1>1. /\ channels \in Channels /\ length \in Lengths /\ rate \in Rates /\ offset = 0 /\ pos = 0 /\ last = <<>>
      /\ pending = <<>> /\ done = FALSE /\ frames = <<>> /\ ended = "no"
  BY DEF Source!Init
<1>2. /\ channels \in Nat \ {0} /\ length \in Nat /\ rate \in Nat \ {0} /\ Den \in Nat \ {0}
      /\ FrameSamples \in Nat \ {0} /\ "no" # "eof" /\ 0 \in Nat
  BY <1>1, MediaFilesAssumption DEF Source!SourceAssumption
<1> DEFINE g == Source!GroupBytes
<1>3. g \in Nat \ {0}
  BY <1>2 DEF Source!GroupBytes
<1> HIDE DEF g
<1>4. 0 \div g = 0 /\ 0 % g = 0 /\ 0 <= length
  <2>1. 0 = g * 0 + 0 /\ 0 \in 0..(g - 1)
    BY <1>3
  <2> QED
    BY <1>2, <1>3, <2>1, OneQuotient
<1>5. Yield(0, 0, rate, Den)
  <2>1. (0 - 1) * Den < 0 /\ (0 - 1) * Den \in Int
    BY <1>2
  <2>2. \A k \in Nat : k < 0 <=> k * rate < (0 - 1) * Den
    <3> SUFFICES ASSUME NEW k \in Nat PROVE ~(k < 0) /\ ~(k * rate < (0 - 1) * Den)
      BY Zenon
    <3>1. k * rate >= 0 /\ k * rate \in Int
      BY <1>2, Z3T(20)
    <3> QED
      BY <2>1, <3>1
  <2> QED
    BY <1>2, <2>2, Zenon DEF Yield, IsCount
<1>6. Held(0, 0, pos, last, rate, g)
  BY <1>1, <1>2 DEF Held
<1>7. /\ \A S : <<>> \in Seq(S)
      /\ FirstSamples(0, rate, Den, g) = <<>> /\ <<>> \o <<>> = <<>>
  BY DEF FirstSamples
<1>8. Quiet(0) = <<>>
  BY <1>7, NoQuiet
<1>9. Flat = <<>>
  <2> DEFINE f == Source!FlattenSeq(<<>>)
  <2>1. f = Video!FlattenSeq(<<>>)
    BY Zenon DEF Source!FlattenSeq, Video!FlattenSeq
  <2>2. Len(<<>>) = 0 /\ <<>> \in Seq(Seq(Value))
    OBVIOUS
  <2>3. Video!FlattenSeq(<<>>) = <<>>
    BY DEF Video!FlattenSeq
  <2> QED
    BY <1>1, <2>1, <2>3, Zenon DEF Flat
<1>10. CameOut(0, 0, offset, pos, last, rate, g, Flat, pending, done)
  <2>1. ~(0 > 0)
    OBVIOUS
  <2> QED
    BY <1>1, <1>4, <1>5, <1>6, <1>7, <1>8, <1>9, <2>1, Zenon DEF CameOut
<1>11. \E n \in Nat, padding \in 0..(FrameSamples - 1) :
         CameOut(n, padding, offset, pos, last, rate, g, Flat, pending, done)
  <2>1. 0 \in 0..(FrameSamples - 1)
    BY <1>2
  <2> QED
    BY <1>2, <1>10, <2>1, Zenon
<1> QED
  BY <1>1, <1>2, <1>4, <1>7, <1>9, <1>11, Zenon DEF SourceInv, g

\* When a buffer is a whole number of sample groups, what has come out is at any
\* time what resampling the bytes read in one piece yields (source.go:48-105).
THEOREM NoGapsHolds == ASSUME \A c \in Channels : BufBytes % (2 * c) = 0
                       PROVE  MediaFilesSpec => []NoGaps
<1> DEFINE Inv == part = "WavSource" => SourceInv
<1>1. MediaFilesInit => Inv
  BY SourceStarts DEF MediaFilesInit
<1>2. Inv /\ [MediaFilesNext]_allVars => Inv'
  <2> SUFFICES ASSUME Inv, [MediaFilesNext]_allVars, part = "WavSource" PROVE SourceInv'
    BY OnePartMoves
  <2>1. [Source!Next]_(Source!vars)
    BY OnePartMoves
  <2> QED
    BY <2>1, SourceStays
<1>3. Inv => NoGaps
  <2> SUFFICES ASSUME SourceInv, ~done PROVE Source!Emitted = Source!Resampled(offset)
    BY DEF NoGaps, Source!NoGaps
  <2> DEFINE g == Source!GroupBytes
  <2>1. PICK n \in Nat, padding \in 0..(FrameSamples - 1) :
          CameOut(n, padding, offset, pos, last, rate, g, Flat, pending, done)
    BY Zenon DEF SourceInv
  <2>2. Yield(n, offset \div g, rate, Den) /\ Flat \o pending = FirstSamples(n, rate, Den, g) \o Quiet(padding)
        /\ ~(padding > 0)
    BY <2>1, Zenon DEF CameOut
  <2>3. padding = 0
    BY <2>2, NextBytes
  <2>4. Den \in Nat \ {0} /\ rate \in Nat \ {0} /\ g \in Nat \ {0} /\ offset \in Nat
    BY NextBytes DEF SourceInv
  <2>5. FirstSamples(n, rate, Den, g) \o Quiet(padding) = FirstSamples(n, rate, Den, g)
    <3>1. rate \in Nat /\ g \in Nat /\ n <= n
      BY <2>4
    <3> HIDE DEF g
    <3>2. MoreSamples(n, n, rate, g)
      BY <3>1, FirstSamplesJoin
    <3> QED
      BY <2>3, <3>2, NoQuiet, Zenon DEF MoreSamples
  <2>6. Source!Resampled(offset) = FirstSamples(n, rate, Den, g)
    BY <2>2, <2>4, ResampledIs
  <2> QED
    BY <2>2, <2>5, <2>6, Zenon DEF Source!Emitted, Flat
<1> QED
  BY <1>1, <1>2, <1>3, PTL DEF MediaFilesSpec

\* Then all of a file is played, once and in order, and only the padding of the
\* last frame follows (source.go:27-47).
THEOREM WavIsPlayed == ASSUME \A c \in Channels : BufBytes % (2 * c) = 0
                       PROVE  MediaFilesSpec => []PlaysItAll
<1> DEFINE Inv == part = "WavSource" => SourceInv
<1>1. MediaFilesInit => Inv
  BY SourceStarts DEF MediaFilesInit
<1>2. Inv /\ [MediaFilesNext]_allVars => Inv'
  <2> SUFFICES ASSUME Inv, [MediaFilesNext]_allVars, part = "WavSource" PROVE SourceInv'
    BY OnePartMoves
  <2>1. [Source!Next]_(Source!vars)
    BY OnePartMoves
  <2> QED
    BY <2>1, SourceStays
<1>3. Inv => PlaysItAll
  <2> SUFFICES ASSUME SourceInv, ended = "eof"
               PROVE  \E padding \in 0..(FrameSamples - 1) :
                        Source!Emitted = Source!Resampled(length) \o [i \in 1..padding |-> Source!Silence]
    BY DEF PlaysItAll, Source!PlaysItAll
  <2> DEFINE g == Source!GroupBytes
  <2>1. PICK n \in Nat, padding \in 0..(FrameSamples - 1) :
          CameOut(n, padding, offset, pos, last, rate, g, Flat, pending, done)
    BY Zenon DEF SourceInv
  <2>2. Yield(n, offset \div g, rate, Den) /\ Flat \o pending = FirstSamples(n, rate, Den, g) \o Quiet(padding)
    BY <2>1, Zenon DEF CameOut
  <2>3. Den \in Nat \ {0} /\ rate \in Nat \ {0} /\ g \in Nat \ {0} /\ length \in Nat /\ offset = length
    BY NextBytes DEF SourceInv
  <2>4. Source!Resampled(length) = FirstSamples(n, rate, Den, g)
    <3>1. Yield(n, length \div g, rate, Den)
      BY <2>2, <2>3, Zenon
    <3> QED
      BY <2>3, <3>1, ResampledIs
  <2>5. padding \in 0..(FrameSamples - 1)
    OBVIOUS
  <2> QED
    BY <2>2, <2>4, <2>5, Zenon DEF Source!Emitted, Flat, Quiet
<1> QED
  BY <1>1, <1>2, <1>3, PTL DEF MediaFilesSpec
=============================================================================

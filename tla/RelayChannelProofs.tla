------------------------- MODULE RelayChannelProofs -------------------------
(***************************************************************************)
(* No layer of the relay stack leaks or outlives the one below it, for any *)
(* number of goroutines that close the channel at once.                    *)
(***************************************************************************)
EXTENDS MCCall, SequenceTheorems, TLAPS

\* A step of the call is one of the channel's, or leaves it alone.
LEMMA ChannelMoves == [CallNext]_allVars => [Channel!Next]_(Channel!vars)
<1>1. CASE UNCHANGED allVars
  BY <1>1 DEF allVars, channelVars, Channel!vars
<1>2. CASE CallNext
  BY <1>2 DEF CallNext, AudioStep, ChannelStep, FrameStep, Only, channelVars, Channel!vars
<1> QED
  BY <1>1, <1>2

\* How many layers are allocated when ConnectRelayMedia is at step k.
Height(k) == CASE k = 1 -> 0 [] k = 2 -> 1 [] k = 3 -> 1 [] k = 4 -> 2 [] OTHER -> 3

\* Until the DataChannel is open the cleanup list names exactly the allocated
\* layers, bottom up, and nobody has the channel to close it.
BuiltUp ==
  conn \in {"connecting", "rollback"} =>
    /\ Len(cleanup) <= 3
    /\ \A i \in 1..Len(cleanup) : cleanup[i] = i
    /\ open = 1..Len(cleanup)
    /\ conn = "connecting" => Len(cleanup) = Height(step)
    /\ done = {} /\ \A c \in Closers : at[c] = 0

\* Whoever is closing has released every layer above the one it is at.
TornDown ==
  /\ conn = "failed" => open = {} /\ done = {} /\ \A c \in Closers : at[c] = 0
  /\ conn = "up" => Channel!LayersNested
  /\ \A c \in Closers : at[c] # 0 => open \subseteq 1..at[c]
  /\ done # {} => open = {}

RelayInv == Channel!TypeOK /\ BuiltUp /\ TornDown

\* The list names the layers 1, 2, ...
BottomUp(s) == \A i \in 1..Len(s) : s[i] = i

\* Taking the last entry off a cleanup list that names the layers 1, 2, ...
LEMMA PopLast ==
  ASSUME NEW s \in Seq(1..4), s # <<>>, Len(s) <= 3, BottomUp(s)
  PROVE  /\ Len(s) \in 1..3 /\ s[Len(s)] = Len(s)
         /\ SubSeq(s, 1, Len(s) - 1) \in Seq(1..4)
         /\ Len(SubSeq(s, 1, Len(s) - 1)) = Len(s) - 1
         /\ \A i \in 1..(Len(s) - 1) : SubSeq(s, 1, Len(s) - 1)[i] = i
<1>1. Len(s) \in Nat \ {0}
  BY EmptySeq
<1>8. Len(s) \in 1..3
  <2>1. \A k \in Nat \ {0} : k <= 3 => k \in 1..3
    OBVIOUS
  <2> QED
    BY <1>1, <2>1, Zenon
<1> DEFINE n == Len(s) - 1
<1>2. n \in 0..2 /\ \A i \in 1..n : s[i] \in 1..4
  <2>1. s \in [1..Len(s) -> 1..4]
    BY LenProperties
  <2> QED
    BY <1>8, <2>1
<1> HIDE DEF n
<1>3. /\ SubSeq(s, 1, n) \in Seq(1..4)
      /\ Len(SubSeq(s, 1, n)) = IF 1 <= n THEN n - 1 + 1 ELSE 0
      /\ \A i \in 1..(n - 1 + 1) : SubSeq(s, 1, n)[i] = s[1 + i - 1]
  BY <1>2, SubSeqProperties
<1>4. Len(SubSeq(s, 1, n)) = n
  BY <1>2, <1>3
<1>5. \A i \in 1..n : SubSeq(s, 1, n)[i] = i
  <2> TAKE i \in 1..n
  <2>1. i \in 1..(n - 1 + 1) /\ 1 + i - 1 = i /\ i \in 1..Len(s)
    BY <1>1, <1>2 DEF n
  <2> QED
    BY <1>3, <2>1 DEF BottomUp
<1>6. s[Len(s)] = Len(s) /\ Len(s) \in 1..3
  BY <1>8 DEF BottomUp
<1>7. SubSeq(s, 1, n) \in Seq(1..4)
  BY <1>3
<1> QED
  BY <1>4, <1>5, <1>6, <1>7 DEF n

\* Releasing the topmost of the layers 1..n that are open leaves no gap.
LEMMA DropTop ==
  ASSUME NEW o \in SUBSET (1..4), NEW n \in 1..4, o \subseteq 1..n,
         \A upper \in o, lower \in 1..4 : lower < upper => lower \in o
  PROVE  /\ o \ {n} \subseteq 1..(n - 1)
         /\ \A upper \in o \ {n}, lower \in 1..4 : lower < upper => lower \in o \ {n}
<1>1. \A x \in o : x \in 1..n /\ (x # n => x \in 1..(n - 1))
  OBVIOUS
<1>2. ASSUME NEW upper \in o \ {n}, NEW lower \in 1..4, lower < upper PROVE lower \in o \ {n}
  <2>1. lower \in o /\ upper < n /\ lower # n
    BY <1>1, <1>2
  <2> QED
    BY <2>1
<1> QED
  BY <1>1, <1>2

\* No step of the connect, a roll-back or a Close breaks the bookkeeping.
LEMMA RelayInvStep == RelayInv /\ [Channel!Next]_(Channel!vars) => RelayInv'
<1> SUFFICES ASSUME RelayInv, [Channel!Next]_(Channel!vars) PROVE RelayInv'
  OBVIOUS
<1> USE DEF RelayInv, Channel!TypeOK, BuiltUp, TornDown, Channel!LayersNested, Channel!Layers, Channel!closers
<1>1. CASE Channel!StepSucceeds
  <2>1. /\ conn = "connecting" /\ Len(cleanup) = Height(step) /\ step \in 1..5
        /\ Len(cleanup) \in 0..3
        /\ open = 1..Len(cleanup) /\ \A i \in 1..Len(cleanup) : cleanup[i] = i
    BY <1>1 DEF Channel!StepSucceeds, Height
  <2>2. CASE step \in {1, 3, 4}
    <3>1. Channel!LayerAt[step] = Len(cleanup) + 1 /\ Channel!LayerAt[step] \in 1..3
      BY <2>1, <2>2 DEF Height, Channel!LayerAt
    <3>2. cleanup' = Append(cleanup, Len(cleanup) + 1) /\ open' = open \cup {Len(cleanup) + 1}
      BY <1>1, <3>1 DEF Channel!StepSucceeds
    <3>3. step' = step + 1 /\ conn' = "connecting"
      BY <1>1, <2>1, <2>2 DEF Channel!StepSucceeds
    <3>4. /\ cleanup' \in Seq(1..4) /\ Len(cleanup') = Len(cleanup) + 1
          /\ \A i \in 1..Len(cleanup') : cleanup'[i] = i
      BY <2>1, <3>1, <3>2
    <3>5. open' = 1..Len(cleanup')
      BY <2>1, <3>2, <3>4
    <3>6. Len(cleanup') = Height(step') /\ Len(cleanup') <= 3
      BY <2>1, <2>2, <3>3, <3>4 DEF Height
    <3> QED
      BY <1>1, <2>1, <3>3, <3>4, <3>5, <3>6 DEF Channel!StepSucceeds
  <2>3. CASE step = 2
    <3>1. open' = open /\ cleanup' = cleanup /\ conn' = "connecting" /\ step' = 3
      BY <1>1, <2>1, <2>3 DEF Channel!StepSucceeds, Channel!LayerAt
    <3>2. Height(step) = 1 /\ Height(step') = 1
      BY <2>3, <3>1 DEF Height
    <3>3. /\ UNCHANGED <<open, cleanup, conn, at, firstErr, failed, done>> /\ step' \in 1..5
          /\ Len(cleanup) = Height(step')
      BY <1>1, <2>1, <2>3, <3>1, <3>2 DEF Channel!StepSucceeds
    <3> QED
      BY <2>1, <3>3
  <2>4. CASE step = 5
    <3>1. /\ Channel!LayerAt[step] = 4 /\ open' = 1..4 /\ cleanup' = cleanup
          /\ conn' = "up" /\ step' = step
      BY <1>1, <2>1, <2>4 DEF Channel!StepSucceeds, Channel!LayerAt, Height
    <3> QED
      BY <1>1, <2>1, <3>1 DEF Channel!StepSucceeds
  <2> QED
    BY <2>1, <2>2, <2>3, <2>4
<1>2. CASE Channel!StepFails
  BY <1>2 DEF Channel!StepFails, Height
<1>3. CASE Channel!Rollback
  <2>1. CASE cleanup = <<>>
    <3>1. open = {} /\ conn' = "failed" /\ UNCHANGED <<step, cleanup, open, at, firstErr, failed, done>>
      BY <1>3, <2>1 DEF Channel!Rollback
    <3> QED
      BY <1>3, <3>1 DEF Channel!Rollback
  <2>2. CASE cleanup # <<>>
    <3>0. /\ Len(cleanup) \in 1..3 /\ cleanup[Len(cleanup)] = Len(cleanup)
          /\ SubSeq(cleanup, 1, Len(cleanup) - 1) \in Seq(1..4)
          /\ Len(SubSeq(cleanup, 1, Len(cleanup) - 1)) = Len(cleanup) - 1
          /\ \A i \in 1..(Len(cleanup) - 1) : SubSeq(cleanup, 1, Len(cleanup) - 1)[i] = i
      <4>1. cleanup \in Seq(1..4) /\ Len(cleanup) <= 3 /\ \A i \in 1..Len(cleanup) : cleanup[i] = i
        BY <1>3 DEF Channel!Rollback
      <4> QED
        BY <4>1, <2>2, PopLast DEF BottomUp
    <3>1. /\ cleanup' = SubSeq(cleanup, 1, Len(cleanup) - 1)
          /\ open' = open \ {Len(cleanup)} /\ conn' = "rollback" /\ open = 1..Len(cleanup)
      BY <1>3, <2>2, <3>0 DEF Channel!Rollback
    <3>2. /\ cleanup' \in Seq(1..4) /\ Len(cleanup') = Len(cleanup) - 1
          /\ \A i \in 1..Len(cleanup') : cleanup'[i] = i
      BY <3>0, <3>1
    <3>3. open' = 1..Len(cleanup')
      BY <3>0, <3>1, <3>2
    <3> QED
      BY <1>3, <3>0, <3>1, <3>2, <3>3 DEF Channel!Rollback
  <2> QED
    BY <2>1, <2>2
<1>4. ASSUME NEW c \in Closers, Channel!StartClose(c) PROVE RelayInv'
  BY <1>4 DEF Channel!StartClose
<1>5. ASSUME NEW c \in Closers, Channel!CloseLayer(c) PROVE RelayInv'
  <2>1. /\ at[c] \in 1..4 /\ open \subseteq 1..at[c] /\ conn = "up" /\ Channel!LayersNested
        /\ open' = open \ {at[c]} /\ at' = [at EXCEPT ![c] = @ - 1]
        /\ done' = IF at[c] = 1 THEN done \cup {c} ELSE done
        /\ UNCHANGED <<conn, step, cleanup>>
    BY <1>5 DEF Channel!CloseLayer
  <2>2. open' \subseteq 1..(at[c] - 1) /\ Channel!LayersNested' /\ open' \subseteq open
    BY <2>1, DropTop
  <2>3. at' \in [Closers -> 0..4] /\ at'[c] = at[c] - 1 /\ \A d \in Closers : d # c => at'[d] = at[d]
    BY <2>1
  <2>4. failed' \in [Closers -> SUBSET Channel!Layers] /\ firstErr' \in [Closers -> 0..4]
    BY <1>5, <2>1 DEF Channel!CloseLayer
  <2>5. Channel!TypeOK'
    BY <2>1, <2>3, <2>4
  <2>6. BuiltUp'
    <3>1. conn' = "up"
      BY <2>1
    <3> QED
      BY <3>1
  <2>7. TornDown'
    BY <2>1, <2>2, <2>3
  <2> QED
    BY <2>5, <2>6, <2>7
<1>6. CASE UNCHANGED Channel!vars
  BY <1>6 DEF Channel!vars
<1> QED
  BY <1>1, <1>2, <1>3, <1>4, <1>5, <1>6 DEF Channel!Next

\* Connecting that fails holds nothing, a Close that returned has released
\* everything, and at no moment does a layer outlive the one below it.
THEOREM NothingLeaks == CallSpec => [](EndedHoldsNothing /\ LayersNested)
<1>1. CallInit => RelayInv
  BY DEF CallInit, Channel!Init, RelayInv, Channel!TypeOK, BuiltUp, TornDown, Height, Channel!Layers
<1>2. RelayInv => EndedHoldsNothing /\ LayersNested
  BY DEF EndedHoldsNothing, LayersNested, RelayInv, Channel!TypeOK, BuiltUp, TornDown, Channel!EndedHoldsNothing, Channel!LayersNested, Channel!Layers
<1> QED
  BY <1>1, <1>2, ChannelMoves, RelayInvStep, PTL DEF CallSpec

\* A Close works its way down: every layer that failed in it is above the one it
\* is at, and its error is the topmost of theirs.
ErrorInv ==
  /\ Channel!TypeOK /\ Channel!FirstErrorWins
  /\ \A c \in Closers : /\ at[c] # 0 => \A l \in failed[c] : l > at[c]
                        /\ at[c] = 0 /\ c \notin done => failed[c] = {}

\* The layer a Close is at, should it fail, is below those that failed before.
LEMMA NextFailure ==
  ASSUME NEW f \in SUBSET Channel!Layers, NEW e \in 0..4, NEW n \in Channel!Layers,
         \A l \in f : l > n,
         f = {} => e = 0, f # {} => e \in f /\ \A l \in f : l <= e
  PROVE  LET g == IF e = 0 THEN n ELSE e
         IN g \in f \cup {n} /\ \A l \in f \cup {n} : l <= g
<1>1. CASE e = 0
  BY <1>1 DEF Channel!Layers
<1>2. CASE e # 0
  BY <1>2 DEF Channel!Layers
<1> QED
  BY <1>1, <1>2

\* However many goroutines close the channel at once, each Close returns the
\* first error it met, and nil only when it met none.
THEOREM FirstErrorWinsHolds == CallSpec => []FirstErrorWins
<1>1. CallInit => ErrorInv
  BY DEF CallInit, Channel!Init, ErrorInv, Channel!TypeOK, Channel!FirstErrorWins, Channel!Layers
<1>2. ErrorInv /\ RelayInv /\ RelayInv' /\ [Channel!Next]_(Channel!vars) => ErrorInv'
  <2> SUFFICES ASSUME ErrorInv, RelayInv, RelayInv', [Channel!Next]_(Channel!vars) PROVE ErrorInv'
    OBVIOUS
  <2>0. Channel!TypeOK'
    BY DEF RelayInv
  <2> USE DEF ErrorInv, Channel!TypeOK, Channel!FirstErrorWins
  <2>1. CASE Channel!StepSucceeds \/ Channel!StepFails \/ Channel!Rollback
    BY <2>0, <2>1 DEF Channel!StepSucceeds, Channel!StepFails, Channel!Rollback, Channel!closers
  <2>2. ASSUME NEW c \in Closers, Channel!StartClose(c) PROVE ErrorInv'
    BY <2>0, <2>2 DEF Channel!StartClose
  <2>3. ASSUME NEW c \in Closers, Channel!CloseLayer(c) PROVE ErrorInv'
    <3>1. /\ at[c] \in Channel!Layers /\ at' = [at EXCEPT ![c] = @ - 1]
          /\ done' = IF at[c] = 1 THEN done \cup {c} ELSE done
      BY <2>3 DEF Channel!CloseLayer, Channel!Layers
    <3>2. PICK fails \in BOOLEAN :
            /\ failed' = IF fails THEN [failed EXCEPT ![c] = @ \cup {at[c]}] ELSE failed
            /\ firstErr' = IF fails /\ firstErr[c] = 0 THEN [firstErr EXCEPT ![c] = at[c]] ELSE firstErr
      BY <2>3 DEF Channel!CloseLayer
    <3>6. failed[c] \subseteq Channel!Layers /\ firstErr[c] \in 0..4
      OBVIOUS
    <3>7. /\ \A l \in failed[c] : l > at[c]
          /\ failed[c] = {} => firstErr[c] = 0
          /\ failed[c] # {} => firstErr[c] \in failed[c] /\ \A l \in failed[c] : l <= firstErr[c]
      <4>1. at[c] # 0
        BY <2>3 DEF Channel!CloseLayer
      <4>2. \A d \in Closers : at[d] # 0 => \A l \in failed[d] : l > at[d]
        OBVIOUS
      <4>3. Channel!FirstErrorWins
        OBVIOUS
      <4> QED
        BY <4>1, <4>2, <4>3
    <3>3. ASSUME NEW d \in Closers, d # c
          PROVE  /\ failed'[d] = failed[d] /\ firstErr'[d] = firstErr[d] /\ at'[d] = at[d]
                 /\ d \in done' <=> d \in done
      BY <3>1, <3>2, <3>3
    <3>4. /\ failed'[c] = {} => firstErr'[c] = 0
          /\ failed'[c] # {} => firstErr'[c] \in failed'[c] /\ \A l \in failed'[c] : l <= firstErr'[c]
      <4>1. CASE fails
        <5>1. /\ failed'[c] = failed[c] \cup {at[c]}
              /\ firstErr'[c] = IF firstErr[c] = 0 THEN at[c] ELSE firstErr[c]
          BY <3>2, <4>1
        <5> QED
          BY <3>1, <3>6, <3>7, <5>1, NextFailure
      <4>2. CASE ~fails
        BY <3>2, <4>2
      <4> QED
        BY <4>1, <4>2
    <3>5. /\ at'[c] # 0 => \A l \in failed'[c] : l > at'[c]
          /\ at'[c] = 0 /\ c \notin done' => failed'[c] = {}
      <4>1. at'[c] = at[c] - 1 /\ failed'[c] \subseteq failed[c] \cup {at[c]}
        BY <3>1, <3>2
      <4>2. \A l \in failed[c] \cup {at[c]} : l > at[c] - 1
        <5>1. \A l \in Channel!Layers : l > at[c] => l > at[c] - 1
          BY <3>1 DEF Channel!Layers
        <5>2. at[c] > at[c] - 1
          BY <3>1 DEF Channel!Layers
        <5> QED
          BY <3>6, <3>7, <5>1, <5>2
      <4> QED
        BY <3>1, <4>1, <4>2 DEF Channel!Layers
    <3> QED
      BY <2>0, <3>3, <3>4, <3>5
  <2>4. CASE UNCHANGED Channel!vars
    BY <2>4 DEF Channel!vars
  <2> QED
    BY <2>1, <2>2, <2>3, <2>4 DEF Channel!Next
<1>3. CallInit => RelayInv
  BY DEF CallInit, Channel!Init, RelayInv, Channel!TypeOK, BuiltUp, TornDown, Height, Channel!Layers
<1>4. ErrorInv => FirstErrorWins
  BY DEF ErrorInv, FirstErrorWins
<1> QED
  BY <1>1, <1>2, <1>3, <1>4, ChannelMoves, RelayInvStep, PTL DEF CallSpec
=============================================================================

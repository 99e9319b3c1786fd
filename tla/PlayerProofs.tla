---------------------------- MODULE PlayerProofs ----------------------------
(***************************************************************************)
(* Theorems about Player, for any number of goroutines, sources and        *)
(* frames.  Counted is inductive with the types alone; Once needs it, and  *)
(* is about an application that plays each source once (MaxPlays = 1), for *)
(* whom the player implements Playback.                                    *)
(***************************************************************************)
EXTENDS Player, TLAPS

\* A finish nextFrame has decided on and not yet reported.
Pending(s) == finish /\ pc[Loop] \in {"closeEnded", "callback"} /\ cur[Loop] = s

\* Each play of a source is spent at most once: it is the active one, or its
\* finish is pending, or its finish was fired.
Counted ==
  \A s \in Sources : /\ fired[s] + (IF src = s THEN 1 ELSE 0) + (IF Pending(s) THEN 1 ELSE 0) <= plays[s]
                     /\ plays[s] <= MaxPlays

\* Where the source of a call stands, by where the call is.
Located ==
  /\ \A t \in Threads : pc[t] = "closeOld" => cur[t] \in taken
  /\ pc[Loop] \in {"read", "settle", "closeEnded", "callback"} => cur[Loop] \in Sources /\ plays[cur[Loop]] > 0
  /\ pc[Loop] \in {"settle", "closeEnded", "callback"} => cur[Loop] \in ended
  /\ pc[Loop] = "callback" => finish
  /\ state = "Idle" => src = NoSource

\* A source that has left the player is closed, or someone is about to.
Accounted ==
  \A s \in Sources : plays[s] > 0 /\ src # s => closes[s] > 0 \/ \E t \in Threads : Closing(t, s)

Once ==
  \A s \in Sources :
    /\ s \in taken => plays[s] > 0 /\ src # s
    /\ fired[s] > 0 \/ Pending(s) => s \in ended /\ s \notin taken
    /\ closes[s] > 0 => plays[s] > 0 /\ src # s
    /\ \A t \in Threads : Closing(t, s) => plays[s] > 0 /\ src # s
    /\ \A t, u \in Threads :
         pc[t] = "closeOld" /\ pc[u] = "closeOld" /\ cur[t] = s /\ cur[u] = s => t = u

\* The actions that change nothing but the part of the state they name keep
\* the types; so do the others.
LEMMA TypeStep == TypeOK /\ [Next]_vars => TypeOK'
<1> SUFFICES ASSUME TypeOK, [Next]_vars PROVE TypeOK'
  OBVIOUS
<1> USE PlayerAssumption DEF TypeOK, Threads, Pcs, States, Home, history
<1>1. ASSUME NEW t \in Threads, NEW s \in Sources \cup {NoSource}, Play(t, s) PROVE TypeOK'
  BY <1>1 DEF Play, CloseOld
<1>2. ASSUME NEW t \in Threads, Pause(t) PROVE TypeOK'
  BY <1>2 DEF Pause
<1>3. ASSUME NEW t \in Threads, Resume(t) PROVE TypeOK'
  BY <1>3 DEF Resume
<1>4. ASSUME NEW t \in Threads, Stop(t) PROVE TypeOK'
  BY <1>4 DEF Stop, CloseOld
<1>5. ASSUME NEW t \in Threads, NEW b \in BOOLEAN, OnFinish(t, b) PROVE TypeOK'
  BY <1>5 DEF OnFinish
<1>6. ASSUME NEW t \in Threads, CloseReplaced(t) PROVE TypeOK'
  BY <1>6 DEF CloseReplaced
<1>7. CASE Snapshot
  BY <1>7 DEF Snapshot
<1>8. CASE ReadFrame
  BY <1>8 DEF ReadFrame
<1>9. CASE ReadError
  BY <1>9 DEF ReadError
<1>10. CASE Settle
  BY <1>10 DEF Settle
<1>11. CASE CloseEnded
  BY <1>11 DEF CloseEnded
<1>12. CASE Callback
  <2>1. cur[Loop] \in Sources /\ fired[cur[Loop]] + 1 \in Nat
    BY <1>12 DEF Callback
  <2>2. fired' \in [Sources -> Nat]
    BY <1>12, <2>1 DEF Callback
  <2>3. pc' \in [Threads -> Pcs] /\ pc' = [pc EXCEPT ![Loop] = "inCallback"]
    BY <1>12 DEF Callback
  <2> QED
    BY <1>12, <2>2, <2>3 DEF Callback
<1>13. CASE CallbackReturn
  BY <1>13 DEF CallbackReturn
<1>14. CASE UNCHANGED vars
  BY <1>14 DEF vars
<1> QED
  BY <1>1, <1>2, <1>3, <1>4, <1>5, <1>6, <1>7, <1>8, <1>9, <1>10, <1>11, <1>12, <1>13, <1>14
     DEF Next, LoopStep, Call

\* A new player, whatever the sources hold, has the types.
LEMMA InitTyped == Init => TypeOK
<1> SUFFICES ASSUME Init PROVE TypeOK
  OBVIOUS
<1>1. left \in [Sources -> Nat]
  <2>1. 0..MaxFrames \subseteq Nat
    BY PlayerAssumption
  <2> QED
    BY <2>1 DEF Init
<1> QED
  BY <1>1, PlayerAssumption DEF Init, TypeOK, Threads, Pcs, States

\* The state always has its type, for any constants.
THEOREM TypeCorrect == Spec => []TypeOK
  BY InitTyped, TypeStep, PTL DEF Spec

\* Every action keeps track of the source its goroutine works on.
LEMMA LocatedStep == TypeOK /\ Counted /\ Located /\ [Next]_vars => Located'
<1> SUFFICES ASSUME TypeOK, Counted, Located, [Next]_vars PROVE Located'
  OBVIOUS
<1> USE PlayerAssumption DEF TypeOK, Threads, Pcs, States, Home, history, Located
<1>1. ASSUME NEW t \in Threads, NEW x \in Sources \cup {NoSource}, Play(t, x) PROVE Located'
  BY <1>1 DEF Play, CloseOld
<1>2. ASSUME NEW t \in Threads, Pause(t) PROVE Located'
  BY <1>2 DEF Pause
<1>3. ASSUME NEW t \in Threads, Resume(t) PROVE Located'
  BY <1>3 DEF Resume
<1>4. ASSUME NEW t \in Threads, Stop(t) PROVE Located'
  BY <1>4 DEF Stop, CloseOld
<1>5. ASSUME NEW t \in Threads, NEW b \in BOOLEAN, OnFinish(t, b) PROVE Located'
  BY <1>5 DEF OnFinish
<1>6. ASSUME NEW t \in Threads, CloseReplaced(t) PROVE Located'
  BY <1>6 DEF CloseReplaced
<1>7. CASE Snapshot
  BY <1>7 DEF Snapshot, Counted
<1>8. CASE ReadFrame
  BY <1>8 DEF ReadFrame
<1>9. CASE ReadError
  BY <1>9 DEF ReadError
<1>10. CASE Settle
  BY <1>10 DEF Settle
<1>11. CASE CloseEnded
  BY <1>11 DEF CloseEnded
<1>12. CASE Callback
  BY <1>12 DEF Callback
<1>13. CASE CallbackReturn
  BY <1>13 DEF CallbackReturn
<1>14. CASE UNCHANGED vars
  BY <1>14 DEF vars
<1> QED
  BY <1>1, <1>2, <1>3, <1>4, <1>5, <1>6, <1>7, <1>8, <1>9, <1>10, <1>11, <1>12, <1>13, <1>14
     DEF Next, LoopStep, Call

\* No action spends one play of a source twice.
LEMMA CountedStep == TypeOK /\ Located /\ Counted /\ [Next]_vars => Counted'
<1> SUFFICES ASSUME TypeOK, Located, Counted, [Next]_vars PROVE Counted'
  OBVIOUS
<1> USE PlayerAssumption DEF TypeOK, Threads, Pcs, States, Home, history, Located, Counted, Pending
<1>1. ASSUME NEW t \in Threads, NEW x \in Sources \cup {NoSource}, Play(t, x) PROVE Counted'
  BY <1>1 DEF Play, CloseOld
<1>2. ASSUME NEW t \in Threads, Pause(t) PROVE Counted'
  BY <1>2 DEF Pause
<1>3. ASSUME NEW t \in Threads, Resume(t) PROVE Counted'
  BY <1>3 DEF Resume
<1>4. ASSUME NEW t \in Threads, Stop(t) PROVE Counted'
  BY <1>4 DEF Stop, CloseOld
<1>5. ASSUME NEW t \in Threads, NEW b \in BOOLEAN, OnFinish(t, b) PROVE Counted'
  BY <1>5 DEF OnFinish
<1>6. ASSUME NEW t \in Threads, CloseReplaced(t) PROVE Counted'
  BY <1>6 DEF CloseReplaced
<1>7. CASE Snapshot
  BY <1>7 DEF Snapshot
<1>8. CASE ReadFrame
  BY <1>8 DEF ReadFrame
<1>9. CASE ReadError
  BY <1>9 DEF ReadError
<1>10. CASE Settle
  BY <1>10 DEF Settle
<1>11. CASE CloseEnded
  BY <1>11 DEF CloseEnded
<1>12. CASE Callback
  BY <1>12 DEF Callback
<1>13. CASE CallbackReturn
  BY <1>13 DEF CallbackReturn
<1>14. CASE UNCHANGED vars
  BY <1>14 DEF vars
<1> QED
  BY <1>1, <1>2, <1>3, <1>4, <1>5, <1>6, <1>7, <1>8, <1>9, <1>10, <1>11, <1>12, <1>13, <1>14
     DEF Next, LoopStep, Call

\* A source leaves the player only in the hands of whoever will close it.
LEMMA AccountedStep == TypeOK /\ Located /\ Accounted /\ [Next]_vars => Accounted'
<1> SUFFICES ASSUME TypeOK, Located, Accounted, [Next]_vars PROVE Accounted'
  OBVIOUS
<1> USE PlayerAssumption DEF TypeOK, Threads, Pcs, States, Home, history, Located, Accounted, Closing
<1>1. ASSUME NEW t \in Threads, NEW x \in Sources \cup {NoSource}, Play(t, x) PROVE Accounted'
  BY <1>1 DEF Play, CloseOld
<1>2. ASSUME NEW t \in Threads, Pause(t) PROVE Accounted'
  BY <1>2 DEF Pause
<1>3. ASSUME NEW t \in Threads, Resume(t) PROVE Accounted'
  BY <1>3 DEF Resume
<1>4. ASSUME NEW t \in Threads, Stop(t) PROVE Accounted'
  BY <1>4 DEF Stop, CloseOld
<1>5. ASSUME NEW t \in Threads, NEW b \in BOOLEAN, OnFinish(t, b) PROVE Accounted'
  BY <1>5 DEF OnFinish
<1>6. ASSUME NEW t \in Threads, CloseReplaced(t) PROVE Accounted'
  BY <1>6 DEF CloseReplaced
<1>7. CASE Snapshot
  BY <1>7 DEF Snapshot
<1>8. CASE ReadFrame
  BY <1>8 DEF ReadFrame
<1>9. CASE ReadError
  BY <1>9 DEF ReadError
<1>10. CASE Settle
  BY <1>10 DEF Settle
<1>11. CASE CloseEnded
  BY <1>11 DEF CloseEnded
<1>12. CASE Callback
  BY <1>12 DEF Callback
<1>13. CASE CallbackReturn
  BY <1>13 DEF CallbackReturn
<1>14. CASE UNCHANGED vars
  BY <1>14 DEF vars
<1> QED
  BY <1>1, <1>2, <1>3, <1>4, <1>5, <1>6, <1>7, <1>8, <1>9, <1>10, <1>11, <1>12, <1>13, <1>14
     DEF Next, LoopStep, Call

\* When each source is played once, the ways out of the player exclude one another.
LEMMA OnceStep == MaxPlays = 1 /\ TypeOK /\ Located /\ Counted /\ Once /\ [Next]_vars => Once'
<1> SUFFICES ASSUME MaxPlays = 1, TypeOK, Located, Counted, Once, [Next]_vars PROVE Once'
  OBVIOUS
<1> USE PlayerAssumption DEF TypeOK, Threads, Pcs, States, Home, history, Located, Counted, Once, Closing, Pending
<1>1. ASSUME NEW t \in Threads, NEW x \in Sources \cup {NoSource}, Play(t, x) PROVE Once'
  BY <1>1 DEF Play, CloseOld
<1>2. ASSUME NEW t \in Threads, Pause(t) PROVE Once'
  BY <1>2 DEF Pause
<1>3. ASSUME NEW t \in Threads, Resume(t) PROVE Once'
  BY <1>3 DEF Resume
<1>4. ASSUME NEW t \in Threads, Stop(t) PROVE Once'
  BY <1>4 DEF Stop, CloseOld
<1>5. ASSUME NEW t \in Threads, NEW b \in BOOLEAN, OnFinish(t, b) PROVE Once'
  BY <1>5 DEF OnFinish
<1>6. ASSUME NEW t \in Threads, CloseReplaced(t) PROVE Once'
  BY <1>6 DEF CloseReplaced
<1>7. CASE Snapshot
  BY <1>7 DEF Snapshot
<1>8. CASE ReadFrame
  BY <1>8 DEF ReadFrame
<1>9. CASE ReadError
  BY <1>9 DEF ReadError
<1>10. CASE Settle
  BY <1>10 DEF Settle
<1>11. CASE CloseEnded
  BY <1>11 DEF CloseEnded
<1>12. CASE Callback
  BY <1>12 DEF Callback
<1>13. CASE CallbackReturn
  BY <1>13 DEF CallbackReturn
<1>14. CASE UNCHANGED vars
  BY <1>14 DEF vars
<1> QED
  BY <1>1, <1>2, <1>3, <1>4, <1>5, <1>6, <1>7, <1>8, <1>9, <1>10, <1>11, <1>12, <1>13, <1>14
     DEF Next, LoopStep, Call

\* The bookkeeping behind the three safety theorems is invariant.
THEOREM Bookkeeping == Spec => [](TypeOK /\ Counted /\ Located /\ Accounted)
<1>1. Init => TypeOK /\ Counted /\ Located /\ Accounted
  <2> SUFFICES ASSUME Init PROVE TypeOK /\ Counted /\ Located /\ Accounted
    OBVIOUS
  <2>1. TypeOK
    BY InitTyped
  <2>2. Counted
    BY PlayerAssumption DEF Init, Counted, Pending, Threads
  <2> QED
    BY <2>1, <2>2, PlayerAssumption DEF Init, Located, Accounted, Closing, Threads
<1>2. QED
  BY <1>1, TypeStep, CountedStep, LocatedStep, AccountedStep, PTL DEF Spec

\* An idle player holds no source (player.go:43, 72, 114-118).
THEOREM IdleHoldsNothingHolds == Spec => []IdleHoldsNothing
<1>1. Located => IdleHoldsNothing
  BY DEF Located, IdleHoldsNothing
<1> QED
  BY <1>1, Bookkeeping, PTL

\* OnFinish never fires more often for a source than Play was called with it
\* (player.go:111), replays of an active source included.
THEOREM FinishOncePerPlayHolds == Spec => []FinishOncePerPlay
<1>1. TypeOK /\ Counted => FinishOncePerPlay
  BY DEF TypeOK, Counted, FinishOncePerPlay
<1> QED
  BY <1>1, Bookkeeping, PTL

\* No source that left the player stays open once every Close has returned.
THEOREM NoLeakHolds == Spec => []NoLeak
<1>1. Accounted => NoLeak
  BY DEF Accounted, NoLeak, Closing
<1> QED
  BY <1>1, Bookkeeping, PTL

\* With each source played once: a replaced source reports no finish, the
\* active one is open, and two Close calls of one source meet only when its
\* end was read while it was being replaced.
THEOREM SingleUse ==
  MaxPlays = 1 /\ Spec => [](FinishNotAfterReplace /\ ActiveSourceOpen /\ OverlappingCloseWindow)
<1> DEFINE Inv == TypeOK /\ Counted /\ Located /\ Once
<1>1. Init => Once
  BY PlayerAssumption DEF Init, Once, Pending, Closing, Threads
<1>2. Inv => FinishNotAfterReplace /\ ActiveSourceOpen /\ OverlappingCloseWindow
  <2> SUFFICES ASSUME Inv PROVE FinishNotAfterReplace /\ ActiveSourceOpen /\ OverlappingCloseWindow
    OBVIOUS
  <2>1. FinishNotAfterReplace
    BY DEF Once, FinishNotAfterReplace
  <2>2. ActiveSourceOpen
    BY DEF Once, ActiveSourceOpen, TypeOK
  <2>3. OverlappingCloseWindow
    BY PlayerAssumption DEF Once, Located, TypeOK, OverlappingCloseWindow, Closing, Threads
  <2> QED
    BY <2>1, <2>2, <2>3
<1>3. Init => TypeOK /\ Counted /\ Located
  <2> SUFFICES ASSUME Init PROVE TypeOK /\ Counted /\ Located
    OBVIOUS
  <2>1. Counted
    BY PlayerAssumption DEF Init, Counted, Pending, Threads
  <2> QED
    BY <2>1, InitTyped, PlayerAssumption DEF Init, Located, Threads
<1>4. MaxPlays = 1 /\ Inv /\ [Next]_vars => Inv'
  BY TypeStep, CountedStep, LocatedStep, OnceStep
<1>5. (MaxPlays = 1) => (MaxPlays = 1)'
  OBVIOUS
<1> QED
  BY <1>1, <1>2, <1>3, <1>4, <1>5, PTL DEF Spec

-----------------------------------------------------------------------------
(* The refinement of Playback.                                             *)

\* A finish is told only after the source was closed.
ToldClosed == pc[Loop] = "callback" => closes[cur[Loop]] > 0

\* Only the send loop tells, and Close comes right before.
LEMMA ToldStep == TypeOK /\ ToldClosed /\ [Next]_vars => ToldClosed'
<1> SUFFICES ASSUME TypeOK, ToldClosed, [Next]_vars PROVE ToldClosed'
  OBVIOUS
<1> USE PlayerAssumption DEF TypeOK, Threads, Pcs, Home, history, ToldClosed
<1>1. ASSUME NEW t \in Threads, NEW x \in Sources \cup {NoSource}, Play(t, x) PROVE ToldClosed'
  BY <1>1 DEF Play, CloseOld
<1>2. ASSUME NEW t \in Threads, Pause(t) \/ Resume(t) PROVE ToldClosed'
  BY <1>2 DEF Pause, Resume
<1>3. ASSUME NEW t \in Threads, Stop(t) PROVE ToldClosed'
  BY <1>3 DEF Stop, CloseOld
<1>4. ASSUME NEW t \in Threads, NEW b \in BOOLEAN, OnFinish(t, b) PROVE ToldClosed'
  BY <1>4 DEF OnFinish
<1>5. ASSUME NEW t \in Threads, CloseReplaced(t) PROVE ToldClosed'
  BY <1>5 DEF CloseReplaced
<1>6. CASE Snapshot \/ ReadFrame \/ ReadError \/ Settle \/ Callback \/ CallbackReturn
  BY <1>6 DEF Snapshot, ReadFrame, ReadError, Settle, Callback, CallbackReturn
<1>7. CASE CloseEnded
  BY <1>7 DEF CloseEnded
<1>8. CASE UNCHANGED vars
  BY <1>8 DEF vars
<1> QED
  BY <1>1, <1>2, <1>3, <1>4, <1>5, <1>6, <1>7, <1>8 DEF Next, LoopStep, Call

\* The part of the state Playback's is read off.
LEMMA SilentStep ==
  ASSUME UNCHANGED <<plays, src, taken, fired, closes>>
  PROVE  UNCHANGED Promise!vars
<1>1. \A s : Life(s)' = Life(s)
  BY DEF Life
<1> QED
  BY <1>1, Zenon DEF Promise!vars

\* How the actions move a source through its life, one source at a time.
Lived == MaxPlays = 1 /\ TypeOK /\ Counted /\ Located /\ Once /\ ToldClosed

\* A source that Play or Stop takes out is replaced, the others stay.
LEMMA TakenOut ==
  ASSUME Lived, NEW s \in Sources, plays'[s] = plays[s], src' # s, fired' = fired, 
         taken' = taken \cup ({src} \ {NoSource})
  PROVE  Life(s)' = IF Life(s) = "active" THEN "replaced" ELSE Life(s)
<1> USE PlayerAssumption DEF Lived, TypeOK, Counted, Once, Life
<1>1. CASE src = s
  BY <1>1
<1>2. CASE src # s
  BY <1>2
<1> QED
  BY <1>1, <1>2

\* Play starts a fresh source, in the place of the active one, or of none when
\* there is no new source.
LEMMA PlayRefines ==
  ASSUME Lived, NEW t \in Threads, NEW x \in Sources \cup {NoSource}, Play(t, x)
  PROVE  [Promise!Next]_(Promise!vars)
<1>1. /\ src' = x /\ fired' = fired /\ closes' = closes /\ taken' = taken \cup ({src} \ {NoSource})
      /\ \A s \in Sources : plays'[s] = IF s = x THEN plays[s] + 1 ELSE plays[s]
      /\ x # NoSource => plays[x] < MaxPlays
  BY DEF Play, CloseOld
<1>2. \A s \in Sources : s # x => Life(s)' = IF Life(s) = "active" THEN "replaced" ELSE Life(s)
  BY <1>1, TakenOut
<1>3. UNCHANGED {s \in Sources : closes[s] > 0}
  BY <1>1
<1>4. CASE x \in Sources
  <2>1. Life(x) = "fresh"
    BY <1>1, <1>4, PlayerAssumption DEF Lived, TypeOK, Life
  <2>2. Life(x)' = "active"
    BY <1>1, <1>4, PlayerAssumption DEF Lived, TypeOK, Life
  <2>3. Promise!Start(x)
    BY <1>2, <1>3, <1>4, <2>1, <2>2 DEF Promise!Start, Promise!Displaced
  <2> QED
    BY <1>4, <2>3 DEF Promise!Next
<1>5. CASE x = NoSource /\ src \in Sources
  <2>1. Life(src) = "active"
    BY <1>5 DEF Lived, TypeOK, Counted, Life
  <2>2. \A s \in Sources : s # x
    BY <1>5, PlayerAssumption
  <2>3. Promise!Drop
    BY <1>2, <1>3, <1>5, <2>1, <2>2 DEF Promise!Drop, Promise!Displaced
  <2> QED
    BY <2>3 DEF Promise!Next
<1>6. CASE x = NoSource /\ src = NoSource
  <2>1. \A s \in Sources : s # x /\ Life(s) # "active"
    BY <1>6, PlayerAssumption DEF Life
  <2>2. UNCHANGED Promise!vars
    BY <1>2, <1>3, <2>1, Zenon DEF Promise!vars
  <2> QED
    BY <2>2
<1> QED
  BY <1>4, <1>5, <1>6 DEF Lived, TypeOK

\* Stop drops the active source.
LEMMA StopRefines ==
  ASSUME Lived, NEW t \in Threads, Stop(t)
  PROVE  [Promise!Next]_(Promise!vars)
<1>1. /\ src' = NoSource /\ UNCHANGED <<plays, fired, closes>> /\ taken' = taken \cup ({src} \ {NoSource})
  BY DEF Stop, CloseOld
<1>2. \A s \in Sources : Life(s)' = IF Life(s) = "active" THEN "replaced" ELSE Life(s)
  BY <1>1, TakenOut, PlayerAssumption
<1>3. UNCHANGED {s \in Sources : closes[s] > 0}
  BY <1>1
<1>4. CASE src \in Sources
  <2>1. Life(src) = "active"
    BY <1>4 DEF Lived, TypeOK, Counted, Life
  <2>2. Promise!Drop
    BY <1>2, <1>3, <1>4, <2>1 DEF Promise!Drop, Promise!Displaced
  <2> QED
    BY <2>2 DEF Promise!Next
<1>5. CASE src = NoSource
  <2>1. \A s \in Sources : Life(s) # "active"
    BY <1>5, PlayerAssumption DEF Life
  <2>2. UNCHANGED Promise!vars
    BY <1>2, <1>3, <2>1, Zenon DEF Promise!vars
  <2> QED
    BY <2>2
<1> QED
  BY <1>4, <1>5 DEF Lived, TypeOK

\* Close releases a source that is out of the player, the first time.
LEMMA CloseRefines ==
  ASSUME Lived, NEW t \in Threads, Closing(t, cur[t]), cur[t] \in Sources,
         UNCHANGED <<plays, src, taken, fired>>, closes' = [closes EXCEPT ![cur[t]] = @ + 1]
  PROVE  [Promise!Next]_(Promise!vars)
<1> PICK x : x = cur[t]
  OBVIOUS
<1>1. Life(x) \notin {"fresh", "active"}
  BY DEF Lived, TypeOK, Once, Life
<1>2. \A s : Life(s)' = Life(s)
  BY DEF Life
<1>3. {s \in Sources : closes[s] > 0}' = {s \in Sources : closes[s] > 0} \cup {x}
  BY DEF Lived, TypeOK
<1>4. CASE closes[x] > 0
  <2>1. UNCHANGED {s \in Sources : closes[s] > 0}
    BY <1>3, <1>4
  <2> QED
    BY <1>2, <2>1, Zenon DEF Promise!vars
<1>5. CASE ~(closes[x] > 0)
  <2>1. Promise!Release(x)
    BY <1>1, <1>2, <1>3, <1>5 DEF Promise!Release
  <2> QED
    BY <2>1 DEF Promise!Next
<1> QED
  BY <1>4, <1>5

\* nextFrame finishes the source whose end it read, if it is still the active one.
LEMMA SettleRefines ==
  ASSUME Lived, Settle
  PROVE  [Promise!Next]_(Promise!vars)
<1> PICK x : x = cur[Loop]
  OBVIOUS
<1>1. UNCHANGED <<plays, fired, taken, closes>> /\ x \in Sources
  BY DEF Settle, history, Lived, Located
<1>2. CASE src # x
  <2>1. UNCHANGED src
    BY <1>2 DEF Settle
  <2> QED
    BY <1>1, <2>1, SilentStep
<1>3. CASE src = x
  <2>1. src' = NoSource
    BY <1>3 DEF Settle
  <2>2. Life(x) = "active"
    BY <1>1, <1>3 DEF Lived, TypeOK, Counted, Life
  <2>3. Life(x)' = "finished"
    <3>1. plays[x] > 0 /\ fired[x] = 0 /\ x \notin taken
      BY <1>1, <1>3 DEF Lived, TypeOK, Counted, Once
    <3>2. src' # x
      BY <1>1, <2>1, PlayerAssumption
    <3> QED
      BY <1>1, <3>1, <3>2 DEF Life
  <2>4. \A s \in Sources : s # x => Life(s)' = Life(s)
    BY <1>1, <1>3, <2>1, PlayerAssumption DEF Life
  <2>5. UNCHANGED {s \in Sources : closes[s] > 0}
    BY <1>1
  <2>6. Promise!Finish(x)
    BY <1>1, <2>2, <2>3, <2>4, <2>5 DEF Promise!Finish
  <2> QED
    BY <1>1, <2>6 DEF Promise!Next
<1> QED
  BY <1>2, <1>3

\* The callback reports the source that has finished, and has been released.
LEMMA CallbackRefines ==
  ASSUME Lived, Callback
  PROVE  [Promise!Next]_(Promise!vars)
<1> PICK x : x = cur[Loop]
  OBVIOUS
<1>1. /\ UNCHANGED <<plays, src, taken, closes>> /\ fired' = [fired EXCEPT ![x] = @ + 1]
      /\ pc[Loop] = "callback" /\ x \in Sources /\ finish
  BY DEF Callback, Lived, Located
<1>2. Pending(x)
  BY <1>1 DEF Pending
<1>3. plays[x] = 1 /\ src # x /\ fired[x] = 0 /\ x \notin taken
  BY <1>1, <1>2 DEF Lived, TypeOK, Counted, Once
<1>4. Life(x) = "finished" /\ Life(x)' = "reported"
  BY <1>1, <1>3 DEF Lived, TypeOK, Life
<1>5. \A s \in Sources : s # x => Life(s)' = Life(s)
  BY <1>1 DEF Lived, TypeOK, Life
<1>6. x \in {s \in Sources : closes[s] > 0} /\ UNCHANGED {s \in Sources : closes[s] > 0}
  BY <1>1 DEF Lived, ToldClosed
<1>7. Promise!Report(x)
  BY <1>1, <1>4, <1>5, <1>6 DEF Promise!Report
<1> QED
  BY <1>1, <1>7 DEF Promise!Next

\* Every step of the player is one of Playback's, or none.
LEMMA StepRefines == Lived /\ [Next]_vars => [Promise!Next]_(Promise!vars)
<1> SUFFICES ASSUME Lived, [Next]_vars PROVE [Promise!Next]_(Promise!vars)
  OBVIOUS
<1>1. ASSUME NEW t \in Threads, Call(t) PROVE [Promise!Next]_(Promise!vars)
  <2>1. CASE \E x \in Sources \cup {NoSource} : Play(t, x)
    BY <2>1, PlayRefines
  <2>2. CASE Stop(t)
    BY <2>2, StopRefines
  <2>3. CASE Pause(t) \/ Resume(t) \/ \E b \in BOOLEAN : OnFinish(t, b)
    <3>1. UNCHANGED <<plays, src, taken, fired, closes>>
      BY <2>3 DEF Pause, Resume, OnFinish, history
    <3> QED
      BY <3>1, SilentStep
  <2> QED
    BY <1>1, <2>1, <2>2, <2>3 DEF Call
<1>2. ASSUME NEW t \in Threads, CloseReplaced(t) PROVE [Promise!Next]_(Promise!vars)
  <2>1. Closing(t, cur[t]) /\ cur[t] \in Sources
    BY <1>2 DEF CloseReplaced, Closing, Lived, TypeOK
  <2>2. UNCHANGED <<plays, src, taken, fired>> /\ closes' = [closes EXCEPT ![cur[t]] = @ + 1]
    BY <1>2 DEF CloseReplaced, history
  <2> QED
    BY <2>1, <2>2, CloseRefines
<1>3. CASE CloseEnded
  <2>1. Closing(Loop, cur[Loop]) /\ cur[Loop] \in Sources /\ Loop \in Threads
    BY <1>3 DEF CloseEnded, Closing, Lived, Located, Threads
  <2>2. UNCHANGED <<plays, src, taken, fired>> /\ closes' = [closes EXCEPT ![cur[Loop]] = @ + 1]
    BY <1>3 DEF CloseEnded, history
  <2> QED
    BY <2>1, <2>2, CloseRefines
<1>4. CASE Snapshot \/ ReadFrame \/ ReadError \/ CallbackReturn \/ UNCHANGED vars
  <2>1. UNCHANGED <<plays, src, taken, fired, closes>>
    BY <1>4 DEF Snapshot, ReadFrame, ReadError, CallbackReturn, history, vars
  <2> QED
    BY <2>1, SilentStep
<1>5. CASE Settle
  BY <1>5, SettleRefines
<1>6. CASE Callback
  BY <1>6, CallbackRefines
<1> QED
  BY <1>1, <1>2, <1>3, <1>4, <1>5, <1>6 DEF Next, LoopStep

\* A player each of whose sources is played once does nothing that Playback does
\* not allow: the safety half of KeepsPromise.
THEOREM PlayerKeepsPromise == MaxPlays = 1 /\ Spec => Promise!Init /\ [][Promise!Next]_(Promise!vars)
<1>1. Init => Promise!Init
  <2> SUFFICES ASSUME Init PROVE Promise!Init
    OBVIOUS
  <2>1. \A s \in Sources : plays[s] = 0 /\ closes[s] = 0
    BY DEF Init
  <2>2. \A s \in Sources : Life(s) = "fresh" /\ ~(closes[s] > 0)
    BY <2>1 DEF Life
  <2> QED
    BY <2>2 DEF Promise!Init
<1>2. Init => TypeOK /\ Counted /\ Located /\ Once /\ ToldClosed
  <2> SUFFICES ASSUME Init PROVE TypeOK /\ Counted /\ Located /\ Once /\ ToldClosed
    OBVIOUS
  <2>1. Counted /\ Once
    BY PlayerAssumption DEF Init, Counted, Once, Pending, Closing, Threads
  <2> QED
    BY <2>1, InitTyped, PlayerAssumption DEF Init, Located, Threads, ToldClosed
<1>3. MaxPlays = 1 /\ Init => Lived
  BY <1>2 DEF Lived
<1>4. Lived /\ [Next]_vars => Lived'
  BY TypeStep, CountedStep, LocatedStep, OnceStep, ToldStep DEF Lived
<1> QED
  BY <1>1, <1>3, <1>4, StepRefines, PTL DEF Spec
=============================================================================

------------------------------- MODULE Player -------------------------------
(***************************************************************************)
(* meowcaller/player.go: a Player shared by the application's goroutines   *)
(* (Users), which call Play, Pause, Resume, Stop and OnFinish, and by the  *)
(* call's send loop (Loop), which calls nextFrame once per frame interval. *)
(*                                                                         *)
(* Each section between mu.Lock and mu.Unlock is one action: nothing       *)
(* blocks inside it.  ReadFrame, Close and the OnFinish callback run       *)
(* outside the lock, so each is an action of its own and every other       *)
(* goroutine may act in between.  A source is a number of frames; reading  *)
(* it yields a frame, io.EOF when no frame is left, or a decode error at   *)
(* any time (a source closed under its reader included).                   *)
(***************************************************************************)
EXTENDS Naturals

CONSTANTS Users,      \* application goroutines
          Loop,       \* the send loop's goroutine
          Sources,    \* audio sources
          NoSource,   \* Go's nil AudioSource
          MaxFrames,  \* bound: frames in a source
          MaxPlays    \* bound: how often the application plays one source

ASSUME PlayerAssumption == /\ Loop \notin Users
                           /\ NoSource \notin Sources
                           /\ MaxFrames \in Nat
                           /\ MaxPlays \in Nat

VARIABLES src,       \* Player.src
          state,     \* Player.state
          onFinish,  \* Player.onFinish is not nil
          pc,        \* where each goroutine is
          cur,       \* the source a goroutine's call works on (old, or nextFrame's src)
          finish,    \* nextFrame's local finish is not nil
          left,      \* left[s]: frames source s still holds
          closes,    \* closes[s]: how often Close of s has returned
          plays,     \* history: Play calls per source
          fired,     \* history: OnFinish invocations per source
          taken,     \* history: sources Play or Stop took out of the player
          ended      \* history: sources whose ReadFrame returned an error

vars == <<src, state, onFinish, pc, cur, finish, left, closes, plays, fired, taken, ended>>
history == <<plays, fired, taken, ended>>

Threads == Users \cup {Loop}
States == {"Idle", "Playing", "Paused"}
Pcs == {"ready", "closeOld", "read", "settle", "closeEnded", "callback", "inCallback"}

TypeOK == /\ src \in Sources \cup {NoSource}
          /\ state \in States
          /\ onFinish \in BOOLEAN
          /\ pc \in [Threads -> Pcs]
          /\ \A u \in Users : pc[u] \in {"ready", "closeOld"}
          /\ cur \in [Threads -> Sources \cup {NoSource}]
          /\ \A t \in Threads : pc[t] \notin {"ready", "inCallback"} => cur[t] \in Sources
          /\ finish \in BOOLEAN
          /\ left \in [Sources -> Nat]
          /\ closes \in [Sources -> Nat]
          /\ plays \in [Sources -> Nat]
          /\ fired \in [Sources -> Nat]
          /\ taken \subseteq Sources
          /\ ended \subseteq Sources

\* NewPlayer: idle, with the sources the application may hand over.
Init == /\ src = NoSource
        /\ state = "Idle"
        /\ onFinish = FALSE
        /\ pc = [t \in Threads |-> "ready"]
        /\ cur = [t \in Threads |-> NoSource]
        /\ finish = FALSE
        /\ left \in [Sources -> 0..MaxFrames]
        /\ closes = [s \in Sources |-> 0]
        /\ plays = [s \in Sources |-> 0]
        /\ fired = [s \in Sources |-> 0]
        /\ taken = {}
        /\ ended = {}

\* Where a goroutine stands when it is free to call the player: the send loop
\* is while it runs the OnFinish callback.
Home(t) == IF t = Loop THEN "inCallback" ELSE "ready"

\* Mutant of CloseOld: the replaced source is forgotten, not closed.
CloseOldLeaks(t, old) ==
  /\ taken' = taken \cup ({old} \ {NoSource})
  /\ cur' = [cur EXCEPT ![t] = old]
  /\ pc' = pc

\* Go on to close old, the source a Play or Stop took out, unless it is nil.
CloseOld(t, old) ==
  /\ taken' = taken \cup ({old} \ {NoSource})
  /\ cur' = [cur EXCEPT ![t] = old]
  /\ pc' = [pc EXCEPT ![t] = IF old # NoSource THEN "closeOld" ELSE Home(t)]

\* Play(s), s possibly nil, up to its unlock.
Play(t, s) == /\ pc[t] = Home(t)
              /\ s # NoSource => plays[s] < MaxPlays
              /\ src' = s
              /\ state' = "Playing"
              /\ plays' = [x \in Sources |-> IF x = s THEN plays[x] + 1 ELSE plays[x]]
              /\ CloseOld(t, src)
              /\ UNCHANGED <<onFinish, finish, left, closes, fired, ended>>

Pause(t) == /\ pc[t] = Home(t)
            /\ state = "Playing"
            /\ state' = "Paused"
            /\ UNCHANGED <<src, onFinish, pc, cur, finish, left, closes, history>>

Resume(t) == /\ pc[t] = Home(t)
             /\ state = "Paused"
             /\ state' = "Playing"
             /\ UNCHANGED <<src, onFinish, pc, cur, finish, left, closes, history>>

\* Mutant of Stop: p.src is not reset.
StopKeepsSource(t) ==
  /\ pc[t] = Home(t)
  /\ state' = "Idle"
  /\ CloseOld(t, src)
  /\ UNCHANGED <<src, onFinish, finish, left, closes, plays, fired, ended>>

\* Stop up to its unlock.
Stop(t) == /\ pc[t] = Home(t)
           /\ src' = NoSource
           /\ state' = "Idle"
           /\ CloseOld(t, src)
           /\ UNCHANGED <<onFinish, finish, left, closes, plays, fired, ended>>

OnFinish(t, registered) ==
  /\ pc[t] = Home(t)
  /\ onFinish' = registered
  /\ UNCHANGED <<src, state, pc, cur, finish, left, closes, history>>

\* old.Close() after the unlock of Play or Stop.
CloseReplaced(t) ==
  /\ pc[t] = "closeOld"
  /\ closes' = [closes EXCEPT ![cur[t]] = @ + 1]
  /\ pc' = [pc EXCEPT ![t] = Home(t)]
  /\ UNCHANGED <<src, state, onFinish, cur, finish, left, history>>

\* nextFrame's first locked section.  When it has nothing to play it returns
\* nil (silence) and changes nothing, so only the other case is a step.
Snapshot == /\ pc[Loop] = "ready"
            /\ state = "Playing"
            /\ src # NoSource
            /\ cur' = [cur EXCEPT ![Loop] = src]
            /\ pc' = [pc EXCEPT ![Loop] = "read"]
            /\ UNCHANGED <<src, state, onFinish, finish, left, closes, history>>

\* src.ReadFrame() yields a frame, which nextFrame returns at once.
ReadFrame == /\ pc[Loop] = "read"
             /\ left[cur[Loop]] > 0
             /\ left' = [left EXCEPT ![cur[Loop]] = @ - 1]
             /\ pc' = [pc EXCEPT ![Loop] = "ready"]
             /\ UNCHANGED <<src, state, onFinish, cur, finish, closes, history>>

\* Mutant of ReadError: the error is taken for silence and tried again.
ReadErrorRetries ==
  /\ pc[Loop] = "read"
  /\ pc' = [pc EXCEPT ![Loop] = "ready"]
  /\ UNCHANGED <<src, state, onFinish, cur, finish, left, closes, history>>

\* src.ReadFrame() returns io.EOF or a decode error.
ReadError == /\ pc[Loop] = "read"
             /\ ended' = ended \cup {cur[Loop]}
             /\ pc' = [pc EXCEPT ![Loop] = "settle"]
             /\ UNCHANGED <<src, state, onFinish, cur, finish, left, closes, plays, fired, taken>>

\* Mutant of Settle: the player does not go idle.
SettleKeepsPlaying ==
  /\ pc[Loop] = "settle"
  /\ finish' = (onFinish /\ src = cur[Loop])
  /\ pc' = [pc EXCEPT ![Loop] = "closeEnded"]
  /\ UNCHANGED <<src, state, onFinish, cur, left, closes, history>>

\* Mutant of Settle: the callback runs instead of the Close before it.
SettleFiresFirst ==
  /\ pc[Loop] = "settle"
  /\ finish' = (onFinish /\ src = cur[Loop])
  /\ IF src = cur[Loop] THEN src' = NoSource /\ state' = "Idle" ELSE UNCHANGED <<src, state>>
  /\ pc' = [pc EXCEPT ![Loop] = IF finish' THEN "callback" ELSE "closeEnded"]
  /\ UNCHANGED <<onFinish, cur, left, closes, history>>

\* nextFrame's second locked section: is cur still the active source?
Settle == /\ pc[Loop] = "settle"
          /\ \/ /\ src = cur[Loop]
                /\ src' = NoSource
                /\ state' = "Idle"
                /\ finish' = onFinish
             \/ /\ src # cur[Loop]
                /\ finish' = FALSE
                /\ UNCHANGED <<src, state>>
          /\ pc' = [pc EXCEPT ![Loop] = "closeEnded"]
          /\ UNCHANGED <<onFinish, cur, left, closes, history>>

\* src.Close() in nextFrame; then the callback, if there is one.
CloseEnded == /\ pc[Loop] = "closeEnded"
              /\ closes' = [closes EXCEPT ![cur[Loop]] = @ + 1]
              /\ pc' = [pc EXCEPT ![Loop] = IF finish THEN "callback" ELSE "ready"]
              /\ UNCHANGED <<src, state, onFinish, cur, finish, left, history>>

\* finish(): the callback starts; it may call the player (queue the next
\* source, say) before it returns.
Callback == /\ pc[Loop] = "callback"
            /\ fired' = [fired EXCEPT ![cur[Loop]] = @ + 1]
            /\ finish' = FALSE
            /\ pc' = [pc EXCEPT ![Loop] = "inCallback"]
            /\ UNCHANGED <<src, state, onFinish, cur, left, closes, plays, taken, ended>>

CallbackReturn == /\ pc[Loop] = "inCallback"
                  /\ pc' = [pc EXCEPT ![Loop] = "ready"]
                  /\ UNCHANGED <<src, state, onFinish, cur, finish, left, closes, history>>

Call(t) == \/ \E s \in Sources \cup {NoSource} : Play(t, s)
           \/ Pause(t) \/ Resume(t) \/ Stop(t)
           \/ \E registered \in BOOLEAN : OnFinish(t, registered)

LoopStep == Snapshot \/ ReadFrame \/ ReadError \/ Settle \/ CloseEnded
            \/ Callback \/ CallbackReturn

Next == LoopStep \/ \E t \in Threads : Call(t) \/ CloseReplaced(t)

(***************************************************************************)
(* The send loop ticks for as long as the call lives, its callback returns *)
(* and a goroutine that has entered Play or Stop goes on to the Close that *)
(* ends it; nobody is obliged to start a call.  A source holds finitely    *)
(* many frames.                                                            *)
(***************************************************************************)
Spec == /\ Init /\ [][Next]_vars
        /\ WF_vars(LoopStep)
        /\ \A t \in Threads : WF_vars(CloseReplaced(t))

-----------------------------------------------------------------------------
Closing(t, s) == pc[t] \in {"closeOld", "closeEnded"} /\ cur[t] = s

\* Play and nextFrame agree on what Idle means: whatever order their locked
\* sections take, an idle player never keeps a source, so the source nextFrame
\* retires is never left behind in p.src (player.go:43, 72, 114-118).
IdleHoldsNothing == state = "Idle" => src = NoSource

\* OnFinish fires at most once for each time a source was played, however
\* Play, Stop and the end of the source interleave (player.go:111 "fire
\* OnFinish once").
FinishOncePerPlay == \A s \in Sources : fired[s] <= plays[s]

\* A source that Play or Stop took out never reports a finish, even when its
\* end was being read at that very moment; one that reports was read to its
\* end.  (Each source played once.)
FinishNotAfterReplace ==
  \A s \in Sources : fired[s] > 0 => s \in ended /\ s \notin taken

\* The source the player would read next is open, and no goroutine is on its
\* way to closing it.  (Each source played once.)
ActiveSourceOpen ==
  \A s \in Sources : src = s => closes[s] = 0 /\ \A t \in Threads : ~Closing(t, s)

\* Two goroutines may meet inside Close of one source only when its end was
\* read while Play or Stop took it out, and then nobody is told it finished.
\* frameSource.Close (source.go:53-60) has no lock of its own, so this is the
\* one window in which its test, call and reset of closer can interleave.
OverlappingCloseWindow ==
  \A s \in Sources : \A t, u \in Threads :
    (t # u /\ Closing(t, s) /\ Closing(u, s)) => s \in ended \cap taken /\ fired[s] = 0

\* No decoder leaks: when no goroutine is between taking a source out and
\* closing it, every source played before has been closed, except the one
\* that is active.
NoLeak ==
  (\A t \in Threads : pc[t] \notin {"closeOld", "closeEnded"}) =>
    \A s \in Sources : plays[s] > 0 /\ src # s => closes[s] > 0

\* A source that is active and not paused does not stay so for ever: it is
\* read to its end, or the application replaces, stops or pauses it.
PlaybackEnds ==
  \A s \in Sources : (src = s /\ state = "Playing") ~> (src # s \/ state = "Paused")

\* The promise of Playback, read off this module's state.
Life(s) == CASE plays[s] = 0 -> "fresh"
             [] plays[s] > 0 /\ src = s -> "active"
             [] plays[s] > 0 /\ src # s /\ s \in taken /\ fired[s] = 0 -> "replaced"
             [] plays[s] > 0 /\ src # s /\ s \notin taken /\ fired[s] = 0 -> "finished"
             [] OTHER -> "reported"

Promise == INSTANCE Playback WITH
  life <- [s \in Sources |-> Life(s)],
  released <- {s \in Sources : closes[s] > 0}

\* The player keeps Playback's promise: a source finishes once, when it is
\* closed, and never after it was replaced, and every retired source is
\* released.  (Each source played once.)
KeepsPromise == Promise!Spec
=============================================================================

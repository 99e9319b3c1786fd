---------------------------- MODULE RelayChannel ----------------------------
(***************************************************************************)
(* meowcaller/relay/relay.go: building the media stack to a relay, layer   *)
(* by layer (ConnectRelayMedia), and tearing it down (Close), by any       *)
(* number of goroutines at once.  A layer is known by its height: 1 is the *)
(* UDP socket, 2 DTLS, 3 the SCTP association, 4 the DataChannel.          *)
(* Generating the certificate is a step of its own, which can fail and     *)
(* holds nothing.  Send and Recv change nothing here.                      *)
(***************************************************************************)
EXTENDS Integers, Sequences

CONSTANT Closers   \* goroutines that may call Close

VARIABLES conn,      \* what ConnectRelayMedia is doing, or how it ended
          step,      \* the step it is at
          cleanup,   \* its cleanup list
          open,      \* the layers that are allocated
          at,        \* at[c]: the layer c's Close closes next, 0 when it is not closing
          firstErr,  \* firstErr[c]: the layer whose error c's Close returns, 0 for nil
          failed,    \* history: the layers whose closer failed in c's Close
          done       \* history: the goroutines whose Close has returned

vars == <<conn, step, cleanup, open, at, firstErr, failed, done>>
closers == <<at, firstErr, failed, done>>

Layers == 1..4
\* The layer each step allocates: the certificate, the second step, none.
LayerAt == <<1, 0, 2, 3, 4>>

TypeOK == /\ conn \in {"connecting", "rollback", "failed", "up"}
          /\ step \in 1..5
          /\ cleanup \in Seq(Layers)
          /\ open \subseteq Layers
          /\ at \in [Closers -> 0..4]
          /\ firstErr \in [Closers -> 0..4]
          /\ failed \in [Closers -> SUBSET Layers]
          /\ done \subseteq Closers

Init == /\ conn = "connecting"
        /\ step = 1
        /\ cleanup = <<>>
        /\ open = {}
        /\ at = [c \in Closers |-> 0]
        /\ firstErr = [c \in Closers |-> 0]
        /\ failed = [c \in Closers |-> {}]
        /\ done = {}

\* One step of ConnectRelayMedia succeeds.  The DataChannel, the last one,
\* needs no cleanup entry: nothing can fail after it.
StepSucceeds ==
  /\ conn = "connecting"
  /\ open' = open \cup ({LayerAt[step]} \ {0})
  /\ cleanup' = IF LayerAt[step] \in {1, 2, 3} THEN Append(cleanup, LayerAt[step]) ELSE cleanup
  /\ IF step = 5 THEN conn' = "up" /\ step' = step ELSE conn' = conn /\ step' = step + 1
  /\ UNCHANGED closers

\* A step fails: the first returns at once, the others go through fail().
StepFails ==
  /\ conn = "connecting"
  /\ conn' = IF step = 1 THEN "failed" ELSE "rollback"
  /\ UNCHANGED <<step, cleanup, open, closers>>

\* Mutant of Rollback: the list is worked off from its front.
RollbackForward ==
  /\ conn = "rollback"
  /\ IF cleanup = <<>> THEN conn' = "failed" /\ UNCHANGED <<cleanup, open>>
     ELSE /\ open' = open \ {Head(cleanup)}
          /\ cleanup' = Tail(cleanup)
          /\ conn' = conn
  /\ UNCHANGED <<step, closers>>

\* fail() runs the cleanup list from its end, whatever the closers return.
Rollback ==
  /\ conn = "rollback"
  /\ IF cleanup = <<>> THEN conn' = "failed" /\ UNCHANGED <<cleanup, open>>
     ELSE /\ open' = open \ {cleanup[Len(cleanup)]}
          /\ cleanup' = SubSeq(cleanup, 1, Len(cleanup) - 1)
          /\ conn' = conn
  /\ UNCHANGED <<step, closers>>

\* A goroutine that holds the channel calls Close.
StartClose(c) ==
  /\ conn = "up"
  /\ at[c] = 0 /\ c \notin done
  /\ at' = [at EXCEPT ![c] = 4]
  /\ UNCHANGED <<conn, step, cleanup, open, firstErr, failed, done>>

\* Mutant of CloseLayer: the first error ends the loop.
CloseLayerStops(c) ==
  /\ at[c] # 0
  /\ open' = open \ {at[c]}
  /\ \E fails \in BOOLEAN :
       /\ failed' = IF fails THEN [failed EXCEPT ![c] = @ \cup {at[c]}] ELSE failed
       /\ firstErr' = IF fails /\ firstErr[c] = 0 THEN [firstErr EXCEPT ![c] = at[c]] ELSE firstErr
       /\ at' = [at EXCEPT ![c] = IF fails THEN 0 ELSE @ - 1]
       /\ done' = IF fails \/ at[c] = 1 THEN done \cup {c} ELSE done
  /\ UNCHANGED <<conn, step, cleanup>>

\* Mutant of CloseLayer: a later error replaces the first.
CloseLayerLastErr(c) ==
  /\ at[c] # 0
  /\ open' = open \ {at[c]}
  /\ \E fails \in BOOLEAN :
       /\ failed' = IF fails THEN [failed EXCEPT ![c] = @ \cup {at[c]}] ELSE failed
       /\ firstErr' = IF fails THEN [firstErr EXCEPT ![c] = at[c]] ELSE firstErr
  /\ at' = [at EXCEPT ![c] = @ - 1]
  /\ done' = IF at[c] = 1 THEN done \cup {c} ELSE done
  /\ UNCHANGED <<conn, step, cleanup>>

\* Close calls the next closer down.  It releases the layer and may return an
\* error, as it may when another goroutine has released the layer already.
CloseLayer(c) ==
  /\ at[c] # 0
  /\ open' = open \ {at[c]}
  /\ \E fails \in BOOLEAN :
       /\ failed' = IF fails THEN [failed EXCEPT ![c] = @ \cup {at[c]}] ELSE failed
       /\ firstErr' = IF fails /\ firstErr[c] = 0 THEN [firstErr EXCEPT ![c] = at[c]] ELSE firstErr
  /\ at' = [at EXCEPT ![c] = @ - 1]
  /\ done' = IF at[c] = 1 THEN done \cup {c} ELSE done
  /\ UNCHANGED <<conn, step, cleanup>>

Next == \/ StepSucceeds \/ StepFails \/ Rollback
        \/ \E c \in Closers : StartClose(c) \/ CloseLayer(c)

Spec == Init /\ [][Next]_vars

-----------------------------------------------------------------------------
\* "Close tears down the media stack in reverse order of construction"
\* (relay.go:86): whoever closes, and however many do so at once, no layer
\* outlives the one below it, neither on the way up nor in a roll-back.
LayersNested == \A upper \in open, lower \in Layers : lower < upper => lower \in open

\* A connect that failed holds nothing ("Roll back already-allocated resources
\* if a later step fails", relay.go:136), and neither does a channel once a Close
\* has returned, whatever the closers returned and whoever else was closing.
EndedHoldsNothing == conn = "failed" \/ done # {} => open = {}

\* Close returns the error of the topmost layer that failed in it.
FirstErrorWins ==
  \A c \in Closers : /\ failed[c] = {} => firstErr[c] = 0
                     /\ failed[c] # {} => firstErr[c] \in failed[c] /\ \A l \in failed[c] : l <= firstErr[c]
=============================================================================

---------------------------- MODULE CallSession -----------------------------
(***************************************************************************)
(* meowcaller/session.go: the phase machine of CallSession, for several    *)
(* calls.  TransitionTo is one action: the type has no lock, so its owner  *)
(* must call it from one goroutine at a time.  A refused transition        *)
(* returns false and changes nothing, so only granted ones are steps.      *)
(***************************************************************************)
EXTENDS Naturals

CONSTANT Calls

VARIABLES direction,  \* direction[c]: CallSession.Direction
          phase,      \* phase[c]: CallSession.phase
          visited     \* history: the phases call c has been in

vars == <<direction, phase, visited>>

Phases == {"Idle", "Calling", "Ringing", "Connecting", "Active", "Ended"}

TypeOK == /\ direction \in [Calls -> {"outgoing", "incoming"}]
          /\ phase \in [Calls -> Phases]
          /\ visited \in [Calls -> SUBSET Phases]

\* NewOutgoingSession starts Idle, NewIncomingSession starts Ringing.
Init == /\ direction \in [Calls -> {"outgoing", "incoming"}]
        /\ phase = [c \in Calls |-> IF direction[c] = "outgoing" THEN "Idle" ELSE "Ringing"]
        /\ visited = [c \in Calls |-> {phase[c]}]

\* Mutant of Legal: ringing is skipped when the peer answers at once.
LegalEarlyAnswer(dir, from, to) ==
  /\ from # "Ended"
  /\ \/ to = "Ended"
     \/ from = "Idle" /\ to = "Calling" /\ dir = "outgoing"
     \/ from = "Calling" /\ to \in {"Ringing", "Connecting"}
     \/ from = "Ringing" /\ to = "Connecting"
     \/ from = "Connecting" /\ to = "Active"

\* The transitions TransitionTo grants; staying in a phase other than Ended is
\* one of them.
Legal(dir, from, to) ==
  /\ from # "Ended"
  /\ \/ to = "Ended"
     \/ from = "Idle" /\ to = "Calling" /\ dir = "outgoing"
     \/ from = "Calling" /\ to = "Ringing"
     \/ from = "Ringing" /\ to = "Connecting"
     \/ from = "Connecting" /\ to = "Active"
     \/ from = to

TransitionTo(c, next) ==
  /\ Legal(direction[c], phase[c], next)
  /\ phase' = [phase EXCEPT ![c] = next]
  /\ visited' = [visited EXCEPT ![c] = @ \cup {next}]
  /\ UNCHANGED direction

Next == \E c \in Calls, next \in Phases : TransitionTo(c, next)

Spec == Init /\ [][Next]_vars

-----------------------------------------------------------------------------
\* The phases a call must have been through before it may be in p.
Before(dir, p) ==
  LET setup == IF dir = "outgoing" THEN {"Idle", "Calling", "Ringing"} ELSE {"Ringing"}
  IN CASE p = "Active" -> setup \cup {"Connecting"}
       [] p = "Connecting" -> setup
       [] p = "Ringing" -> setup \ {"Ringing"}
       [] p = "Calling" -> {"Idle"}
       [] OTHER -> {}

\* No call is active that was not set up in full, phase by phase, and an
\* incoming call never dials.
SetupInOrder ==
  \A c \in Calls : /\ Before(direction[c], phase[c]) \subseteq visited[c]
                   /\ direction[c] = "incoming" => visited[c] \cap {"Idle", "Calling"} = {}

\* "Ended is reachable from anything except Ended" (session.go:95): an ended
\* call stays ended, and no call re-enters a phase it has left.
NeverBack ==
  [][\A c \in Calls : phase'[c] # phase[c] => phase[c] # "Ended" /\ phase'[c] \notin visited[c]]_vars
=============================================================================

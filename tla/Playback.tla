------------------------------ MODULE Playback ------------------------------
(***************************************************************************)
(* What a Player (meowcaller/player.go) promises to the code that hands it *)
(* audio sources, each source being played once: one source is active at a *)
(* time; a source that loses its place is either replaced (by Play or      *)
(* Stop) or finished (it ran dry while active), never both; every such     *)
(* source is released; and only a finished source, already released, is    *)
(* reported through OnFinish, once.                                        *)
(***************************************************************************)
CONSTANT Sources

VARIABLES life,      \* life[s]: where source s stands in its life
          released   \* the sources whose decoder has been closed

vars == <<life, released>>

Lives == {"fresh", "active", "replaced", "finished", "reported"}

Init == /\ life = [s \in Sources |-> "fresh"]
        /\ released = {}

\* The lives of the sources once whatever was active has been replaced.
Displaced == [s \in Sources |-> IF life[s] = "active" THEN "replaced" ELSE life[s]]

Start(s) == /\ life[s] = "fresh"
            /\ life' = [Displaced EXCEPT ![s] = "active"]
            /\ UNCHANGED released

Drop == /\ \E s \in Sources : life[s] = "active"
        /\ life' = Displaced
        /\ UNCHANGED released

Finish(s) == /\ life[s] = "active"
             /\ life' = [life EXCEPT ![s] = "finished"]
             /\ UNCHANGED released

Release(s) == /\ life[s] \notin {"fresh", "active"}
              /\ s \notin released
              /\ released' = released \cup {s}
              /\ UNCHANGED life

Report(s) == /\ life[s] = "finished"
             /\ s \in released
             /\ life' = [life EXCEPT ![s] = "reported"]
             /\ UNCHANGED released

Next == \/ Drop
        \/ \E s \in Sources : Start(s) \/ Finish(s) \/ Release(s) \/ Report(s)

Spec == /\ Init /\ [][Next]_vars
        /\ \A s \in Sources : WF_vars(Release(s))
=============================================================================

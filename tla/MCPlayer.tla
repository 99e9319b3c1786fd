------------------------------ MODULE MCPlayer ------------------------------
(***************************************************************************)
(* Player for TLC.  Users and sources are interchangeable, but symmetry is *)
(* left off: the runs check liveness.                                      *)
(***************************************************************************)
EXTENDS Player
=============================================================================

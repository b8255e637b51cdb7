----------------------------- MODULE MCGameLoop -----------------------------
(* Instance 1 is persistent and placed in room 1, instance 2 in both rooms. *)
EXTENDS GameLoop, TLC

MCPlaced == <<<<2, 1>>, <<2>>>>
=============================================================================

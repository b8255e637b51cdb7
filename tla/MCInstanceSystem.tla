-------------------------- MODULE MCInstanceSystem --------------------------
(* Object 2 is a child of object 1. *)
EXTENDS InstanceSystem

MCKinds == (1 :> {1}) @@ (2 :> {1, 2})
=============================================================================

----------------------------- MODULE MCSaveLoad -----------------------------
(* Object 2 is a child of object 1. *)
EXTENDS SaveLoad

MCKinds == (1 :> {1}) @@ (2 :> {1, 2})
=============================================================================

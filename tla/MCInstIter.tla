------------------------------ MODULE MCInstIter ------------------------------
(* Two registered iterators and one raw one on a list that grows to four nodes. *)
EXTENDS InstIter
=============================================================================

---------------------------- MODULE MCBuffers ------------------------------
(* Small instances of Buffers: values of one and of two bytes, and a value of *)
(* four for a buffer of three.                                                *)
EXTENDS Buffers

MCData     == {<<1>>, <<2, 3>>}
MCLongData == {<<1, 2, 3, 4>>}
=============================================================================

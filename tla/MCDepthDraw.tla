---------------------------- MODULE MCDepthDraw ----------------------------
EXTENDS DepthDraw, TLC

MCDepths == {-1, -2}
MCLayer  == [o \in Objects |-> IF o = 1 THEN -1 ELSE -2]
=============================================================================

--------------------------- MODULE MCLeaderboards ---------------------------
EXTENDS Leaderboards, TLC

MCRequests == [find |-> 3, upload |-> 2, download |-> 1]
=============================================================================

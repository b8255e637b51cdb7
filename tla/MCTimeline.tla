----------------------------- MODULE MCTimeline -----------------------------
(* Timeline 0 has adjacent moments and a gap, timeline 1 a single moment that *)
(* is not at 0.                                                               *)
EXTENDS Timeline, TLC

MCMoments   == (0 :> {0, 2, 6}) @@ (1 :> {4})
MCSpeeds    == {-5, -1, 0, 2, 3}
MCPositions == {-1, 0, 3, 6}
=============================================================================

CONSTANTS
  Names = {"a", "b"}
  MaxRequests <- MCRequests
  Careful = TRUE
SPECIFICATION Spec
INVARIANTS RightLeaderboard CookieWaits AnsweredOnce
PROPERTIES PostedReported

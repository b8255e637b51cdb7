CONSTANTS
  Registered = {r1, r2}
  Raw = {e}
  MaxNode = 4
SPECIFICATION Spec
INVARIANTS TypeOK WellLinked CountMatches NextStepLive SurvivorsVisited
PROPERTY ImplementsTraversal

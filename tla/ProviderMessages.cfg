SPECIFICATION Spec
CONSTANTS
  None = None
  Tools = {"a", "b"}
  OutputTool = "out"
  Responses <- SomeResponses
  Chains <- SomeChains
  MaxTurns = 3
CHECK_DEADLOCK FALSE
INVARIANTS
  TurnsAlternate
  ResultsFollowCalls
  HistorySent

SPECIFICATION Spec
CONSTANTS
  search = search
  fetch = fetch
  output_tool = output_tool
  unknown_tool = unknown_tool
  good = good
  better = better
  bad = bad
  corrected = corrected
  unparsable = unparsable
  none = none
  Tools <- MCTools
  OutputTool = output_tool
  UnknownTool = unknown_tool
  Outputs <- MCOutputs
  AcceptedOutputs <- MCAccepted
  Unparsable = unparsable
  Validated <- MCValidated
  None = none
  Responses <- MCResponses
  ParallelToolCalls = TRUE
  MaxConcurrent = 2
  MaxRetries <- MCMaxRetries
  MaxOutputRetries = 1
  EarlyEnd = TRUE
  AgentLimits <- TokenLimit
  RunLimits <- NoLimits
  HasTimeLimit = TRUE
  Cancellable = TRUE
  StepwiseCaller = TRUE
  MaxSteps = 4
INVARIANTS
  WorkAccounted
PROPERTIES
  FinishedIsFinal
  ImplementsConversation

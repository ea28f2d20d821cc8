SPECIFICATION FairSpec
CONSTANTS
  search = search
  fetch = fetch
  output_tool = output_tool
  unknown_tool = unknown_tool
  good = good
  better = better
  bad = bad
  corrected = corrected
  unparsable = unparsable
  none = none
  Tools <- MCTools
  OutputTool = output_tool
  UnknownTool = unknown_tool
  Outputs <- MCOutputs
  AcceptedOutputs <- MCAccepted
  Unparsable = unparsable
  Validated <- MCValidated
  None = none
  Responses <- MeteredResponses
  ParallelToolCalls = FALSE
  MaxConcurrent = none
  MaxRetries <- MCMaxRetries
  MaxOutputRetries = 1
  EarlyEnd = FALSE
  AgentLimits <- ToolLimit
  RunLimits <- TwoRequests
  HasTimeLimit = FALSE
  Cancellable = TRUE
  StepwiseCaller = FALSE
  MaxSteps = 6
INVARIANTS
  TypeOK
  CallsAnswered
  OutputAccounted
  UsageAccounted
PROPERTIES
  NoWorkAfterCancel
  RunEnds

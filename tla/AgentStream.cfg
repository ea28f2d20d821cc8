CONSTANTS
  search = search
  output_tool = output_tool
  unknown_tool = unknown_tool
  good = good
  unparsable = unparsable
  none = none
  Tools <- MCTools
  OutputTool <- output_tool
  UnknownTool <- unknown_tool
  Outputs <- MCOutputs
  AcceptedOutputs <- MCOutputs
  Unparsable <- unparsable
  None <- none
  Responses <- MCResponses
  Unnamed <- MCUnnamed
  Options <- MCOptions
  AgentLimits <- none
  Capacity = 2
  MaxSteps = 3
SPECIFICATION FairSpec
INVARIANTS
  ReportsTrue
  HistoryMatchesEvents
  WellPairedRequests
PROPERTIES
  NoWorkAfterCancel
  AbandonedStreamEnds

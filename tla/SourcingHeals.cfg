SPECIFICATION Spec
CONSTANTS
  Trends <- TwoTrends
  Requests <- OneRequest
  Products = {"p1"}
  Slots = 1
  Limit = 1
  MaxAttempts = 2
  MaxFaults = 2
  ByHand = 0
PROPERTIES SourcedInTheEnd
CHECK_DEADLOCK FALSE

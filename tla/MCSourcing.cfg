SPECIFICATION Spec
CONSTANTS
  Trends <- OneTrend
  Requests <- TwoRequests
  Products = {"p1"}
  Slots = 1
  Limit = 1
  MaxAttempts = 2
  MaxFaults = 1
  ByHand = 1
INVARIANTS TypeOK VerdictWithCandidates ReceiptIsRecorded
CHECK_DEADLOCK FALSE

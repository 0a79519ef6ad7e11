SPECIFICATION Spec
CONSTANTS
  Requests = {r1, r2}
  Predictions = {p1, p2}
  Claims <- AllClaims
  Subject <- OneSubject
  HorizonDays = 1
  Cap = 2
  Manual = {m1}
  Attempts = 3
  LastDay = 2
  ByHand = 1
  Faults = 1
  Overlap = "attempts"
INVARIANTS TypeOK OneRowPerEvaluation ClosedStaysClosed RemintedAfterClosing
CHECK_DEADLOCK FALSE
SYMMETRY AnyId

SPECIFICATION Spec
CONSTANTS
  Requests = {r1}
  Predictions = {p1, p2}
  Claims <- AllClaims
  Subject <- OneSubject
  HorizonDays = 1
  Cap = 1
  Manual = {m1}
  Attempts = 3
  LastDay = 3
  ByHand = 0
  Faults = 0
  Overlap = "none"
PROPERTIES SweepsReachLiveCalls
CHECK_DEADLOCK FALSE
SYMMETRY AnyId

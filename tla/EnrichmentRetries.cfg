CONSTANTS
  Trends = {h, t1}
  Passes = {timer}
  Timer = timer
  Hopeless = {h}
  Chains = {c1}
  Sources = {}
  n1 = n1
  n2 = n2
  Names = {n1}
  Outputs <- OneOutput
  None = None
  FirstSlot = 1
  Period = 2
  MaxRetries = 1
  PoolLimit = 2
  MaxIterations = 2
  ByHand = 0
  MaxFailures = 3
SPECIFICATION Spec

PROPERTY EnrichedInTheEnd

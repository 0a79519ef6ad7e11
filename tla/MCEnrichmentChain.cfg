CONSTANTS
  Trends = {t1}
  Passes = {timer, hand}
  Timer = timer
  Hopeless = {}
  Chains = {c1, c2}
  Sources = {gdelt}
  n1 = n1
  n2 = n2
  Names = {n1, n2}
  Outputs <- TwoOutputs
  None = None
  FirstSlot = 1
  Period = 2
  MaxRetries = 1
  PoolLimit = 2
  MaxIterations = 2
  ByHand = 1
  MaxFailures = 2
SPECIFICATION Spec
INVARIANTS TypeOK RetriesBounded IdentityRecorded
PROPERTIES IdentityFrozen CoverageKept

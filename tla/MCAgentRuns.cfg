SPECIFICATION Spec
CONSTANTS
  Scenes <- AllScenes
  Width = 2
  Concurrency = 2
  MaxTurns = 2
  Budget = 1
  MaxCost = 1
  MaxCalls <- TwoOrOne
  Signals = {s1}
  Tiers = {shopify}
INVARIANTS TypeOK AnswersInPlace OneDecisionPerCandidate SilenceMeansHealth
PROPERTY LoopsImplementToolLoop
CHECK_DEADLOCK FALSE

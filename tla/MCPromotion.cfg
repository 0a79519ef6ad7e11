SPECIFICATION Spec
CONSTANTS
  Candidates = {c1, c2, c3}
  Trends = {t1, t2, t3}
  Runs = {r1}
  MaxCandidates = 2
  MaxIterations = 2
  Overlap = FALSE
  NoTrend = NoTrend
  NoCandidate = NoCandidate
INVARIANTS
  TypeOK
  OneTrendPerCandidate
PROPERTIES
  LeadersFirst
  ImplementsOutcome

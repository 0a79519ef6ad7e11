SPECIFICATION Spec
CONSTANTS
  Candidates = {n1}
  Nominations = {n1}
  Trends = {t1, t2}
  Attempts = {a1, a2}
  Overlap = TRUE
  MaxAttempts = 4
  MaxLosses = 0
  NoTrend = NoTrend
  NoCandidate = NoCandidate
INVARIANT OneTrendPerCandidate

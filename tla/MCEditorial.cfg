SPECIFICATION FairSpec
CONSTANTS
  Candidates = {n1, c1}
  Nominations = {n1}
  Trends = {t1, t2, t3}
  Attempts = {a1, a2}
  Overlap = TRUE
  MaxAttempts = 2
  MaxLosses = 1
  NoTrend = NoTrend
  NoCandidate = NoCandidate
INVARIANTS
  TypeOK
  OneTrendUnlessRepeated
  DoneIsPromoted
PROPERTIES
  ImplementsOutcome
  NominationSettles
  RetiredTargetRevived

SPECIFICATION FairSpec
CONSTANTS
  Signals = {s1, s2}
  Sessions = {x1, x2}
  Chains = {y1}
  MinPool = 1
  MaxBatches = 2
  Overlap = TRUE
  NoSession = NoSession
INVARIANTS
  TypeOK
  OneWriterUnlessTogether
PROPERTIES
  ImplementsSignalLife
  OrphansReturn
  ChainDrains
CHECK_DEADLOCK FALSE

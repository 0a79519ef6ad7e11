------------------------- MODULE MCPredictionLedger -------------------------
\* One claim, so that calls share their subject.
EXTENDS PredictionLedger, TLC

AllClaims == {"c1"}
OneSubject == [c \in AllClaims |-> "s"]

AnyId == Permutations(Predictions)
=============================================================================

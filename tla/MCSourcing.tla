----------------------------- MODULE MCSourcing -----------------------------
EXTENDS Sourcing

OneTrend == {1}
TwoTrends == {1, 2}
TwoRequests == {"a", "b"}
OneRequest == {"a"}
=============================================================================

------------------------- MODULE MCEnrichmentChain --------------------------
(* An output with a name, and one without. *)
EXTENDS EnrichmentChain

CONSTANTS n1, n2

TwoOutputs ==
  {[name |-> n1, category |-> "food"], [name |-> None, category |-> "other"]}
OneOutput == {[name |-> n1, category |-> "food"]}
=============================================================================

--------------------------- MODULE MCSignalClaims ---------------------------
(* Two runs that may be live together, beside a chain; two signals, for the   *)
(* runs to share and for two batches of the chain.  An id that is in use by   *)
(* no live run keeps a signal or a candidate, so the ids run out in the end.  *)
EXTENDS SignalClaims
=============================================================================

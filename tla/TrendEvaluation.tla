-------------------------- MODULE TrendEvaluation --------------------------
(***************************************************************************)
(* What the lifecycle job promises about one trend, whatever batches,      *)
(* retries and crashes lie behind it: a batch evaluates a trend at most    *)
(* once, an evaluation takes one step of the two-cycle retirement, and a   *)
(* retired trend is not evaluated again until a nomination revives it.     *)
(***************************************************************************)
CONSTANTS Trends, Batches

VARIABLES
  standing,    \* per trend: active, proposed for retirement, or retired
  evaluatedBy  \* per trend: the batches that have evaluated it

vars == <<standing, evaluatedBy>>

Standing == {"active", "proposed", "retired"}

TypeOK ==
  /\ standing \in [Trends -> Standing]
  /\ evaluatedBy \in [Trends -> SUBSET Batches]

Init ==
  /\ standing \in [Trends -> {"active", "proposed"}]
  /\ evaluatedBy = [t \in Trends |-> {}]

\* The evaluation proposes retirement, or not.
Evaluate(t, b, retire) ==
  /\ standing[t] # "retired"
  /\ b \notin evaluatedBy[t]
  /\ standing' = [standing EXCEPT ![t] =
       IF ~retire THEN "active"
       ELSE IF @ = "proposed" THEN "retired" ELSE "proposed"]
  /\ evaluatedBy' = [evaluatedBy EXCEPT ![t] = @ \cup {b}]

Revive(t) ==
  /\ standing[t] = "retired"
  /\ standing' = [standing EXCEPT ![t] = "active"]
  /\ UNCHANGED evaluatedBy

Next == \E t \in Trends :
  \/ \E b \in Batches, retire \in BOOLEAN : Evaluate(t, b, retire)
  \/ Revive(t)

Spec == Init /\ [][Next]_vars
=============================================================================

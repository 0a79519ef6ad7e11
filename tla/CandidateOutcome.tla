-------------------------- MODULE CandidateOutcome --------------------------
(***************************************************************************)
(* What promotion promises of a trend candidate: it is decided while it is *)
(* pending and only then; a promotion or a rejection is final; a hold ends *)
(* and leaves it pending again; and each trend is minted by one candidate, *)
(* which mints no other.  The exception is a candidate whose decision may  *)
(* be delivered again: it may be promoted anew after its promotion, and    *)
(* then mints more trends than one.  Promotion, which has no such          *)
(* candidates, and Editorial implement it.                                 *)
(***************************************************************************)
CONSTANTS Candidates, Trends, NoTrend, NoCandidate

VARIABLES
  outcome,   \* per candidate
  trendOf,   \* per candidate: the trend it became, or was merged into
  mintedBy,  \* per trend: the candidate it was minted from
  again      \* candidates whose decision may be delivered again

facts == <<outcome, trendOf, mintedBy>>
vars == <<outcome, trendOf, mintedBy, again>>

Init ==
  /\ outcome = [c \in Candidates |-> "pending"]
  /\ trendOf = [c \in Candidates |-> NoTrend]
  /\ mintedBy = [t \in Trends |-> NoCandidate]
  /\ again = {}

Decide(c, result) ==
  /\ outcome[c] = "pending" \/ (c \in again /\ outcome[c] = result)
  /\ outcome' = [outcome EXCEPT ![c] = result]

Mint(c, t) ==
  /\ Decide(c, "promoted")
  /\ \E fresh \in SUBSET {u \in Trends : mintedBy[u] = NoCandidate} :
       /\ t \in fresh
       /\ c \in again \/ fresh = {t}
       /\ mintedBy' = [u \in Trends |-> IF u \in fresh THEN c ELSE mintedBy[u]]
  /\ trendOf' = [trendOf EXCEPT ![c] = t]

Merge(c, t) ==
  /\ Decide(c, "promoted")
  /\ mintedBy[t] # NoCandidate
  /\ trendOf' = [trendOf EXCEPT ![c] = t]
  /\ UNCHANGED mintedBy

Reject(c) == Decide(c, "rejected") /\ UNCHANGED <<trendOf, mintedBy>>

Hold(c) == Decide(c, "held") /\ UNCHANGED <<trendOf, mintedBy>>

HoldEnds(c) ==
  /\ outcome[c] = "held"
  /\ outcome' = [outcome EXCEPT ![c] = "pending"]
  /\ UNCHANGED <<trendOf, mintedBy>>

Next ==
  \E c \in Candidates :
    /\ \/ \E t \in Trends : Mint(c, t) \/ Merge(c, t)
       \/ Reject(c) \/ Hold(c) \/ HoldEnds(c)
       \/ UNCHANGED facts
    /\ again' \in {again, again \cup {c}}

Spec == Init /\ [][Next]_vars
=============================================================================

--------------------------- MODULE PromotionApply ---------------------------
(***************************************************************************)
(* PROC_PROMOTION_APPLY (src/sql/proc_promotion_apply.sql) and the tables  *)
(* it decides over: STG_TREND_CANDIDATES and FCT_TRENDS.  The procedure    *)
(* runs one transaction per decision, so a decision is one action here;    *)
(* Promotion and Editorial call it.  The lifecycle and enrichment rows     *)
(* seeded with a new trend commit with its FCT_TRENDS row and are not kept *)
(* apart from it.                                                          *)
(***************************************************************************)
CONSTANTS
  Candidates,   \* CANDIDATE_IDs
  Trends,       \* TREND_IDs that UUID_STRING() may return
  NoTrend,
  NoCandidate

ASSUME NoTrendAssumption == NoTrend \notin Trends
ASSUME NoCandidateAssumption == NoCandidate \notin Candidates

VARIABLES
  rows,        \* candidates that have a row
  promotedTo,  \* per candidate: PROMOTED_TO, NoTrend while PROMOTED_AT is NULL
  dedupOf,     \* per candidate: DEDUP_OF_TREND_ID as a merge sets it (the guess
               \* distillation may insert decides nothing and is left out)
  rejected,    \* candidates whose REJECTED_AT is set
  deferred,    \* per candidate: DEFERRED_UNTIL: not set, ahead or passed
  origin       \* per trend: CANDIDATE_ID of its FCT_TRENDS row, if it has one

decisions == <<promotedTo, dedupOf, rejected, deferred, origin>>
tables == <<rows, promotedTo, dedupOf, rejected, deferred, origin>>

TableTypes ==
  /\ rows \in SUBSET Candidates
  /\ promotedTo \in [Candidates -> Trends \cup {NoTrend}]
  /\ dedupOf \in [Candidates -> Trends \cup {NoTrend}]
  /\ rejected \in SUBSET Candidates
  /\ deferred \in [Candidates -> {"no", "held", "passed"}]
  /\ origin \in [Trends -> Candidates \cup {NoCandidate}]

Minted == {t \in Trends : origin[t] # NoCandidate}

EmptyTables ==
  /\ rows = {}
  /\ promotedTo = [c \in Candidates |-> NoTrend]
  /\ dedupOf = [c \in Candidates |-> NoTrend]
  /\ rejected = {}
  /\ deferred = [c \in Candidates |-> "no"]
  /\ origin = [t \in Trends |-> NoCandidate]

----------------------------------------------------------------------------
(* The transaction of each decision. *)

\* Mutant: the candidate is not marked.
PromoteNewUnmarked(c) ==
  /\ c \in rows
  /\ \E t \in Trends \ Minted : origin' = [origin EXCEPT ![t] = c]
  /\ UNCHANGED <<promotedTo, dedupOf, rejected, deferred>>

\* A row of FCT_TRENDS is copied from the candidate's, under a fresh id, and
\* the candidate marked.  Nothing looks at what the candidate already is.
PromoteNew(c) ==
  /\ c \in rows
  /\ \E t \in Trends \ Minted :
       /\ origin' = [origin EXCEPT ![t] = c]
       /\ promotedTo' = [promotedTo EXCEPT ![c] = t]
  /\ UNCHANGED <<dedupOf, rejected, deferred>>

\* apply_merge_into_existing.
Merge(c, t) ==
  /\ promotedTo' = [promotedTo EXCEPT ![c] = t]
  /\ dedupOf' = [dedupOf EXCEPT ![c] = t]
  /\ UNCHANGED <<rejected, deferred, origin>>

MergeIntoExisting(c, t) == t \in Minted /\ Merge(c, t)

Reject(c) ==
  /\ rejected' = rejected \cup {c}
  /\ UNCHANGED <<promotedTo, dedupOf, deferred, origin>>

Defer(c) ==
  /\ deferred' = [deferred EXCEPT ![c] = "held"]
  /\ UNCHANGED <<promotedTo, dedupOf, rejected, origin>>

\* A follower shares what its leader has become.  DEFERRED_UNTIL is looked at
\* whether it is ahead or passed; a leader with no row, or no outcome, is an
\* error.
MergeIntoCandidate(c, leader) ==
  /\ leader \in rows
  /\ \/ promotedTo[leader] # NoTrend /\ Merge(c, promotedTo[leader])
     \/ promotedTo[leader] = NoTrend /\ leader \in rejected /\ Reject(c)
     \/ /\ promotedTo[leader] = NoTrend
        /\ leader \notin rejected
        /\ deferred[leader] # "no"
        /\ Defer(c)

\* A decision as the lead agent puts it in the bundle.
DecisionRecord ==
  [candidate : Candidates,
   decision : {"PROMOTE_NEW", "MERGE_INTO_EXISTING", "MERGE_INTO_CANDIDATE",
               "REJECT", "DEFER"},
   target : Trends \cup {NoTrend},
   leader : Candidates \cup {NoCandidate}]

Apply(d) ==
  \/ d.decision = "PROMOTE_NEW" /\ PromoteNew(d.candidate)
  \/ d.decision = "MERGE_INTO_EXISTING" /\ MergeIntoExisting(d.candidate, d.target)
  \/ d.decision = "MERGE_INTO_CANDIDATE" /\ MergeIntoCandidate(d.candidate, d.leader)
  \/ d.decision = "REJECT" /\ Reject(d.candidate)
  \/ d.decision = "DEFER" /\ Defer(d.candidate)

\* Mutant: the decisions are applied in the order the lead agent lists them.
TierUnsorted(d) == 0

\* DECISION_ORDER.
Tier(d) ==
  CASE d.decision = "PROMOTE_NEW" -> 0
    [] d.decision = "MERGE_INTO_CANDIDATE" -> 2
    [] OTHER -> 1

----------------------------------------------------------------------------
(* Properties of the tables. *)

\* "(only one row per candidate)": no candidate is minted as two trends, which
\* the procedure itself does not check.
OneTrendPerCandidate ==
  \A t, u \in Minted : origin[t] = origin[u] => t = u

\* The two tables agree: a promoted candidate was not rejected too and names a
\* trend that exists, and a trend's own candidate names that trend, not one it
\* was merged into as well.
OutcomesAgree ==
  /\ \A c \in Candidates :
       promotedTo[c] # NoTrend => c \notin rejected /\ promotedTo[c] \in Minted
  /\ \A t \in Minted : promotedTo[origin[t]] = t

\* Refinement: what the tables say of a candidate.
OutcomeOf(c) ==
  IF promotedTo[c] # NoTrend THEN "promoted"
  ELSE IF c \in rejected THEN "rejected"
  ELSE IF deferred[c] = "held" THEN "held" ELSE "pending"
=============================================================================

------------------------------ MODULE Promotion ------------------------------
(***************************************************************************)
(* The promotion workflow (src/promotion-p_xMC99jg): a run loads pending   *)
(* candidates, the lead agent decides on them, the stored procedure        *)
(* applies the decisions, and the run may POST itself once more.  It is    *)
(* started by cron every three hours, by that POST, or by hand.            *)
(*                                                                         *)
(* What a language model answers is left open, within the decisions the    *)
(* subagent's propose_decision accepts.                                    *)
(*                                                                         *)
(* Overlap: runs may be live together.  Without it they follow one another *)
(* as the cron makes them: a run's steps end after ten minutes             *)
(* (lambda_timeout), long before the next.                                 *)
(***************************************************************************)
EXTENDS PromotionApply, FiniteSets, Integers

CONSTANTS
  Runs,           \* runs that may be live
  MaxCandidates,  \* max_candidates
  MaxIterations,  \* max_iterations
  Overlap

ASSUME MaxCandidatesAssumption == MaxCandidates \in Nat \ {0}
ASSUME MaxIterationsAssumption == MaxIterations \in Nat \ {0}
ASSUME OverlapAssumption == Overlap \in BOOLEAN
ASSUME CandidatesAssumption == IsFiniteSet(Candidates)

VARIABLES
  pc,         \* per run: the step it runs next
  iteration,  \* per run
  selected,   \* per run: the candidates it loaded
  bundle,     \* per run: decisions not yet applied
  applied     \* per run: candidates whose decision was applied in this iteration

locals == <<iteration, selected, bundle, applied>>
vars == <<rows, promotedTo, dedupOf, rejected, deferred, origin,
          pc, iteration, selected, bundle, applied>>

RunTypes ==
  /\ pc \in [Runs -> {"idle", "load", "decide", "apply", "eval"}]
  /\ iteration \in [Runs -> 1..MaxIterations]
  /\ selected \in [Runs -> SUBSET Candidates]
  /\ bundle \in [Runs -> SUBSET DecisionRecord]
  /\ applied \in [Runs -> SUBSET Candidates]
  /\ \A r \in Runs :
       /\ pc[r] # "decide" => selected[r] = {}
       /\ pc[r] # "apply" => bundle[r] = {}
       /\ applied[r] # {} => pc[r] \in {"apply", "eval"}

TypeOK == TableTypes /\ RunTypes

Init ==
  /\ EmptyTables
  /\ pc = [r \in Runs |-> "idle"]
  /\ iteration = [r \in Runs |-> 1]
  /\ selected = [r \in Runs |-> {}]
  /\ bundle = [r \in Runs |-> {}]
  /\ applied = [r \in Runs |-> {}]

----------------------------------------------------------------------------
(* One run. *)

GoTo(r, step) == pc' = [pc EXCEPT ![r] = step]

\* The run ends, and its memory with it.
Finish(r) ==
  /\ GoTo(r, "idle")
  /\ iteration' = [iteration EXCEPT ![r] = 1]
  /\ selected' = [selected EXCEPT ![r] = {}]
  /\ bundle' = [bundle EXCEPT ![r] = {}]
  /\ applied' = [applied EXCEPT ![r] = {}]

Start(r) ==
  /\ pc[r] = "idle"
  /\ Overlap \/ \A s \in Runs : pc[s] = "idle"
  /\ GoTo(r, "load")
  /\ UNCHANGED <<tables, locals>>

\* Mutant: q_load_pending_candidates without its hold.
PendingForgetsHold(c) ==
  c \in rows /\ promotedTo[c] = NoTrend /\ c \notin rejected

Pending(c) ==
  /\ c \in rows
  /\ promotedTo[c] = NoTrend
  /\ c \notin rejected
  /\ deferred[c] # "held"

\* q_load_pending_candidates and extract_candidate_ids; which candidates come
\* first is left open.
Load(r) ==
  LET pending == {c \in Candidates : Pending(c)} IN
  /\ pc[r] = "load"
  /\ \E picked \in SUBSET pending :
       /\ Cardinality(picked) <= MaxCandidates
       /\ Cardinality(picked) = MaxCandidates \/ picked = pending
       /\ selected' = [selected EXCEPT ![r] = picked]
  /\ GoTo(r, "decide")
  /\ UNCHANGED <<tables, iteration, bundle, applied>>

Decision(c, decision, target, leader) ==
  [candidate |-> c, decision |-> decision, target |-> target, leader |-> leader]

\* What propose_decision accepts; "none" when the subagent call fails.
Answer ==
  {<<d, NoTrend>> : d \in {"none", "PROMOTE_NEW", "REJECT", "DEFER"}}
  \cup {<<"MERGE_INTO_EXISTING", t>> : t \in Minted}

\* classifyCandidate gates some candidates; buildClusters gives each of the
\* others its cluster's leader, itself when it leads.
Clustering(survivors) ==
  {lead \in [survivors -> survivors] : \A c \in survivors : lead[lead[c]] = lead[c]}

Bundle(gated, lead, answer) ==
  {Decision(c, "REJECT", NoTrend, NoCandidate) : c \in gated}
  \cup {Decision(c, "MERGE_INTO_CANDIDATE", NoTrend, lead[c]) :
          c \in {f \in DOMAIN lead : lead[f] # f}}
  \cup {Decision(c, answer[c][1], answer[c][2], NoCandidate) :
          c \in {l \in DOMAIN lead : lead[l] = l /\ answer[l][1] # "none"}}

\* run_lead_agent; the bundle of a dry run is empty.
Decide(r) ==
  /\ pc[r] = "decide"
  /\ \/ \E gated \in SUBSET selected[r] :
          \E lead \in Clustering(selected[r] \ gated) :
            \E answer \in [selected[r] \ gated -> Answer] :
              bundle' = [bundle EXCEPT ![r] = Bundle(gated, lead, answer)]
     \/ UNCHANGED bundle
  /\ GoTo(r, "apply")
  /\ selected' = [selected EXCEPT ![r] = {}]
  /\ UNCHANGED <<tables, iteration, applied>>

\* The procedure's loop: DECISIONS.sort, then one transaction per decision.
IsNext(r, d) ==
  /\ pc[r] = "apply"
  /\ d \in bundle[r]
  /\ \A e \in bundle[r] : Tier(d) <= Tier(e)

ApplyDecision(r, d) ==
  /\ IsNext(r, d)
  /\ Apply(d)
  /\ bundle' = [bundle EXCEPT ![r] = @ \ {d}]
  /\ applied' = [applied EXCEPT ![r] = @ \cup {d.candidate}]
  /\ UNCHANGED <<rows, pc, iteration, selected>>

\* A decision outside the allow-list, or ROLLBACK after any error.
FailDecision(r, d) ==
  /\ IsNext(r, d)
  /\ bundle' = [bundle EXCEPT ![r] = @ \ {d}]
  /\ UNCHANGED <<tables, pc, iteration, selected, applied>>

ProcReturns(r) ==
  /\ pc[r] = "apply"
  /\ bundle[r] = {}
  /\ GoTo(r, "eval")
  /\ UNCHANGED <<tables, locals>>

\* eval_and_retrigger: the chain goes on while an iteration applies something,
\* unless the budget is spent or the POST is lost.
Retrigger(r) ==
  /\ pc[r] = "eval"
  /\ iteration[r] < MaxIterations
  /\ applied[r] # {}
  /\ iteration' = [iteration EXCEPT ![r] = @ + 1]
  /\ applied' = [applied EXCEPT ![r] = {}]
  /\ GoTo(r, "load")
  /\ UNCHANGED <<tables, selected, bundle>>

Stop(r) == pc[r] = "eval" /\ Finish(r) /\ UNCHANGED tables

\* Mutant: what a run that failed had still to apply is left to the next.
CrashKeepsBundle(r) ==
  /\ pc[r] # "idle"
  /\ GoTo(r, "idle")
  /\ UNCHANGED <<tables, locals>>

\* A step or the procedure call fails; what it committed stays.
Crash(r) == pc[r] # "idle" /\ Finish(r) /\ UNCHANGED tables

----------------------------------------------------------------------------
(* Distillation's inserts, and time. *)

NewCandidate(c) ==
  /\ c \notin rows
  /\ rows' = rows \cup {c}
  /\ UNCHANGED <<decisions, pc, locals>>

\* 48 hours have passed since the deferral: not within the run that made it.
HoldPasses(c) ==
  /\ deferred[c] = "held"
  /\ \A r \in Runs : c \notin applied[r]
  /\ deferred' = [deferred EXCEPT ![c] = "passed"]
  /\ UNCHANGED <<rows, promotedTo, dedupOf, rejected, origin, pc, locals>>

Next ==
  \/ \E r \in Runs :
       \/ Start(r) \/ Load(r) \/ Decide(r) \/ ProcReturns(r)
       \/ Retrigger(r) \/ Stop(r) \/ Crash(r)
       \/ \E d \in bundle[r] : ApplyDecision(r, d) \/ FailDecision(r, d)
  \/ \E c \in Candidates : NewCandidate(c) \/ HoldPasses(c)

Spec == Init /\ [][Next]_vars

----------------------------------------------------------------------------
(* Properties. *)

Abstract == INSTANCE CandidateOutcome WITH
  outcome <- [c \in Candidates |-> OutcomeOf(c)],
  trendOf <- promotedTo,
  mintedBy <- origin,
  again <- {}

\* Candidates are decided as CandidateOutcome promises, each decision once.
ImplementsOutcome == Abstract!Spec

\* A follower is decided after its leader: whatever the bundle holds, and in
\* whatever order, no decision on a leader is left when a follower's is taken.
LeadersFirst ==
  [][\A r \in Runs : \A d \in bundle[r] \ bundle'[r] :
       d.decision = "MERGE_INTO_CANDIDATE" /\ pc'[r] = "apply" =>
         \A e \in bundle[r] : e.candidate # d.leader]_vars

----------------------------------------------------------------------------
(* Invariant behind LeadersFirst: no leader is a follower in the same bundle. *)

LeadersLead ==
  \A r \in Runs : \A d, e \in bundle[r] :
    d.decision = "MERGE_INTO_CANDIDATE" /\ e.candidate = d.leader
      => e.decision # "MERGE_INTO_CANDIDATE"

(* Inductive invariant of runs that follow one another (~Overlap). *)

\* A run holds candidates that are pending, with one decision on each.
Knows(r) ==
  /\ \A c \in selected[r] : Pending(c)
  /\ \A d \in bundle[r] : Pending(d.candidate)
  /\ \A d, e \in bundle[r] : d.candidate = e.candidate => d = e

SerialInv ==
  /\ OneTrendPerCandidate
  /\ OutcomesAgree
  /\ \A r, s \in Runs : pc[r] # "idle" /\ pc[s] # "idle" => r = s
  /\ \A r \in Runs : Knows(r)
=============================================================================

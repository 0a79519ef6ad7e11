-------------------------- MODULE Promotion_proofs --------------------------
(***************************************************************************)
(* Theorems about the promotion workflow, for any candidates, trends, runs *)
(* and limits.  Type correctness holds of overlapping runs too; the rest   *)
(* needs runs that follow one another.                                     *)
(***************************************************************************)
EXTENDS Promotion, TLAPS

----------------------------------------------------------------------------
(* What a transaction of the procedure preserves. *)

\* The change a committed decision on c makes to the tables.
Effect(c) ==
  \/ PromoteNew(c)
  \/ \E t \in Minted : Merge(c, t)
  \/ Reject(c)
  \/ Defer(c)

Undecided(c) == promotedTo[c] = NoTrend /\ c \notin rejected

TablesInv == TableTypes /\ OneTrendPerCandidate /\ OutcomesAgree

\* Whatever the decision says, what it does is one of the four effects.
LEMMA ApplyIsEffect ==
  ASSUME NEW d \in DecisionRecord, TablesInv, Apply(d)
  PROVE Effect(d.candidate)
<1> USE DEF TablesInv, TableTypes
<1>1. CASE d.decision = "PROMOTE_NEW" /\ PromoteNew(d.candidate)
  BY <1>1 DEF Effect
<1>2. CASE d.decision = "MERGE_INTO_EXISTING" /\ MergeIntoExisting(d.candidate, d.target)
  BY <1>2 DEF Effect, MergeIntoExisting
<1>3. CASE d.decision = "MERGE_INTO_CANDIDATE" /\ MergeIntoCandidate(d.candidate, d.leader)
  <2>1. d.leader \in Candidates
    BY <1>3 DEF MergeIntoCandidate
  <2>2. promotedTo[d.leader] # NoTrend => promotedTo[d.leader] \in Minted
    BY <2>1 DEF OutcomesAgree
  <2> QED
    BY <1>3, <2>2 DEF MergeIntoCandidate, Effect
<1>4. CASE d.decision = "REJECT" /\ Reject(d.candidate)
  BY <1>4 DEF Effect
<1>5. CASE d.decision = "DEFER" /\ Defer(d.candidate)
  BY <1>5 DEF Effect
<1> QED
  BY <1>1, <1>2, <1>3, <1>4, <1>5 DEF Apply

\* Every effect keeps the types.
LEMMA EffectTypes ==
  ASSUME NEW c \in Candidates, TableTypes, Effect(c), rows' \in SUBSET Candidates
  PROVE TableTypes'
BY DEF TableTypes, Effect, PromoteNew, Merge, Reject, Defer, Minted

\* An effect on an undecided candidate keeps the two tables in agreement.
LEMMA EffectAgrees ==
  ASSUME NEW c \in Candidates, TablesInv, Effect(c), Undecided(c)
  PROVE OneTrendPerCandidate' /\ OutcomesAgree'
<1> USE DEF TablesInv
<1>0. \A t \in Minted : origin[t] \in Candidates /\ origin[t] # c
  BY NoTrendAssumption DEF TableTypes, Minted, OutcomesAgree, Undecided
<1>1. CASE PromoteNew(c)
  <2>1. PICK t \in Trends \ Minted :
          /\ origin' = [origin EXCEPT ![t] = c]
          /\ promotedTo' = [promotedTo EXCEPT ![c] = t]
    BY <1>1 DEF PromoteNew
  <2>2. Minted' = Minted \cup {t}
    BY <2>1, NoCandidateAssumption DEF Minted, TableTypes
  <2>3. rejected' = rejected
    BY <1>1 DEF PromoteNew
  <2>4. OneTrendPerCandidate'
    BY <1>0, <2>1, <2>2 DEF OneTrendPerCandidate, TableTypes, Minted
  <2>5. \A b \in Candidates :
          promotedTo'[b] # NoTrend => b \notin rejected' /\ promotedTo'[b] \in Minted'
    BY <2>1, <2>2, <2>3 DEF OutcomesAgree, TableTypes, Undecided
  <2>6. \A u \in Minted' : promotedTo'[origin'[u]] = u
    BY <1>0, <2>1, <2>2 DEF OutcomesAgree, TableTypes, Minted
  <2> QED
    BY <2>4, <2>5, <2>6 DEF OutcomesAgree
<1>2. CASE \E t \in Minted : Merge(c, t)
  <2>1. PICK t \in Minted : Merge(c, t)
    BY <1>2
  <2>2. Minted' = Minted /\ origin' = origin /\ rejected' = rejected
    BY <2>1 DEF Merge, Minted
  <2>3. promotedTo' = [promotedTo EXCEPT ![c] = t]
    BY <2>1 DEF Merge
  <2>4. OneTrendPerCandidate'
    BY <2>2 DEF OneTrendPerCandidate
  <2>5. OutcomesAgree'
    BY <1>0, <2>2, <2>3 DEF OutcomesAgree, TableTypes, Undecided
  <2> QED
    BY <2>4, <2>5
<1>3. CASE Reject(c) \/ Defer(c)
  <2>1. Minted' = Minted /\ origin' = origin /\ promotedTo' = promotedTo
    BY <1>3 DEF Reject, Defer, Minted
  <2>2. rejected' \subseteq rejected \cup {c}
    BY <1>3 DEF Reject, Defer
  <2> QED
    BY <2>1, <2>2 DEF OneTrendPerCandidate, OutcomesAgree, Undecided
<1> QED
  BY <1>1, <1>2, <1>3 DEF Effect

\* Only the candidate it is about changes.
LEMMA EffectElsewhere ==
  ASSUME NEW c \in Candidates, TableTypes, Effect(c), NEW b \in Candidates, b # c
  PROVE /\ promotedTo'[b] = promotedTo[b]
        /\ deferred'[b] = deferred[b]
        /\ b \in rejected' <=> b \in rejected
BY DEF TableTypes, Effect, PromoteNew, Merge, Reject, Defer

\* An effect on a pending candidate is a step of CandidateOutcome.
LEMMA EffectImplements ==
  ASSUME NEW c \in Candidates, TablesInv, Effect(c), Undecided(c), deferred[c] # "held"
  PROVE Abstract!Next
<1> USE DEF TablesInv
<1> DEFINE before == [b \in Candidates |-> OutcomeOf(b)]
           After(result) == [before EXCEPT ![c] = result]
<1>0. before[c] = "pending"
  BY DEF OutcomeOf, Undecided
<1>1. ASSUME NEW result, OutcomeOf(c)' = result
      PROVE [b \in Candidates |-> OutcomeOf(b)'] = After(result)
  <2>1. \A b \in Candidates : b # c => OutcomeOf(b)' = OutcomeOf(b)
    BY EffectElsewhere DEF OutcomeOf
  <2> QED
    BY <2>1, <1>1
<1>2. CASE PromoteNew(c)
  <2>1. PICK t \in Trends \ Minted :
          /\ origin' = [origin EXCEPT ![t] = c]
          /\ promotedTo' = [promotedTo EXCEPT ![c] = t]
    BY <1>2 DEF PromoteNew
  <2>2. OutcomeOf(c)' = "promoted"
    BY <2>1, NoTrendAssumption DEF OutcomeOf, TableTypes
  <2>3. t \in {u \in Trends : origin[u] = NoCandidate}
    BY <2>1 DEF Minted
  <2>4. origin' = [u \in Trends |-> IF u \in {t} THEN c ELSE origin[u]]
    BY <2>1 DEF TableTypes
  <2>5. Abstract!Decide(c, "promoted")
    BY <1>0, <1>1, <2>2 DEF Abstract!Decide
  <2>6. Abstract!Mint(c, t)
    BY <2>1, <2>3, <2>4, <2>5 DEF Abstract!Mint
  <2> QED
    BY <2>3, <2>6 DEF Abstract!Next
<1>3. CASE \E t \in Minted : Merge(c, t)
  <2>1. PICK t \in Minted : Merge(c, t)
    BY <1>3
  <2>2. OutcomeOf(c)' = "promoted"
    BY <2>1, NoTrendAssumption DEF Merge, OutcomeOf, TableTypes, Minted
  <2>3. Abstract!Merge(c, t)
    BY <1>0, <1>1, <2>1, <2>2 DEF Merge, Abstract!Merge, Abstract!Decide, Minted
  <2> QED
    BY <2>1, <2>3 DEF Abstract!Next, Minted
<1>4. CASE Reject(c)
  <2>1. OutcomeOf(c)' = "rejected"
    BY <1>4 DEF Reject, OutcomeOf, Undecided
  <2>2. Abstract!Reject(c)
    BY <1>0, <1>1, <1>4, <2>1 DEF Reject, Abstract!Reject, Abstract!Decide
  <2> QED
    BY <2>2 DEF Abstract!Next
<1>5. CASE Defer(c)
  <2>1. OutcomeOf(c)' = "held"
    BY <1>5 DEF Defer, OutcomeOf, Undecided, TableTypes
  <2>2. Abstract!Hold(c)
    BY <1>0, <1>1, <1>5, <2>1 DEF Defer, Abstract!Hold, Abstract!Decide
  <2> QED
    BY <2>2 DEF Abstract!Next
<1> QED
  BY <1>2, <1>3, <1>4, <1>5 DEF Effect

\* Empty tables are the initial state of CandidateOutcome.
LEMMA EmptyImplements ==
  ASSUME EmptyTables
  PROVE TablesInv /\ Abstract!Init
<1>1. TableTypes /\ Minted = {}
  BY DEF EmptyTables, TableTypes, Minted
<1>2. OneTrendPerCandidate /\ OutcomesAgree
  BY <1>1 DEF EmptyTables, OneTrendPerCandidate, OutcomesAgree
<1>3. Abstract!Init
  BY DEF EmptyTables, Abstract!Init, OutcomeOf
<1> QED
  BY <1>1, <1>2, <1>3 DEF TablesInv

----------------------------------------------------------------------------
(* Types. *)

\* Every run starts idle, over empty tables.
LEMMA InitTypes == Init => TypeOK
BY MaxIterationsAssumption
   DEF Init, EmptyTables, TypeOK, TableTypes, RunTypes, DecisionRecord

\* Ending a run keeps the types.
LEMMA FinishTypes ==
  ASSUME NEW r \in Runs, TypeOK, Finish(r), UNCHANGED tables
  PROVE TypeOK'
BY MaxIterationsAssumption DEF TypeOK, TableTypes, RunTypes, Finish, GoTo, tables

\* The lead agent's bundle is made of decision records.
LEMMA BundleType ==
  ASSUME NEW S \in SUBSET Candidates, NEW gated \in SUBSET S,
         NEW lead \in Clustering(S \ gated), NEW answer \in [S \ gated -> Answer]
  PROVE Bundle(gated, lead, answer) \in SUBSET DecisionRecord
<1>1. \A c \in S \ gated :
        answer[c][1] # "none" =>
          Decision(c, answer[c][1], answer[c][2], NoCandidate) \in DecisionRecord
  <2> SUFFICES ASSUME NEW c \in S \ gated, answer[c][1] # "none"
               PROVE Decision(c, answer[c][1], answer[c][2], NoCandidate) \in DecisionRecord
    OBVIOUS
  <2>1. answer[c] \in Answer
    OBVIOUS
  <2>2. CASE \E d \in {"none", "PROMOTE_NEW", "REJECT", "DEFER"} : answer[c] = <<d, NoTrend>>
    BY <2>2 DEF Decision, DecisionRecord
  <2>3. CASE \E t \in Minted : answer[c] = <<"MERGE_INTO_EXISTING", t>>
    BY <2>3 DEF Decision, DecisionRecord, Minted
  <2> QED
    BY <2>1, <2>2, <2>3 DEF Answer
<1>2. lead \in [S \ gated -> S \ gated]
  BY DEF Clustering
<1> QED
  BY <1>1, <1>2 DEF Bundle, Decision, DecisionRecord

\* A run's steps keep the types.
LEMMA RunStepTypes ==
  ASSUME TypeOK, NEW r \in Runs,
         Start(r) \/ Load(r) \/ Decide(r) \/ ProcReturns(r) \/ Retrigger(r) \/ Stop(r) \/ Crash(r)
  PROVE TypeOK'
<1> USE DEF TypeOK, TableTypes, RunTypes
<1>1. CASE Start(r)
  BY <1>1 DEF Start, GoTo, tables, locals
<1>2. CASE Load(r)
  BY <1>2 DEF Load, GoTo, tables
<1>3. CASE Decide(r)
  <2>1. bundle' = bundle \/ \E B \in SUBSET DecisionRecord : bundle' = [bundle EXCEPT ![r] = B]
    BY <1>3, BundleType DEF Decide
  <2> QED
    BY <1>3, <2>1 DEF Decide, GoTo, tables
<1>4. CASE ProcReturns(r)
  BY <1>4 DEF ProcReturns, GoTo, tables, locals
<1>5. CASE Retrigger(r)
  BY <1>5, MaxIterationsAssumption DEF Retrigger, GoTo, tables
<1>6. CASE Stop(r) \/ Crash(r)
  BY <1>6, FinishTypes DEF Stop, Crash
<1> QED
  BY <1>1, <1>2, <1>3, <1>4, <1>5, <1>6

\* So does the procedure, whatever the outcome of a decision.
LEMMA ProcedureTypes ==
  ASSUME TypeOK, NEW r \in Runs, NEW d \in bundle[r], ApplyDecision(r, d) \/ FailDecision(r, d)
  PROVE TypeOK'
<1> USE DEF TypeOK, RunTypes
<1>0. d \in DecisionRecord /\ d.candidate \in Candidates /\ pc[r] = "apply"
  BY DEF DecisionRecord, ApplyDecision, FailDecision, IsNext
<1>1. CASE ApplyDecision(r, d)
  <2>1. TableTypes'
    BY <1>0, <1>1 DEF ApplyDecision, Apply, PromoteNew, MergeIntoExisting, MergeIntoCandidate,
                      Merge, Reject, Defer, Minted, TableTypes, DecisionRecord
  <2> QED
    BY <1>0, <1>1, <2>1 DEF ApplyDecision
<1>2. CASE FailDecision(r, d)
  BY <1>0, <1>2 DEF FailDecision, tables, TableTypes
<1> QED
  BY <1>1, <1>2

\* And so do distillation and the passing of time.
LEMMA WorldTypes ==
  ASSUME TypeOK, NEW c \in Candidates, NewCandidate(c) \/ HoldPasses(c)
  PROVE TypeOK'
BY DEF TypeOK, TableTypes, RunTypes, NewCandidate, HoldPasses, decisions, locals

\* Type correctness, with or without overlapping runs: decisions exist only
\* between the lead agent and the procedure's return.
THEOREM TypeCorrect == Spec => []TypeOK
<1>1. TypeOK /\ [Next]_vars => TypeOK'
  <2> SUFFICES ASSUME TypeOK, [Next]_vars
               PROVE TypeOK'
    OBVIOUS
  <2>1. CASE Next
    BY <2>1, RunStepTypes, ProcedureTypes, WorldTypes DEF Next
  <2>2. CASE UNCHANGED vars
    BY <2>2 DEF vars, TypeOK, TableTypes, RunTypes
  <2> QED
    BY <2>1, <2>2
<1> QED
  BY <1>1, InitTypes, PTL DEF Spec

----------------------------------------------------------------------------
(* The inductive invariant. *)

\* In the initial state no run holds anything.
LEMMA InitSerial == Init => SerialInv
<1> SUFFICES ASSUME Init
             PROVE SerialInv
  OBVIOUS
<1>1. OneTrendPerCandidate /\ OutcomesAgree
  BY EmptyImplements DEF Init, TablesInv
<1> QED
  BY <1>1 DEF Init, SerialInv, Knows

\* With one run live, every other run is idle and holds nothing.
LEMMA OthersIdle ==
  ASSUME TypeOK, SerialInv, NEW r \in Runs, pc[r] # "idle", NEW s \in Runs, s # r
  PROVE pc[s] = "idle" /\ selected[s] = {} /\ bundle[s] = {}
BY DEF TypeOK, RunTypes, SerialInv

\* The lead agent takes one decision on each candidate it was given.
LEMMA BundleKnows ==
  ASSUME NEW S, NEW gated \in SUBSET S, NEW lead \in Clustering(S \ gated),
         NEW answer \in [S \ gated -> Answer]
  PROVE /\ \A d \in Bundle(gated, lead, answer) : d.candidate \in S
        /\ \A d, e \in Bundle(gated, lead, answer) : d.candidate = e.candidate => d = e
<1>1. DOMAIN lead = S \ gated
  BY DEF Clustering
<1> QED
  BY <1>1 DEF Bundle, Decision

\* Runs that do not touch the tables keep the invariant.
LEMMA RunStepSerial ==
  ASSUME ~Overlap, TypeOK, SerialInv, NEW r \in Runs,
         Start(r) \/ Load(r) \/ Decide(r) \/ ProcReturns(r) \/ Retrigger(r) \/ Stop(r) \/ Crash(r)
  PROVE SerialInv'
<1>1. UNCHANGED tables
  BY DEF Start, Load, Decide, ProcReturns, Retrigger, Stop, Crash
<1>2. /\ OneTrendPerCandidate' /\ OutcomesAgree'
      /\ \A c \in Candidates : Pending(c)' <=> Pending(c)
  BY <1>1 DEF SerialInv, tables, OneTrendPerCandidate, OutcomesAgree, Minted, Pending
<1>3. \A s \in Runs : s # r =>
        /\ pc[s] = "idle" /\ pc'[s] = "idle"
        /\ selected'[s] = {} /\ bundle'[s] = {}
  <2> SUFFICES ASSUME NEW s \in Runs, s # r
               PROVE /\ pc[s] = "idle" /\ pc'[s] = "idle"
                     /\ selected'[s] = {} /\ bundle'[s] = {}
    OBVIOUS
  <2>1. pc[s] = "idle" /\ selected[s] = {} /\ bundle[s] = {}
    BY OthersIdle DEF Start, Load, Decide, ProcReturns, Retrigger, Stop, Crash,
                      SerialInv, TypeOK, RunTypes
  <2> QED
    BY <2>1 DEF Start, Load, Decide, ProcReturns, Retrigger, Stop, Crash, Finish, GoTo,
                locals, TypeOK, RunTypes
<1>4. /\ selected'[r] \subseteq Candidates /\ \A c \in selected'[r] : Pending(c)
      /\ \A d \in bundle'[r] : d.candidate \in Candidates /\ Pending(d.candidate)
      /\ \A d, e \in bundle'[r] : d.candidate = e.candidate => d = e
  <2> USE DEF TypeOK, RunTypes, SerialInv, Knows, GoTo, locals
  <2>0. bundle[r] \subseteq DecisionRecord /\ \A d \in bundle[r] : d.candidate \in Candidates
    BY DEF DecisionRecord
  <2>1. CASE Start(r)
    BY <2>0, <2>1 DEF Start
  <2>2. CASE Load(r)
    BY <2>0, <2>2 DEF Load
  <2>3. CASE Decide(r)
    <3>1. bundle[r] = {}
      BY <2>3 DEF Decide
    <3>2. /\ \A d \in bundle'[r] : d.candidate \in selected[r]
          /\ \A d, e \in bundle'[r] : d.candidate = e.candidate => d = e
      <4>1. CASE UNCHANGED bundle
        BY <3>1, <4>1
      <4>2. CASE ~ UNCHANGED bundle
        <5>1. PICK gated \in SUBSET selected[r] : \E lead \in Clustering(selected[r] \ gated) :
                \E answer \in [selected[r] \ gated -> Answer] :
                  bundle' = [bundle EXCEPT ![r] = Bundle(gated, lead, answer)]
          BY <2>3, <4>2 DEF Decide
        <5>2. PICK lead \in Clustering(selected[r] \ gated) :
                \E answer \in [selected[r] \ gated -> Answer] :
                  bundle' = [bundle EXCEPT ![r] = Bundle(gated, lead, answer)]
          BY <5>1
        <5>3. PICK answer \in [selected[r] \ gated -> Answer] :
                bundle' = [bundle EXCEPT ![r] = Bundle(gated, lead, answer)]
          BY <5>2
        <5>4. bundle'[r] = Bundle(gated, lead, answer)
          BY <5>3
        <5>5. /\ \A d \in Bundle(gated, lead, answer) : d.candidate \in selected[r]
              /\ \A d, e \in Bundle(gated, lead, answer) : d.candidate = e.candidate => d = e
          <6> HIDE DEF TypeOK, RunTypes, SerialInv, Knows, GoTo, locals
          <6> QED
            BY BundleKnows
        <5> QED
          BY <5>4, <5>5
      <4> QED
        BY <4>1, <4>2
    <3> QED
      BY <2>3, <3>2 DEF Decide
  <2>4. CASE ProcReturns(r) \/ Retrigger(r)
    BY <2>0, <2>4 DEF ProcReturns, Retrigger
  <2>5. CASE Stop(r) \/ Crash(r)
    BY <2>5 DEF Stop, Crash, Finish
  <2> QED
    BY <2>1, <2>2, <2>3, <2>4, <2>5
<1>5. \A s \in Runs : Knows(s)'
  BY <1>2, <1>3, <1>4 DEF Knows
<1> QED
  BY <1>2, <1>3, <1>4, <1>5 DEF SerialInv

\* The procedure takes a decision on a pending candidate, and the candidates of
\* the decisions left stay pending.
LEMMA ProcedureSerial ==
  ASSUME TypeOK, SerialInv, NEW r \in Runs, NEW d \in bundle[r],
         ApplyDecision(r, d) \/ FailDecision(r, d)
  PROVE SerialInv'
<1>0. /\ d \in DecisionRecord /\ d.candidate \in Candidates /\ Pending(d.candidate)
      /\ pc[r] = "apply" /\ UNCHANGED <<rows, pc, selected>>
      /\ bundle' = [bundle EXCEPT ![r] = @ \ {d}]
  BY DEF DecisionRecord, ApplyDecision, FailDecision, IsNext, TypeOK, RunTypes, SerialInv,
         Knows, tables
<1>1. /\ OneTrendPerCandidate' /\ OutcomesAgree'
      /\ \A c \in Candidates : c # d.candidate => (Pending(c) => Pending(c)')
  <2>1. CASE ApplyDecision(r, d)
    <3>1. TablesInv /\ Effect(d.candidate) /\ Undecided(d.candidate)
      BY <1>0, <2>1, ApplyIsEffect DEF TypeOK, SerialInv, TablesInv, ApplyDecision, Pending, Undecided
    <3>2. OneTrendPerCandidate' /\ OutcomesAgree'
      BY <1>0, <3>1, EffectAgrees
    <3>3. \A c \in Candidates : c # d.candidate => (Pending(c) => Pending(c)')
      BY <1>0, <3>1, EffectElsewhere DEF TablesInv, Pending
    <3> QED
      BY <3>2, <3>3
  <2>2. CASE FailDecision(r, d)
    BY <2>2 DEF FailDecision, tables, SerialInv, OneTrendPerCandidate, OutcomesAgree, Minted, Pending
  <2> QED
    BY <2>1, <2>2
<1>2. bundle'[r] = bundle[r] \ {d}
  BY <1>0 DEF TypeOK, RunTypes
<1>3. Knows(r)'
  <2>1. \A e \in bundle'[r] : e.candidate \in Candidates /\ Pending(e.candidate)'
    BY <1>0, <1>1, <1>2 DEF SerialInv, Knows, TypeOK, RunTypes, DecisionRecord
  <2>2. selected'[r] = {}
    BY <1>0 DEF TypeOK, RunTypes
  <2> QED
    BY <1>2, <2>1, <2>2 DEF SerialInv, Knows
<1>4. \A s \in Runs : s # r => Knows(s)'
  BY <1>0, OthersIdle DEF Knows, TypeOK, RunTypes
<1> QED
  BY <1>0, <1>1, <1>3, <1>4 DEF SerialInv

\* A new candidate and an elapsed hold only add pending candidates.
LEMMA WorldSerial ==
  ASSUME TypeOK, SerialInv, NEW c \in Candidates, NewCandidate(c) \/ HoldPasses(c)
  PROVE SerialInv'
<1>1. /\ UNCHANGED <<promotedTo, rejected, origin, pc, locals>>
      /\ \A b \in Candidates : Pending(b) => Pending(b)'
  BY DEF NewCandidate, HoldPasses, decisions, Pending, TypeOK, TableTypes
<1>2. OneTrendPerCandidate' /\ OutcomesAgree'
  BY <1>1 DEF SerialInv, OneTrendPerCandidate, OutcomesAgree, Minted
<1>3. \A r \in Runs : Knows(r)'
  BY <1>1 DEF SerialInv, Knows, locals, TypeOK, RunTypes, DecisionRecord
<1> QED
  BY <1>1, <1>2, <1>3 DEF SerialInv

\* Runs that follow one another decide pending candidates only, once each.
THEOREM SerialCorrect == ASSUME ~Overlap PROVE Spec => []SerialInv
<1>1. TypeOK /\ SerialInv /\ [Next]_vars => SerialInv'
  <2> SUFFICES ASSUME TypeOK, SerialInv, [Next]_vars
               PROVE SerialInv'
    OBVIOUS
  <2>1. CASE Next
    BY <2>1, RunStepSerial, ProcedureSerial, WorldSerial DEF Next
  <2>2. CASE UNCHANGED vars
    BY <2>2 DEF vars, SerialInv, Knows, OneTrendPerCandidate, OutcomesAgree, Minted, Pending
  <2> QED
    BY <2>1, <2>2
<1> QED
  BY <1>1, InitSerial, TypeCorrect, PTL DEF Spec

\* "only one row per candidate", which no statement of the procedure checks,
\* because no run decides on a candidate that was decided before.
COROLLARY OneTrendCorrect == ASSUME ~Overlap PROVE Spec => []OneTrendPerCandidate
<1>1. SerialInv => OneTrendPerCandidate
  BY DEF SerialInv
<1> QED
  BY <1>1, SerialCorrect, PTL

\* The candidate table and FCT_TRENDS never disagree about an outcome.
COROLLARY OutcomesAgreeCorrect == ASSUME ~Overlap PROVE Spec => []OutcomesAgree
<1>1. SerialInv => OutcomesAgree
  BY DEF SerialInv
<1> QED
  BY <1>1, SerialCorrect, PTL

----------------------------------------------------------------------------
(* Refinement. *)

\* A hold that elapses is a step of CandidateOutcome, or of no interest to it.
LEMMA HoldImplements ==
  ASSUME TypeOK, NEW c \in Candidates, HoldPasses(c)
  PROVE [Abstract!Next]_(Abstract!vars)
<1> DEFINE before == [b \in Candidates |-> OutcomeOf(b)]
<1>1. \A b \in Candidates : b # c => OutcomeOf(b)' = OutcomeOf(b)
  BY DEF HoldPasses, OutcomeOf, TypeOK, TableTypes
<1>2. CASE OutcomeOf(c) = "held"
  <2>1. OutcomeOf(c)' = "pending"
    BY <1>2 DEF HoldPasses, OutcomeOf, TypeOK, TableTypes
  <2>2. [b \in Candidates |-> OutcomeOf(b)'] = [before EXCEPT ![c] = "pending"]
    BY <1>1, <2>1
  <2>3. Abstract!HoldEnds(c)
    BY <1>2, <2>2 DEF Abstract!HoldEnds, HoldPasses
  <2> QED
    BY <2>3 DEF Abstract!Next
<1>3. CASE OutcomeOf(c) # "held"
  <2>1. OutcomeOf(c)' = OutcomeOf(c)
    BY <1>3 DEF HoldPasses, OutcomeOf, TypeOK, TableTypes
  <2>2. [b \in Candidates |-> OutcomeOf(b)'] = before
    BY <1>1, <2>1
  <2> QED
    BY <2>2 DEF Abstract!vars, HoldPasses
<1> QED
  BY <1>2, <1>3

\* Promotion decides candidates as CandidateOutcome promises: each while it is
\* pending, finally, and with one trend at most.
THEOREM Implementation == ASSUME ~Overlap PROVE Spec => ImplementsOutcome
<1>1. Init => Abstract!Init
  BY EmptyImplements DEF Init
<1>2. TypeOK /\ SerialInv /\ [Next]_vars => [Abstract!Next]_(Abstract!vars)
  <2> SUFFICES ASSUME TypeOK, SerialInv, [Next]_vars
               PROVE [Abstract!Next]_(Abstract!vars)
    OBVIOUS
  <2>1. ASSUME UNCHANGED decisions
        PROVE UNCHANGED Abstract!vars
    BY <2>1 DEF decisions, Abstract!vars, OutcomeOf
  <2>2. ASSUME NEW r \in Runs, NEW d \in bundle[r], ApplyDecision(r, d)
        PROVE Abstract!Next
    <3>1. d \in DecisionRecord /\ d.candidate \in Candidates /\ Pending(d.candidate)
      BY DEF DecisionRecord, TypeOK, RunTypes, SerialInv, Knows
    <3>2. TablesInv /\ Effect(d.candidate)
      BY <2>2, <3>1, ApplyIsEffect DEF TypeOK, SerialInv, TablesInv, ApplyDecision
    <3> QED
      BY <3>1, <3>2, EffectImplements DEF Pending, Undecided
  <2>3. ASSUME NEW r \in Runs,
               Start(r) \/ Load(r) \/ Decide(r) \/ ProcReturns(r) \/ Retrigger(r)
                 \/ Stop(r) \/ Crash(r) \/ \E d \in bundle[r] : FailDecision(r, d)
        PROVE UNCHANGED decisions
    BY <2>3 DEF Start, Load, Decide, ProcReturns, Retrigger, Stop, Crash, FailDecision,
                tables, decisions
  <2>4. CASE Next
    <3>1. CASE \E c \in Candidates : NewCandidate(c)
      BY <2>1, <3>1 DEF NewCandidate
    <3>2. CASE \E c \in Candidates : HoldPasses(c)
      BY <3>2, HoldImplements
    <3> QED
      BY <2>1, <2>2, <2>3, <2>4, <3>1, <3>2 DEF Next
  <2>5. CASE UNCHANGED vars
    BY <2>1, <2>5 DEF vars, decisions
  <2> QED
    BY <2>4, <2>5
<1> QED
  BY <1>1, <1>2, TypeCorrect, SerialCorrect, PTL DEF Spec, ImplementsOutcome, Abstract!Spec

----------------------------------------------------------------------------
(* The order of decisions. *)

\* buildClusters chooses leaders that follow nobody.
LEMMA BundleLeads ==
  ASSUME NEW S, NEW gated \in SUBSET S, NEW lead \in Clustering(S \ gated),
         NEW answer \in [S \ gated -> Answer],
         NEW d \in Bundle(gated, lead, answer), NEW e \in Bundle(gated, lead, answer),
         d.decision = "MERGE_INTO_CANDIDATE", e.candidate = d.leader
  PROVE e.decision # "MERGE_INTO_CANDIDATE"
<1>1. /\ lead \in [S \ gated -> S \ gated]
      /\ \A c \in S \ gated : lead[lead[c]] = lead[c]
  BY DEF Clustering
<1>2. \A c \in S \ gated : answer[c][1] # "MERGE_INTO_CANDIDATE"
  <2> SUFFICES ASSUME NEW c \in S \ gated
               PROVE answer[c][1] # "MERGE_INTO_CANDIDATE"
    OBVIOUS
  <2>1. answer[c] \in Answer
    OBVIOUS
  <2> QED
    BY <2>1 DEF Answer
<1>3. ASSUME NEW f \in Bundle(gated, lead, answer), f.decision = "MERGE_INTO_CANDIDATE"
      PROVE f.candidate \in S \ gated /\ lead[f.candidate] # f.candidate /\ f.leader = lead[f.candidate]
  BY <1>1, <1>2, <1>3 DEF Bundle, Decision
<1> QED
  BY <1>1, <1>3

\* Bundles shrink until the lead agent makes the next.
LEMMA LeadersLeadStep ==
  ASSUME TypeOK, LeadersLead, [Next]_vars
  PROVE LeadersLead'
<1>1. CASE \E r \in Runs : Decide(r)
  <2>1. PICK r \in Runs : Decide(r)
    BY <1>1
  <2>2. CASE UNCHANGED bundle
    BY <2>2 DEF LeadersLead
  <2>3. CASE ~ UNCHANGED bundle
    <3>1. PICK gated \in SUBSET selected[r] : \E lead \in Clustering(selected[r] \ gated) :
            \E answer \in [selected[r] \ gated -> Answer] :
              bundle' = [bundle EXCEPT ![r] = Bundle(gated, lead, answer)]
      BY <2>1, <2>3 DEF Decide
    <3>2. PICK lead \in Clustering(selected[r] \ gated) :
            \E answer \in [selected[r] \ gated -> Answer] :
              bundle' = [bundle EXCEPT ![r] = Bundle(gated, lead, answer)]
      BY <3>1
    <3>3. PICK answer \in [selected[r] \ gated -> Answer] :
            bundle' = [bundle EXCEPT ![r] = Bundle(gated, lead, answer)]
      BY <3>2
    <3>4. \A d, e \in Bundle(gated, lead, answer) :
            d.decision = "MERGE_INTO_CANDIDATE" /\ e.candidate = d.leader
              => e.decision # "MERGE_INTO_CANDIDATE"
      BY BundleLeads
    <3> QED
      BY <3>3, <3>4 DEF LeadersLead, TypeOK, RunTypes
  <2> QED
    BY <2>2, <2>3
<1>2. CASE ~ \E r \in Runs : Decide(r)
  <2>1. \A s \in Runs : bundle'[s] \subseteq bundle[s]
    BY <1>2 DEF Next, vars, Start, Load, ProcReturns, Retrigger, Stop, Crash, Finish,
                ApplyDecision, FailDecision, NewCandidate, HoldPasses, locals, TypeOK, RunTypes
  <2> QED
    BY <2>1 DEF LeadersLead
<1> QED
  BY <1>1, <1>2

\* "PROMOTE_NEW first so any MERGE_INTO_CANDIDATE pointing at a leader can
\* resolve": with or without overlapping runs, a follower is decided last.
THEOREM LeadersFirstCorrect == Spec => LeadersFirst
<1>1. Init => LeadersLead
  BY DEF Init, LeadersLead
<1>2. TypeOK /\ LeadersLead /\ [Next]_vars =>
        [\A r \in Runs : \A d \in bundle[r] \ bundle'[r] :
           d.decision = "MERGE_INTO_CANDIDATE" /\ pc'[r] = "apply" =>
             \A e \in bundle[r] : e.candidate # d.leader]_vars
  <2> SUFFICES ASSUME TypeOK, LeadersLead, Next, NEW r \in Runs,
                      NEW d \in bundle[r] \ bundle'[r],
                      d.decision = "MERGE_INTO_CANDIDATE", pc'[r] = "apply",
                      NEW e \in bundle[r], e.candidate = d.leader
               PROVE FALSE
    OBVIOUS
  <2>1. IsNext(r, d)
    <3>1. CASE \E s \in Runs : \E f \in bundle[s] : ApplyDecision(s, f) \/ FailDecision(s, f)
      BY <3>1 DEF ApplyDecision, FailDecision, TypeOK, RunTypes
    <3>2. CASE \E s \in Runs : Start(s) \/ Load(s) \/ ProcReturns(s) \/ Retrigger(s)
      BY <3>2 DEF Start, Load, ProcReturns, Retrigger, locals
    <3>3. CASE \E s \in Runs : Stop(s) \/ Crash(s)
      BY <3>3 DEF Stop, Crash, Finish, GoTo, TypeOK, RunTypes
    <3>4. CASE \E s \in Runs : Decide(s)
      BY <3>4 DEF Decide, TypeOK, RunTypes
    <3>5. CASE \E c \in Candidates : NewCandidate(c) \/ HoldPasses(c)
      BY <3>5 DEF NewCandidate, HoldPasses, locals
    <3> QED
      BY <3>1, <3>2, <3>3, <3>4, <3>5 DEF Next
  <2>2. e.decision # "MERGE_INTO_CANDIDATE"
    BY DEF LeadersLead
  <2>3. Tier(d) = 2 /\ Tier(e) \in {0, 1}
    BY <2>2 DEF Tier
  <2> QED
    BY <2>1, <2>3 DEF IsNext
<1>3. TypeOK /\ LeadersLead /\ [Next]_vars => LeadersLead'
  BY LeadersLeadStep
<1> QED
  BY <1>1, <1>2, <1>3, TypeCorrect, PTL DEF Spec, LeadersFirst
=============================================================================

--------------------------- MODULE EnrichmentChain --------------------------
(***************************************************************************)
(* The enrichment of promoted trends.  An iteration of the promotion       *)
(* workflow promotes trends, reads the trends still without an enrichment, *)
(* and posts both kinds to the dispatcher without waiting for the outcome; *)
(* the dispatcher calls, one after the other, the sources workflow, the    *)
(* enrichment agent and the write workflow, whose procedure appends to the *)
(* enrichment ledger and then sets the identity of the trend, by           *)
(* statements that are committed one by one.                               *)
(*                                                                         *)
(* Time is counted in slots of three hours, the period of the promotion    *)
(* timer.  No execution outlives its slot: the lambda limits are minutes.  *)
(***************************************************************************)
EXTENDS Naturals, Sequences, FiniteSets

CONSTANTS
  Trends, Passes, Chains, Sources,
  Timer,           \* the pass the timer starts; the others are started by hand
  Hopeless,        \* trends whose enrichment fails every time
  Names,           \* names an agent or its reviewer may give
  Outputs,         \* what an agent may propose: [name, category]
  None,
  FirstSlot,       \* RETRY_FIRST_HOUR
  Period,          \* RETRY_PERIOD_HOURS
  MaxRetries,      \* MAX_RETRIES_PER_RUN
  PoolLimit,       \* rows of q_unenriched_trends
  MaxIterations,   \* of one promotion chain
  ByHand,          \* passes started by hand in one slot
  MaxFailures      \* failures of one behaviour, but for those of the hopeless trends

ASSUME PassesAssumption == Timer \in Passes /\ None \notin Trends \cup Names
ASSUME HopelessAssumption == Hopeless \subseteq Trends
ASSUME OutputsAssumption ==
  Outputs \subseteq [name : Names \cup {None}, category : STRING]
ASSUME SlotsAssumption == FirstSlot \in Nat /\ Period \in Nat \ {0}
ASSUME LimitsAssumption ==
  {MaxRetries, PoolLimit, ByHand, MaxFailures} \subseteq Nat /\ MaxIterations \in Nat \ {0}

VARIABLES
  promoted,   \* FCT_TRENDS, oldest first
  age,        \* slots since PROMOTED_AT, up to LastSlot
  pass,       \* the promotion workflow's executions
  chain,      \* the dispatcher's executions, each with the workflow it calls
  metrics,    \* FCT_TREND_SOURCE_METRICS: HEADLINE_METRIC
  terms,      \* trends with rows in FCT_TREND_GSC_TERMS
  ledger,     \* FCT_TREND_ENRICHMENT_LEDGER: the payloads of a trend's initial rows
  name, category,   \* FCT_TRENDS: TREND_NAME, CATEGORY
  started,    \* passes of this slot that began at iteration 1
  fired,      \* per trend: chains started in this slot
  failures

\* The second daily retry is as the third: there the age is counted round.
LastSlot == FirstSlot + 2 * Period - 1

tables == <<metrics, terms, ledger, name, category>>
slot == <<age, started, fired>>
vars == <<promoted, pass, chain, tables, slot, failures>>

Promoted == {promoted[i] : i \in DOMAIN promoted}
Stages == {"terms", "fetch", "metrics", "gsc", "agent", "review", "compute", "apply", "name", "category"}
Payload == [name : Names \cup {None}, category : {o.category : o \in Outputs}]
Reviews == [tier1 : BOOLEAN, decoded : BOOLEAN, alternate : Names \cup {None}]

NoPass == [at |-> "idle", iteration |-> 0, dry |-> FALSE, todo |-> {}]
NoChain == [at |-> "idle", trend |-> None, waiting |-> FALSE, found |-> {},
            output |-> None, review |-> None]

PassState == [at : {"idle", "apply", "query", "fire"}, iteration : 0..MaxIterations,
              dry : BOOLEAN, todo : SUBSET Trends]
ChainState == [at : Stages \cup {"idle"}, trend : Trends \cup {None},
               waiting : BOOLEAN, found : SUBSET Sources,
               output : Payload \cup {None}, review : Reviews \cup {None}]

TypeOK ==
  /\ promoted \in Seq(Trends)
  /\ age \in [Trends -> 0..LastSlot]
  /\ pass \in [Passes -> PassState]
  /\ chain \in [Chains -> ChainState]
  /\ metrics \in [Trends -> [Sources -> {"none", "found"}]]
  /\ terms \in SUBSET Trends
  /\ ledger \in [Trends -> SUBSET Payload]
  /\ name \in [Trends -> Names \cup {None}]
  /\ category \in [Trends -> {o.category : o \in Outputs} \cup {"none"}]
  /\ started \in 0..(1 + ByHand)
  /\ fired \in [Trends -> Nat]
  /\ failures \in 0..MaxFailures

Init ==
  /\ promoted = <<>>
  /\ age = [t \in Trends |-> 0]
  /\ pass = [p \in Passes |-> NoPass]
  /\ chain = [c \in Chains |-> NoChain]
  /\ metrics = [t \in Trends |-> [s \in Sources |-> "none"]]
  /\ terms = {}
  /\ ledger = [t \in Trends |-> {}]
  /\ name = [t \in Trends |-> None]
  /\ category = [t \in Trends |-> "none"]
  /\ started = 0
  /\ fired = [t \in Trends |-> 0]
  /\ failures = 0

\* Something goes wrong: as often as MaxFailures allows.
Fault == failures < MaxFailures /\ failures' = failures + 1

----------------------------------------------------------------------------
(* The promotion workflow. *)

\* The timer fires once in a slot.
StartByTimer ==
  /\ started = 0
  /\ pass' = [pass EXCEPT ![Timer] = [NoPass EXCEPT !.at = "apply", !.iteration = 1]]
  /\ started' = 1
  /\ UNCHANGED <<promoted, chain, tables, age, fired, failures>>

StartByHand(p) ==
  /\ p # Timer /\ pass[p].at = "idle"
  /\ started \in 1..ByHand
  /\ \E dry \in BOOLEAN :
       pass' = [pass EXCEPT ![p] = [NoPass EXCEPT !.at = "apply", !.iteration = 1, !.dry = dry]]
  /\ started' = started + 1
  /\ UNCHANGED <<promoted, chain, tables, age, fired, failures>>

\* PROC_PROMOTION_APPLY, as far as it promotes; the bundle of a dry run is empty.
extractPromotedTrendIds(t) == IF t = None THEN {} ELSE {t}

Apply(p) ==
  /\ pass[p].at = "apply"
  /\ \E t \in {None} \cup (IF pass[p].dry THEN {} ELSE Trends \ Promoted) :
       /\ promoted' = IF t = None THEN promoted ELSE Append(promoted, t)
       /\ pass' = [pass EXCEPT ![p].at = "query", ![p].todo = extractPromotedTrendIds(t)]
  /\ UNCHANGED <<chain, tables, slot, failures>>

\* q_unenriched_trends, youngest first: promoted more than six hours ago, no
\* initial row.  (Nothing in the repository writes refinement rows.)
Younger(s, t) ==
  \E i, j \in DOMAIN promoted : promoted[i] = t /\ promoted[j] = s /\ i < j

\* Mutant: those that wait longest first.
Oldest(pool, n) == {t \in pool : Cardinality({s \in pool : Younger(t, s)}) < n}

Youngest(pool, n) == {t \in pool : Cardinality({s \in pool : Younger(s, t)}) < n}

Unenriched ==
  Youngest({t \in Promoted : age[t] >= FirstSlot /\ ledger[t] = {}}, PoolLimit)

\* In the first slot of the retries, and in the same slot of every day after it.
isRetryDue(t) == age[t] >= FirstSlot /\ (age[t] - FirstSlot) % Period = 0

\* Mutant: every iteration retries.
selectRetryAlways(p) ==
  IF pass[p].dry THEN {} ELSE Youngest({t \in Unenriched : isRetryDue(t)}, MaxRetries)

selectRetryTrendIds(p) ==
  IF pass[p].iteration > 1 \/ pass[p].dry
  THEN {}
  ELSE Youngest({t \in Unenriched : isRetryDue(t)}, MaxRetries)

\* The query and the choice of targets; both lists without duplicates.
Query(p) ==
  /\ pass[p].at = "query"
  /\ pass' = [pass EXCEPT ![p].at = "fire", ![p].todo = @ \cup selectRetryTrendIds(p)]
  /\ UNCHANGED <<promoted, chain, tables, slot, failures>>

\* A worker of the fan-out posts a trend; whether an answer comes in 30 s is all
\* the same.
Fire(p, t, c) ==
  /\ pass[p].at = "fire" /\ t \in pass[p].todo
  /\ chain[c].at = "idle"
  /\ pass' = [pass EXCEPT ![p].todo = @ \ {t}]
  /\ chain' = [chain EXCEPT ![c] = [NoChain EXCEPT !.at = "terms", !.trend = t, !.waiting = TRUE]]
  /\ fired' = [fired EXCEPT ![t] = @ + 1]
  /\ UNCHANGED <<promoted, tables, age, started, failures>>

\* The post does not reach the dispatcher: logged.
FireFails(p, t) ==
  /\ pass[p].at = "fire" /\ t \in pass[p].todo
  /\ Fault
  /\ pass' = [pass EXCEPT ![p].todo = @ \ {t}]
  /\ UNCHANGED <<promoted, chain, tables, slot>>

\* eval_and_retrigger: the next iteration, or the end of the chain.
Retrigger(p) ==
  /\ pass[p].at = "fire" /\ pass[p].todo = {}
  /\ \/ pass' = [pass EXCEPT ![p] = NoPass]
     \/ /\ pass[p].iteration < MaxIterations /\ ~pass[p].dry
        /\ pass' = [pass EXCEPT ![p].at = "apply", ![p].iteration = @ + 1]
  /\ UNCHANGED <<promoted, chain, tables, slot, failures>>

\* A step throws, or lambda_timeout: what is not fired stays unfired.
PassDies(p) ==
  /\ pass[p].at # "idle"
  /\ Fault
  /\ pass' = [pass EXCEPT ![p] = NoPass]
  /\ UNCHANGED <<promoted, chain, tables, slot>>

----------------------------------------------------------------------------
(* The dispatcher and the workflow it calls. *)

At(c, stage) == chain[c].at = stage
To(c, stage) == chain' = [chain EXCEPT ![c].at = stage]
End(c) == chain' = [chain EXCEPT ![c] = NoChain]

\* A workflow answers; the dispatcher, if it still waits, calls the next.
Hop(c, stage, updated) ==
  chain' = [chain EXCEPT ![c] = IF @.waiting THEN [updated EXCEPT !.at = stage] ELSE NoChain]

\* The answer comes after 500 s, or not at all, or as an HTTP error, or the
\* dispatcher is cut off: error_message, no retry.  The workflow called goes on.
GiveUp(c) ==
  /\ chain[c].waiting
  /\ Fault
  /\ chain' = [chain EXCEPT ![c].waiting = FALSE]
  /\ UNCHANGED <<promoted, pass, tables, slot>>

\* The workflow called dies between two statements: a step throws, a statement
\* fails, lambda_timeout.
WorkflowFails(c) ==
  /\ ~At(c, "idle")
  /\ Fault
  /\ End(c)
  /\ UNCHANGED <<promoted, pass, tables, slot>>

\* Always some terms: the trend's own words when Claude has none.
generate_search_terms(c) ==
  /\ At(c, "terms")
  /\ To(c, "fetch")
  /\ UNCHANGED <<promoted, pass, tables, slot, failures>>

\* GDELT, Wikimedia, Google Trends: a source that fails counts zero.
fetch_external(c) ==
  /\ At(c, "fetch")
  /\ \E found \in SUBSET Sources :
       chain' = [chain EXCEPT ![c] = [@ EXCEPT !.at = "metrics", !.found = found]]
  /\ UNCHANGED <<promoted, pass, tables, slot, failures>>

\* Mutant: records without data are written too.
aggregateAll(c) == [s \in Sources |-> IF s \in chain[c].found THEN "found" ELSE "zero"]

\* A source without data writes no record, and leaves an earlier row in place.
aggregate(c) ==
  [s \in Sources |-> IF s \in chain[c].found THEN "found" ELSE metrics[chain[c].trend][s]]

merge_fct_metrics(c) ==
  /\ At(c, "metrics")
  /\ metrics' = [metrics EXCEPT ![chain[c].trend] = aggregate(c)]
  /\ To(c, "gsc")
  /\ UNCHANGED <<promoted, pass, terms, ledger, name, category, slot, failures>>

\* New terms only; the gate on short ones may leave none.
merge_gsc_terms(c) ==
  /\ At(c, "gsc")
  /\ terms' \in {terms, terms \cup {chain[c].trend}}
  /\ Hop(c, "agent", chain[c])
  /\ UNCHANGED <<promoted, pass, metrics, ledger, name, category, slot, failures>>

\* run_enrichment_agent; its loop is a scene of AgentRuns.
Propose(c) ==
  /\ At(c, "agent") /\ chain[c].trend \notin Hopeless
  /\ \E o \in Outputs :
       chain' = [chain EXCEPT ![c] = [@ EXCEPT !.at = "review", !.output = o]]
  /\ UNCHANGED <<promoted, pass, tables, slot, failures>>

\* The loop ended without propose_enrichment, as it always does on a hopeless trend.
ProposeNothing(c) ==
  /\ At(c, "agent")
  /\ IF chain[c].trend \in Hopeless THEN UNCHANGED failures ELSE Fault
  /\ To(c, "review")
  /\ UNCHANGED <<promoted, pass, tables, slot>>

\* A name that fails tier 1 is not decoded and gets no alternate; no review of no
\* name, and none when a call of the reviewer fails.
Reviewed(output) ==
  IF output = None \/ output.name = None
  THEN {None}
  ELSE {None} \cup {r \in Reviews : ~r.tier1 => ~r.decoded /\ r.alternate = None}

\* run_name_reviewer and respond.
run_name_reviewer(c) ==
  /\ At(c, "review")
  /\ \E r \in Reviewed(chain[c].output) :
       Hop(c, "compute", [chain[c] EXCEPT !.review = r])
  /\ UNCHANGED <<promoted, pass, tables, slot, failures>>

\* The reviewer's name, if it could not decode the agent's and has a better one.
finalTrendName(output, r) ==
  IF r # None /\ r.tier1 /\ ~r.decoded /\ r.alternate # None THEN r.alternate ELSE output.name

\* Mutant: a run without an output is written too.
computeEmpty(c) ==
  /\ At(c, "compute")
  /\ chain' = [chain EXCEPT ![c].at = "apply", ![c].review = None]
  /\ UNCHANGED <<promoted, pass, tables, slot, failures>>

\* Throws without enrichment_output.
compute_scores(c) ==
  /\ At(c, "compute")
  /\ IF chain[c].output = None
     THEN End(c)
     ELSE chain' = [chain EXCEPT ![c] =
            [@ EXCEPT !.at = "apply", !.review = None,
                      !.output.name = finalTrendName(chain[c].output, chain[c].review)]]
  /\ UNCHANGED <<promoted, pass, tables, slot, failures>>

\* Mutant: a trend that has a row gets no second one.
AppendLedgerOnce(c) ==
  /\ At(c, "apply")
  /\ ledger' = [ledger EXCEPT ![chain[c].trend] = IF @ = {} THEN {chain[c].output} ELSE @]
  /\ To(c, "name")
  /\ UNCHANGED <<promoted, pass, metrics, terms, name, category, slot, failures>>

\* PROC_ENRICHMENT_APPLY, its first statement.  A write that is repeated adds a row.
AppendLedger(c) ==
  /\ At(c, "apply")
  /\ ledger' = [ledger EXCEPT ![chain[c].trend] = @ \cup {chain[c].output}]
  /\ To(c, "name")
  /\ UNCHANGED <<promoted, pass, metrics, terms, name, category, slot, failures>>

\* Mutant: without WHERE TREND_NAME IS NULL.
SetNameAgain(c) ==
  /\ At(c, "name")
  /\ name' = [name EXCEPT ![chain[c].trend] =
               IF chain[c].output.name = None THEN @ ELSE chain[c].output.name]
  /\ To(c, "category")
  /\ UNCHANGED <<promoted, pass, metrics, terms, ledger, category, slot, failures>>

\* The second: WHERE TREND_NAME IS NULL, if the payload has a name.
SetName(c) ==
  /\ At(c, "name")
  /\ name' = [name EXCEPT ![chain[c].trend] = IF @ = None THEN chain[c].output.name ELSE @]
  /\ To(c, "category")
  /\ UNCHANGED <<promoted, pass, metrics, terms, ledger, category, slot, failures>>

\* The third: WHERE CATEGORY IS NULL.
SetCategory(c) ==
  /\ At(c, "category")
  /\ category' = [category EXCEPT ![chain[c].trend] =
                   IF @ = "none" THEN chain[c].output.category ELSE @]
  /\ End(c)
  /\ UNCHANGED <<promoted, pass, metrics, terms, ledger, name, slot, failures>>

----------------------------------------------------------------------------
\* Three hours later.
Tick ==
  /\ started > 0
  /\ \A p \in Passes : pass[p].at = "idle"
  /\ \A c \in Chains : At(c, "idle")
  /\ age' = [t \in Trends |->
              IF t \notin Promoted THEN 0
              ELSE IF age[t] = LastSlot THEN FirstSlot + Period ELSE age[t] + 1]
  /\ started' = 0
  /\ fired' = [t \in Trends |-> 0]
  /\ UNCHANGED <<promoted, pass, chain, tables, failures>>

PassStep(p) ==
  \/ Apply(p) \/ Query(p) \/ Retrigger(p)
  \/ \E t \in Trends, c \in Chains : Fire(p, t, c)

ChainStep(c) ==
  \/ generate_search_terms(c) \/ fetch_external(c) \/ merge_fct_metrics(c) \/ merge_gsc_terms(c)
  \/ Propose(c) \/ run_name_reviewer(c) \/ compute_scores(c)
  \/ AppendLedger(c) \/ SetName(c) \/ SetCategory(c)

Failure ==
  \/ \E p \in Passes : PassDies(p) \/ \E t \in Trends : FireFails(p, t)
  \/ \E c \in Chains : GiveUp(c) \/ WorkflowFails(c) \/ ProposeNothing(c)

Next ==
  \/ StartByTimer \/ Tick \/ Failure
  \/ \E p \in Passes : StartByHand(p) \/ PassStep(p)
  \/ \E c \in Chains : ChainStep(c)

\* The timer fires, time passes, and what runs goes on until it ends or fails.
Fairness ==
  /\ WF_vars(StartByTimer)
  /\ WF_vars(Tick)
  /\ \A p \in Passes : WF_vars(PassStep(p))
  /\ \A c \in Chains : WF_vars(ChainStep(c) \/ ProposeNothing(c))

Spec == Init /\ [][Next]_vars /\ Fairness

----------------------------------------------------------------------------
\* A trend has in one slot no more chains than passes began in it: a retriggered
\* iteration does not retry what its first iteration fired, and a run by hand
\* costs one extra enrichment.
RetriesBounded == \A t \in Trends : fired[t] <= started

\* The name and the category of a trend are those of an enrichment its ledger
\* records, whatever was cut off.
IdentityRecorded ==
  \A t \in Trends :
    /\ name[t] # None => \E o \in ledger[t] : o.name = name[t]
    /\ category[t] # "none" => \E o \in ledger[t] : o.category = category[t]

\* Once set, they are frozen, whichever chains come after.
IdentityFrozen ==
  [][\A t \in Trends :
       /\ name[t] # None => name'[t] = name[t]
       /\ category[t] # "none" => category'[t] = category[t]]_vars

\* A source that had data for a trend is not set back to zero by a run that found
\* none, so that the coverage of a trend never shrinks.
CoverageKept ==
  [][\A t \in Trends, s \in Sources :
       metrics[t][s] = "found" => metrics'[t][s] = "found"]_vars

\* A promoted trend whose enrichment can succeed is enriched in the end, whatever fails
\* a bounded number of times and however many older trends fail for ever: the youngest
\* are retried first.  As many younger ones as a run retries do hold it back.
HeldBack(t) == Cardinality({s \in Hopeless : Younger(s, t)}) >= MaxRetries

EnrichedInTheEnd ==
  \A t \in Trends \ Hopeless : t \in Promoted ~> (ledger[t] # {} \/ HeldBack(t))

----------------------------------------------------------------------------
(* Inductive invariant. *)

\* A chain that writes has a payload for its trend, which is in the ledger before
\* the identity is set.
WritesRecorded ==
  \A c \in Chains :
    /\ ~At(c, "idle") => chain[c].trend \in Trends
    /\ chain[c].at \in {"apply", "name", "category"} => chain[c].output \in Payload
    /\ chain[c].at \in {"name", "category"} => chain[c].output \in ledger[chain[c].trend]

IdentityInv == TypeOK /\ WritesRecorded /\ IdentityRecorded

(* What RetriesBounded rests on. *)

Live == {p \in Passes : pass[p].at # "idle"}

\* The live passes that may still fire t: each fires it once at most, as one it
\* promotes or as one its first iteration retries.
Owing(t) ==
  {p \in Live :
     \/ t \in pass[p].todo
     \/ pass[p].at \in {"apply", "query"} /\ pass[p].iteration = 1
     \/ t \notin Promoted}

RetryInv ==
  /\ IsFiniteSet(Live)
  /\ started = 0 => Live = {}
  /\ \A p \in Passes : pass[p].todo \subseteq Promoted
  /\ \A p \in Live : pass[p].iteration > 0
  /\ \A t \in Trends : fired[t] + Cardinality(Owing(t)) <= started
=============================================================================

# Trend-Tree in TLA+

Trend-Tree collects signals about consumer trends, distils them into *trend
candidates*, promotes candidates to *trends*, enriches each trend, re-evaluates
it on a schedule until it is retired, and feeds newsletters, predictions and
product sourcing from the result. Its state is a set of Snowflake tables, most of
them append-only ledgers. The programs around them (Pipedream workflows, Cloud Run
services and jobs, stored procedures) hold no state between two executions, take
no locks, and commit almost every statement on its own. What can go wrong
therefore goes wrong *between* statements: an execution dies half-way and is
retried, two executions interleave, a call outlives its caller, an answer comes
late.

The specifications here are about those programs. TLC checks them on small
instances; TLAPS proves the main safety results for every value of the constants.

## 1. Inventory

### Modelled

| Component | State it keeps | Operations | What is hard | What makes it correct |
|---|---|---|---|---|
| **Lifecycle job** `services/lib/lifecycle_tick.mjs`, `services/lifecycle` | `STG_LIFECYCLE_BATCHES` (one row per Gemini batch), `STG_AGENT_RUN_COSTS` | hourly tick: poll the batch in flight; cancel after 6 h, collect, or close as failed; then submit the due trends | a dozen statements commit one by one; one Cloud Run retry; Gemini takes hours; `--fire` by hand beside the cron | a batch is applied to a trend at most once; is closed once, for good; never stays open; loses no trend; one batch in flight |
| **Lifecycle procedure** `sql/proc_lifecycle_apply.sql` | `FCT_TREND_LIFECYCLE_LEDGER` | one row per decision; a retirement needs a proposal in the latest row | called again with the same batch after a crash; its errors are swallowed; the editorial service is a second writer | RETIRED only on two consecutive proposals of different batches; only a nomination ends it |
| **Promotion procedure** `sql/proc_promotion_apply.sql` | `STG_TREND_CANDIDATES`, `FCT_TRENDS` | five decisions, a transaction each, applied in tiers | caller cut off after ten minutes; a follower mirrors what its leader became; no check that a candidate is still pending | a candidate becomes at most one trend; the two tables agree; decisions are final |
| **Promotion workflow** `promotion-p_xMC99jg` | none (step exports) | load pending, gate, cluster, ask subagents, apply, retrigger itself | cron, self-POST and manual starts; failed decisions in the middle of a bundle | only pending candidates are decided; leaders before followers |
| **Editorial service** `services/editorial-ingest` | Cloud Tasks queue; the candidate row as checkpoint; signals; RESURGENT rows in the lifecycle ledger | accept (enqueue), handle_nomination | at-least-once delivery; seven steps with side effects; dispatch deadline equal to the service timeout; a client that sends statements again | a nomination is promoted, and twice only if it was executed twice at once; 2xx only when promoted; a RETIRED merge target comes back |
| **Distillation** `distillation-p_mkCBBqb` (and `distillation-watchdog-p_dDCWWPg`, which starts it) | claims: `STG_EXTERNAL_SIGNALS.AGENT_SESSION_ID`; candidates | release stale claims, acquire, claim, ask the cluster agent, commit | claims are released while their owner may be at work; the run goes on with signals it failed to claim; up to 20 minutes suspended | candidates are written from a signal by one session at most, unless runs were live together; signals of a run that came to nothing return |
| **Revisit** `distillation-revisit-p_o7CWWZl` | `STG_REVISIT_BATCH_QUEUE`; stamps of its own | select a pool, queue it, stamp it; per execution one batch; continue by a POST to itself | the pool is old when it is stamped; no transaction between queue and stamps; a failed batch; a lost POST | a signal is revisited by one chain, unless two were prepared together; every batch is worked off unless the chain dies |
| **Enrichment chain** `promotion-p_xMC99jg/fire_enrichment_chain`, `dispatcher-p_8rCBgnl`, `sources-p_7NCy36w`, `enrichment-p_xMC995w`, `write-p_o7CWa2K`, `sql/proc_enrichment_apply.sql` | enrichment ledger, source metrics, `FCT_TRENDS` name and category | promotion's pass fires chains for new trends and, in their slots, for unenriched ones; a chain searches, fetches, asks the agent, applies | POSTs nobody waits for; a chain may still run when the next is fired; the procedure is three statements | a slot retries a trend once per pass; name and category are an enrichment's and final; coverage never shrinks; every trend is enriched in the end |
| **Prediction service** `services/prediction` | `FCT_PREDICTION_VERDICT_LEDGER` (append-only) | sweep (re-evaluate, then generate), match, generate, run | a request reads, asks its model for minutes, then MERGEs; the scheduler retries a sweep that is still at work | one row per evaluation; a closed call stays closed; a subject is predicted again only when its call has closed |
| **Sourcing** `services/ecomm-agent`, `lib/sourcing_*.mjs`, `sql/proc_sourcing_apply.sql` | sourcing ledger: a header per run with its candidate rows | poll, source one trend; open, select, complete | the client executes a completion again after a lost response; a header is the only mark that a trend is taken; requests overlap | a verdict agrees with its candidate rows; a receipt that gives a verdict gives the header's; every enriched trend is sourced in the end |
| **Agents** `distillation-cluster-agent-*`, `distillation-subagent-*`, `promotion-agent-*`, `lifecycle-attribution-*`, the agent step of `enrichment-*`, `agents/lib` | none but the run's context; attribution links | a tool loop under turn and cost limits; a fan-out with bounded concurrency and a timeout per call | a subagent outlives the caller that gave up on it; answers come in any order; each agent has its own copy of the loop | an answer stays with its dispatch; a candidate gets its own agent's decision or none; each copy behaves as the library's loop |
| **Audit agent** `audit-agent-p_xMC9nm3` | `FCT_AUDIT_LEDGER` | queries, its loop, four computed grades folded into the report, ledger row, Slack | GREEN is silent, so a mistake is not noticed; the model writes part of the report | an audit that is silent, or GREEN, is about a healthy system |

### Not modelled

| Component | Why |
|---|---|
| **Discovery** `discovery-p_5VCPP3N` | a pipeline of model calls and URL checks ending in one MERGE keyed by URL; no state between its steps |
| **Signal ingestion** `ingestion/*`, `sql/proc_merge_external_signals.sql` | fetch and one MERGE that inserts what it does not find and never overwrites a stamp: it only adds free signals to `SignalClaims` |
| **Scrape gateway** `services/scrape-gateway` | a stateless proxy; the job state is with the vendor |
| **TikTok ingest**, **catalog sync** | single-pass jobs with one MERGE; transformation of data |
| **Daily digest** | renders and sends an e-mail |
| **Event sources** | triggers: the start actions of the workflows they start |
| **Warehouse tasks and dynamic tables** | declarative, recomputed by the warehouse |

Modelled in part: the *distillation watchdog* is a start of a run (its threshold and
lockout need time, which `SignalClaims` does not have); of the *revisit* the continue
POST by hand is left out; the *prediction agent* is a fire by hand of
`PredictionLedger`; of the *shared agent library* the loop, the fan-out, the tool
catalog and the prompt loader are modelled, the URL, JSON, SQL and HTTP helpers are not.

### How the components interact

- Distillation inserts candidates; promotion and editorial nominations turn them
  into trends through the *same* procedure (`PromotionApply`); editorial
  candidates have `VERDICT` NULL and promotion's load query skips them.
- The procedure seeds each trend's first lifecycle row (`Seed` in
  `LifecycleTick`), the job appends to it, and the editorial service appends
  RESURGENT rows to RETIRED trends (`MarkResurgent` in both modules).
- Promotion's pass fires enrichment chains (`EnrichmentChain`); a trend that has been
  enriched is what sourcing polls for (`Enrich` in `Sourcing`).
- The agents' runs are what the workflows that call them leave open: the answer of the
  cluster agent in `SignalClaims`, the decisions in `Promotion`, the outputs in
  `EnrichmentChain`. `AgentRuns` says which answers these are and to whom they belong.
- Distillation and revisit share the stamps: a signal is free, claimed by a
  session, or a chain's (`SignalLife`). Their inserts are what `NewCandidate`
  stands for in `Promotion` and `Editorial`.
- Nothing is shared but tables. Workflows start each other with POSTs nobody
  waits for.

`PROJECT.json` lists every component with its files, and under `hazards` every
spot where the code is exposed, with the properties that guard it.

## 2. Modules

| Module | Models | Composes |
|---|---|---|
| `TrendEvaluation` | abstract: a trend is active, proposed for retirement or retired; each batch evaluates it at most once | |
| `LifecycleTick` | the job, the procedure, the two tables, Gemini and time | implements `TrendEvaluation` |
| `CandidateOutcome` | abstract: a candidate is pending, held, rejected or promoted; the last two are final, but for candidates marked as executed again; a trend is minted by one candidate | |
| `PromotionApply` | the procedure and its tables | implements `CandidateOutcome` |
| `Promotion` | the workflow: runs over the procedure | extends `PromotionApply` |
| `Editorial` | accept route, Cloud Tasks, `handle_nomination` | extends `PromotionApply` |
| `SignalLife` | abstract: a signal is free, claimed or revisited, with the sessions and chains that wrote candidates from it, and which of them were at work together | |
| `SignalClaims` | distillation runs and revisit chains over the stamps, the candidates and the batch queue | implements `SignalLife` |
| `EnrichmentChain` | promotion's pass, the four workflows of a chain, the procedure and its tables | |
| `PredictionLedger` | the four routes of the service, its scheduler, the ledger | |
| `Sourcing` | requests, runs, the procedure under the client's retries, the ledger | |
| `ToolLoop` | abstract: the tool loop of `agents/lib/gemini_loop.mjs` | |
| `AuditReport` | pure: the audit's grades and how they are folded into the report | |
| `AgentRuns` | the agents, their fan-outs, and the audit's steps | extends `AuditReport`; every run implements `ToolLoop` |
| `MC*` | instances for TLC | |
| `*_proofs` | theorems | |

### LifecycleTick

A batch row's columns are the functions `state`, `trendIds`, `sentAt` and `cost`;
the ledger is a sequence of rows per trend, of which the model keeps the batch
that wrote it, whether it says RETIRED, whether it carries a retirement proposal,
and its time. An execution is a program counter with its local variables
(`held`, `closing`, `decided`, `retries`, `ids`); a step is one statement or one
call: `Start` reads the batch in flight, `Poll*` is `getBatch` and what `runTick`
does with the answer, `Collect` is `collect()` up to the procedure call,
`ApplyDecision`/`DropDecision` are the iterations of the procedure's loop,
`UpdateState` and `InsertCost` close the batch, `ReadDue`, `SubmitBatch`,
`InsertBatch` are `submit()`. `Crash` ends an execution anywhere. Time appears as
`aged` (the row is six hours old), `due` (what the due query returns) and `clock`,
which orders submits and evaluations as far as `Q_ALREADY_APPLIED` compares them.

`Overlap` lets executions run side by side: the cron and its one retry do not
(`deploy.env`: two attempts end within the hour), a manual start may. `Detached`
lets the warehouse finish a procedure call whose client has died.

### PromotionApply, Promotion

A decision is one action, since the procedure runs it in one transaction;
`MergeIntoCandidate` looks the leader's outcome up at that moment as the code does.
A run is `load`, `decide`, `apply`, `eval`: `Pending` is the load query's WHERE,
`Bundle` the decisions the lead agent assembles (gated candidates rejected,
followers sent to their leader, an answer for each leader whose call succeeded),
`IsNext` the tier sort, `FailDecision` the rollback, `Retrigger` the self-POST.
Which candidates are gated, how they cluster and what the model answers is open.

### Editorial

`task` is the Cloud Tasks queue; an attempt is a program counter with the
nomination it `held` and the merge `target` the judge chose. `Read` is the
checkpoint query; the other steps are the statements of `handle_nomination` in
order. `Deliver` may be repeated until `Answer` (2xx); `Fail` is an exception, a
killed instance or a lost answer. Promotion and the lifecycle job appear only as
far as they touch the same tables.

The service's Snowflake client sends a statement again, up to `MaxAttempts` times, when
its response is lost (`LoseResponse`); the execution nobody waits for goes to `late` and
may commit at any later time (`LateCommit`) or never (`LateEnds`). Two statements do
something else when they are executed twice, so they are kept apart: the candidate's
INSERT, whose NOT EXISTS does not see an INSERT still uncommitted (`twice`: a candidate
with two rows, both of which PROMOTE_NEW copies), and the CALL, which promotes whenever
it is executed. The MERGE of signals, the RESURGENT INSERT and the reads come to the
same; executions of them that outlive their attempt are left out. The history variable
`repeated` has the nominations two of whose executions were on the way together; no step
reads it.

### SignalClaims

`stamp` is the column AGENT_SESSION_ID and `wrote` the sessions found in the candidate
table; the kind of the stamp (`sess-`, `revisit-`) is the set it is from. A run goes
`release` (the stored procedure), `acquire` (or `TooFew`, below MIN_POOL), `claim`,
`agent`, `commit`; its `ids` are the signals it acquired, which it keeps working on
even where the claim found them taken. What follows the commit writes the cursor,
which decides nothing here. A chain goes `pool`, `queue` (an INSERT per batch),
`stamp`, and then `pick`, `agent`, `commit`, `close`, `next` for each batch.
`Crash` and `ChainDies` end either anywhere; both leave the tables as they are.
Nothing reads the batches of a dead chain again, except a continue POST by hand,
which is not modelled. Session and chain ids are minted, so which unused one a run
takes is immaterial (CHOOSE), and one that no table mentions may be taken again.

`Overlap` lets runs be live together, and chains prepare together: the cron, the
watchdog (whose lockout looks at when the last run ended) and starts by hand know
nothing of a run that is still at work. Runs and chains are live together in any case.
The history variables `together` and `prepared` keep which were; no step reads them.

### EnrichmentChain

Time is the age of a trend in slots, counted round after the second daily retry; `Tick`
ends a slot once a pass has run in it and what it fired has come to an end. A pass
(`Apply`, `Query`, `Fire`, `Retrigger`) is the part of a promotion run that concerns enrichment, the timer's or one by hand; `isRetryDue` and
`selectRetryTrendIds` are the code's functions of those names. A chain is a program counter
through the search terms, the fetch of the sources and its two MERGEs, the agent
(`Propose`), the name review, `compute_scores`, and the procedure's statements: append the ledger row,
then set name and category where they are NULL. Any step may fail (`MaxFailures` bounds
how often), and nothing tells the pass.

### PredictionLedger

The ledger is the sequence of its rows. A request keeps its route, its chain and the
moment it took (`at`); it composes its rows from what it reads then (`todo`), and writes
them later, one MERGE each, under the id the code derives. `Fail` is a failure anywhere,
a MERGE whose response was lost included. `ScheduleAgain` is Cloud Scheduler's retry,
which does not stop the attempt it gave up on; `Overlap` says which requests may be in
flight together.

### Sourcing

A header carries what the code writes in it, the number of its candidate rows, and
whether it is old enough to count as stale. A request polls or is made by hand, takes
the trends of its batch in turn, opens a header, plans what the selector's picks allow
(`buildSourcingRunPlan`), completes under the retry rules of the client, and answers with
a receipt: an outcome and `recorded`, the code's `header_recorded`. Every run that
throws answers `failed`, whatever its header says by then.
`calls` holds completions the warehouse has not answered: one may take effect after its
client gave up. `MaxFaults` bounds what goes wrong.

### AgentRuns, ToolLoop, AuditReport

One scene (distill, promote, attribute, enrich, audit) is played per behaviour, since
the scenes share no state. A run is a program counter over the stages of a loop, with its
turns, its cost, the tool calls left in the turn, and what its tools keep. `Take`,
`Settle` and `Abort` are the fan-out: a worker takes the next dispatch in order, an
answer comes in time, or the caller gives up while the subagent goes on. `Kill` is the
time limit of any execution. Of the prompts and answers only what the properties tell
apart is kept: a decision, the number of proposals, the picks. For the audit, the four
readings, the grades and the fold are computed as the code computes them.

## 3. What the runs show

| Run | Instance | Result |
|---|---|---|
| `lifecycle` | 2 trends, 2 batches, cap 2, executions in sequence, fairness | six properties hold |
| `promotion` | 3 candidates, 3 trends, 2 per load, 2 iterations | four hold |
| `editorial` | 1 nomination, 1 other candidate, 3 trends, 2 attempts that may overlap, 1 lost response, fairness | six hold |
| `editorial_overlap` | 1 nomination, 2 attempts on it at once, no lost response | `OneTrendPerCandidate` fails (finding) |
| `signal_claims` | 2 signals, 2 sessions that may run together, 1 chain of 2 batches, fairness | five hold |
| `prediction` | 1 claim, 2 prediction ids, 3 days, 2 requests, 3 attempts a day, 1 failure, 1 request by hand | four hold |
| `prediction_starved` | the same claim, a cap of one, 4 days, no failure | `SweepsReachLiveCalls` fails (finding) |
| `agents` | 2 subagents, 2 at a time, 2 turns, all five scenes | five hold |
| `enrichment` | 1 trend, 2 passes, 2 chains, 1 source, 2 outputs, 2 failures | five hold |
| `enrichment_retries` | 2 trends, one of which always fails, 1 retry per pass, 3 failures of the other, fairness | `EnrichedInTheEnd` holds |
| `sourcing` | 1 trend, 2 overlapping requests, 1 product, 1 fault, 1 request by hand | three hold |
| `sourcing_heals` | 2 trends, 1 request, 2 faults, fairness | `SourcedInTheEnd` holds |

The properties, with the question each answers:

- *OneApplicationPerBatch*, *TwoCycleRetirement*: what a crash, a retry and a
  re-collected batch may do to a trend. *ImplementsEvaluation* says it as a whole:
  every step of the job is a step of `TrendEvaluation` or none.
- *ClosedBatchLosesNoTrend*: a batch is closed although entries were cancelled,
  unusable or failed in the procedure; their trends are still due.
- *NoBatchStuck*: the life of a batch row.
- *OneTrendPerCandidate*, *ImplementsOutcome*: what promotion may do to a candidate with
  a procedure that checks nothing: they hold because of the order in which its runs read
  and decide. *OneTrendUnlessRepeated* and *ImplementsOutcome* say the same of editorial
  nominations, except of those executed twice at once, which overlapping attempts and
  lost responses do bring about; wherever an attempt stops, the next one alone never
  promotes again.
- *LeadersFirst*: what the procedure's sort is for; it holds in overlapping runs too.
- *DoneIsPromoted*, *NominationSettles*, *RetiredTargetRevived*: the editorial
  retry contract, in its safety and its liveness half.
- *OneWriterUnlessTogether*, *ImplementsSignalLife*: stamps are taken, released and
  overwritten by programs that know nothing of each other, and each may die anywhere. A
  signal makes candidates twice only through runs that were live together, or chains
  prepared together: a run that was alone, or a chain against another that started
  later, is safe whatever else happened. The run has one chain; of two, the theorems speak.
- *OrphansReturn*, *ChainDrains*: what the release at the start of each run, and the
  FAILED status of a batch, are for.
- *OneRowPerEvaluation*: retries of a sweep race their first attempt and compose rows
  from different readings; the ids they MERGE under leave one row per evaluation.
  *ClosedStaysClosed*, *RemintedAfterClosing*: readings are minutes old when they are written.
- *AnswersInPlace*, *OneDecisionPerCandidate*: timeouts, late answers and errors in a
  fan-out never shift an answer to another slot or mix two agents' decisions.
  *SilenceMeansHealth*: nothing the model writes, and no failure of its loop, makes an
  audit GREEN that should not be. *LoopsImplementToolLoop*: the copies are the loop.
- *RetriesBounded*, *EnrichedInTheEnd*: the cadence fires neither too often nor too
  seldom. *IdentityRecorded*, *IdentityFrozen*, *CoverageKept*: chains that overlap, or
  die between two statements, leave a trend with a name, a category and metrics that a
  completed enrichment gave it.
  One of the two trends is never enriched: `EnrichedInTheEnd` says that older trends which
  always fail do not hold a younger one back, which is what youngest-first is for; as many
  always failing younger trends as a run retries do hold an older one back (`HeldBack`).
- *VerdictWithCandidates*, *ReceiptIsRecorded*: a completion executed twice, or late. A
  receipt that says `failed` with its header not recorded says nothing of the header.
  *SourcedInTheEnd*: stranded headers and stale catalogs pass.

Every property has a mutant in `PROJECT.json`: a plausible bug in a modelled
operation under which the run finds the property violated. The mutants are the operators
marked as such, each before the definition it would replace.

The constants `Overlap` and `Detached` also admit behaviours that no run checks: executions
of the lifecycle job started side by side by hand, a warehouse call that finishes after
its client died, promotion runs that overlap. The properties do not all hold there, as
the assumptions of the theorems say (section 5).

### Bounds

- Two batches are the least with which a trend can be proposed by one and retired
  by the other; a trend may also start with a proposal of an older job, so that a
  retirement, a RESURGENT row and one batch more fit in. Batches are never reused,
  so `Batches` bounds a behaviour; a tick that finds no name left ends by crashing
  or stays before `SubmitBatch`.
- Two trends tell a batch applied in part from one applied in full.
- One execution suffices in `lifecycle`: executions in sequence share nothing but
  the tables.
- Three candidates give a leader, a follower and a stranger; `max_iterations` 2
  gives a retriggered run; a trend id per candidate never blocks a promotion.
- Two attempts on one nomination interleave freely. With one lost response a statement
  is executed twice by one attempt, or is left over by an attempt that ended, to commit
  at any time. The other candidate gives the nomination a trend of promotion's to merge
  with, and two more trends let it be promoted twice.
- Two signals fill two batches of a chain, or let two runs share a window; two sessions
  are enough for one run to release what the other has claimed, and to write from it. A
  session with candidates, or with a stamp nobody releases, keeps its id, so the ids run
  out and the system may stop. A second chain beside two runs is beyond a run; that no
  two chains write from a signal but those prepared together is proved for any number.
- *Prediction*: a horizon of one day and three days let a call be minted, re-evaluated,
  expire and close, and its subject be minted again; two requests are an attempt and its
  retry, or a request by hand; three attempts are the scheduler's. A cap of one shows the
  starved page with the fewest calls; the behaviour is the same for any cap once that
  many calls have expired for good.
- *Agents*: two dispatches tell a slot from another and, with concurrency two, may be
  answered in either order; a budget of one is used up or not by a call; the lead may
  call two tools in a turn, a dispatch and another. One tier is there or not, and at each
  side of each threshold.
- *Enrichment*: two chains on one trend race; two outputs, one without a name, tell a
  frozen name from a recorded one. For liveness two trends compete for one
  retry, one of which always fails; with a
  first retry at slot 1 and a period of 2 there are slots with and without one.
- *Sourcing*: one trend and two requests give every race for one header; one fault a
  lost response, a death or a completion that outlives its client, and `MaxAttempts` two
  the retry after it. For liveness two trends compete for a batch of one.

### Fairness

- *Lifecycle*: the scheduler starts an execution every hour (`schedule.sh`, weak
  fairness of `Start`), a running execution goes on (`Tick`), and time passes
  (`BatchAges`). Nothing is assumed of Gemini, nor of crashes: `NoBatchStuck` has
  the premise that executions do not crash for ever.
- *Editorial*: Cloud Tasks retries a task until it is answered 2xx (strong
  fairness of `Deliver`, per nomination), an attempt goes on. The liveness
  properties have the premise that attempts do not fail for ever.
- *Distillation*: cron and watchdog start runs (weak fairness of some `Start`), runs
  and chains that have started go on. `OrphansReturn` has the premises that runs do not
  fail for ever and that the ids, of which the instance has two, do not run out;
  `ChainDrains` leaves dead chains out. No chain need ever start.
- *Enrichment*: the timer starts passes, time passes, passes and chains go on. Trends
  in `Hopeless` fail every time; of the others failures are bounded by `MaxFailures`. A chain
  of a hopeless trend goes on to its agent, which proposes nothing.
- *Sourcing*: the scheduler polls, a request goes on, the warehouse works its calls off,
  headers age, and the catalog is synced. Faults are bounded in the same way.
- *Prediction* and *agents* have no fairness: their properties are about safety.
- *Promotion* has no fairness and no liveness property: its load query takes the
  best-ranked candidates, and nothing in the code promises that each is reached.

## 4. Findings

Two statements of the repository do not hold of the code; each has a run.

1. *"one accepted nomination -> one editorial trend"* (`handler.py:1`): two
   attempts alive at once mint two trends (`editorial_overlap`).
2. *"Oldest-first makes repeated runs round-robin the whole pool, which is what a cap is
   supposed to do"* (`services/prediction/prediction_service/matching/predictions.py:125-127`):
   calls that have expired for good are cut into the page and skipped afterwards; they
   get no new row, so they stay its oldest. Once as many as the cap have, no sweep
   evaluates a live call (`prediction_starved`).

Four more are not true as they stand. They have no run of their own: the models behave as
the code does, and a property that holds names the exception.

- *"so that a network failure never creates two trends"*
  (`docs/prd/editorial-trend-ingest-endpoint.md:71`), and "there is no retry loop here"
  (`handler.py:15`): the client of the service executes the promotion again when its
  response is lost, and the procedure mints another trend, within one attempt. Such a
  nomination is `repeated` in `OneTrendUnlessRepeated`.
- *"true timeout orphans"* (`sql/proc_release_stale_signal_claims.sql:2`): a run that
  waits for its cluster agent has claimed and has no candidate yet; a run that starts
  beside it releases its claims. Such runs are `together` in `OneWriterUnlessTogether`.
- *"so a concurrent revisit firing (manual + cron racing) can't double-process"*
  (`prepare_chain/entry.mjs:219-220`): the pool is read long before it is stamped, and
  both chains have it in their queues. They are `prepared` in `OneWriterUnlessTogether`.
- *"`header_recorded` tells the caller whether the run's terminal state actually
  reached"* the ledger (`run_sourcing.mjs:97-98`): a completion that was applied, its
  response lost, is refused when sent again; the receipt says failed and not recorded,
  the header has its verdict. `ReceiptIsRecorded` claims nothing of such receipts.

## 5. What is proved

Every theorem holds for all values of the constants that satisfy the modules' named
assumptions: any number of trends, batches, executions, candidates, runs, nominations,
attempts, signals, sessions, chains, requests, sources, products, dispatches and tiers.

- *Type correctness* of all eight specifications with a proof module, with no assumption
  on the flags (`TypeCorrect` in each), and `LeadersFirstCorrect`, likewise for
  overlapping runs.
- In `Editorial` and `SignalClaims`, with no assumption on `Overlap`, that `Inv` and
  `ClaimsInv` are inductive (`InvCorrect`), and from them each safety property and each
  refinement their passing runs check, for any number of lost responses and any overlap.
- Under `~Overlap` (and `~Detached` for the lifecycle job), in `LifecycleTick` and
  `Promotion`, that `SerialInv` is inductive (`SerialCorrect`), and from it each safety
  property and each refinement their runs check. Some theorems go
  beyond the runs: one batch in flight (`AtMostOneCorrect`),
  RETIRED ended by a nomination only (`RetiredIsFinalCorrect`), a batch closed once
  (`ClosesOnceCorrect`), and candidates and trends that agree (`OutcomesAgreeCorrect`).
- In `PredictionLedger`, `OneRowPerEvaluation`, whatever the overlap (`EvaluatedOnce`), and
  `ClosedStaysClosed` (`ClosedCorrect`), whose own premise is that requests have followed
  one another; and `RemintedAfterClosing` under `Overlap # "any"` (`RemintedCorrect`).
- In `EnrichmentChain`, `IdentityRecorded`, `IdentityFrozen`, `CoverageKept` and
  `RetriesBounded`, whatever passes and chains overlap.
- In `AgentRuns`, `AnswersInPlace`, `OneDecisionPerCandidate` and `SilenceMeansHealth`, and
  that each run of each agent implements `ToolLoop` (`LoopsCorrect`).
- In `Sourcing`, `VerdictWithCandidates` and `ReceiptIsRecorded`, with no assumption but
  those on the constants: any number of requests, attempts and completions in flight.

With these a theorem states each safety property, action property and refinement that a
passing run checks.

The argument. None of the safety properties is inductive: whether a decision may
be applied depends on what its execution read several statements ago. The
strengthening is `Knows`: for each program counter, what the executing program
may still rely on. In `LifecycleTick`, an execution that will call the procedure
holds a SUBMITTED batch, and each pending decision is for a trend of the batch that
has no ledger row younger than the batch; that this stays true until the row is
written is where `~Overlap` and `~Detached` are used. `LedgerTimes` links rows to
batches, which gives `OneApplicationPerBatch`; `NoRetiredInFlight` (a trend of the
open batch not yet evaluated is not RETIRED) gives `TwoCycleRetirement` and
`RetiredIsFinal`. In `Promotion`, a run's candidates are pending and its bundle has
one decision on each; in `Editorial`, an attempt that is about to promote holds an
unpromoted nomination (`Fresh`), as long as it is the only execution of that nomination,
late ones included (`AloneOn`); a nomination that ever had two is `repeated`, and nothing
is claimed of it but that it is promoted when it is answered. The lemmas about the procedure's decisions come first in
both proof modules, in `Editorial_proofs` for promotions only, the one decision the
service makes. `LeadersFirst` rests on `LeadersLead`: no
leader is a follower in the same bundle.

In `SignalClaims` the strengthening is `RunKnows` and `ChainKnows`: what a run that was
alone has acquired and claimed, or written from, is stamped by itself or by a chain. Only
another run could release those stamps, and while it is live the first is `together` with
it, or has ended: with candidates its stamps are no orphans, without it has no signals
(`AloneKeeps`). Of chains, what one has selected (`Selected`) and another selects later
are disjoint, because the first has stamped before the second reads, unless both are in
preparation, which puts them in `prepared`. Steps of a run leave chains' stamps alone and
steps of a chain only add their own (`RunLeavesChains`, `ChainLeavesRuns`), so each half
of the invariant needs a proof only against its own steps.

In `EnrichmentChain`, `WritesRecorded` says that a chain that is about to set a name or a
category has its output in the ledger already, because the procedure appends first; with
it `IdentityRecorded` is inductive. Chains change only their own trend's rows, so the
lemmas are per chain. `RetriesBounded` counts fires, so its invariant `RetryInv` counts
too: the fires of a trend and the live passes that may still fire it (`Owing`) are
together at most the passes started. A pass joins `Owing` when it starts and leaves it
when it fires the trend, or ends, so a fire moves one from one side to the other; a
second iteration promotes anew but retries nothing, which is why a pass owes a promoted
trend one fire at most.

In `AgentRuns` the inductive invariant is `AgentsInv`. `LeadKnows` has the clusters and
what the bundle may hold while the fan-out is open; `VerifiersKnow`, that a verifier
that answered a decision answered its own; `AuditKnows`, how report, ledger row and
message relate at each step. The handlers, more than forty, take steps of few kinds (a run goes
on in its loop, a run answers, the lead dispatches, the fan-out moves), so each kind is
shown to keep the invariant once, and each handler to be of a kind. The refinement of
`ToolLoop` follows the same kinds: a loop step of a run is a step of its loop, an answer
ends the loop, and any step leaves the loops of the other runs as they are. Only a
dispatch needs an invariant, `DispatchedOnce`: a run that is dispatched has not run
before, else its loop would start a second time. `ReportGrades` and
`GreenIsHealthy` are about the fold of the audit's report alone.

In `PredictionLedger` the strengthening is `ClosedInv`: as long as requests have
followed one another, one request at most is at work, and it reads a ledger older
than its own moment, so each row it has still to write comes after every row of its
call, none of them final (`TodoFollows`); hence a final row is the last (`FinalIsLast`).
`RemintedAfterClosing` needs less, that requests at work together are attempts of one
chain (`OneChain`): such a request has read everything other chains minted, so what it
has still to mint repeats the subject of no open call of theirs (`MintsFollow`). That a
call keeps its claim and horizon (`SameCall`) carries this from one row of a call to its
others. The assumption cannot be dropped: with `Overlap = "any"` a request by hand and a
scheduled one both read the live subjects before either mints, and both take up the same
subject (TLC finds this in nine steps).

In `Sourcing` the invariant `SourcingInv` adds two facts to the properties. An attempt is
left whenever one is sent (`AttemptLeft`), which types `tries`. Every plan, those in
completions whose request died included, says matched exactly when it shows candidates and
picks some (`PlansConsistent`; `PlanOf` proves it of `buildSourcingRunPlan` for any pool
and any emission of the model). A running header has no rows, picks or verdict, so the
one completion that finds it running gives it all of them, from one plan; no later one
writes (`StatusStays`), so a receipt stays true once it is. Only the
response to the completion that was applied sets `recorded`, and with it a verdict in the
receipt (`RecordedIsTold` has it set at no earlier step).

The refinements are proved as usual: initial states map to initial states, and
each action maps to an abstract action or a stutter.

Only model-checked:

- the liveness properties (`NoBatchStuck`, `NominationSettles`, `RetiredTargetRevived`,
  `OrphansReturn`, `ChainDrains`, `EnrichedInTheEnd`, `SourcedInTheEnd`), since liveness
  under fairness is beyond TLAPS here;
- the two statements that runs refute (section 4), which no theorem could state.

## 6. What could come next

1. The continue POST of the revisit chain: a dead chain revived by hand, a live one
   doubled; `SignalClaims` then needs the second INSERT of a batch's candidates.
2. Time in `SignalClaims`, for the watchdog's threshold and lockout.
3. Pure functions: heat smoothing and the evaluation clamp, `classifyCandidate`, `binPack`.

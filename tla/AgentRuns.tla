----------------------------- MODULE AgentRuns ------------------------------
(***************************************************************************)
(* The agents that work for another workflow over HTTP, each a copy of the *)
(* tool loop of ToolLoop with tools of its own:                            *)
(*                                                                         *)
(*   distill    distillation-cluster-agent's lead, which may dispatch      *)
(*              distillation-subagents from its loop                       *)
(*   promote    promotion's lead, which has no loop: it gates and clusters *)
(*              its candidates and dispatches promotion-agents             *)
(*   attribute  lifecycle-attribution-agent, which dispatches              *)
(*              lifecycle-attribution-subagents and waits for none         *)
(*   enrich     enrichment's agent, which dispatches nobody                *)
(*   audit      the audit agent, with the ledger and Slack steps after it  *)
(*                                                                         *)
(* A caller runs a bounded number of requests at a time, gives up on one   *)
(* after a time, and puts what comes back in the slot of its dispatch.  A  *)
(* subagent knows nothing of that: it goes on after its caller gave up.    *)
(* Any execution may be killed by its time limit.                          *)
(*                                                                         *)
(* One scene is played per behaviour.  Prompts, pools and what the model   *)
(* writes are left open.                                                   *)
(***************************************************************************)
EXTENDS FiniteSets, AuditReport

CONSTANTS
  Scenes,       \* a subset of {"distill", "promote", "attribute", "enrich", "audit"}
  Width,        \* dispatches of a fan-out
  Concurrency,  \* requests in flight
  MaxTurns, Budget, MaxCost,
  MaxCalls,     \* per run: tool calls the model may answer with
  Signals       \* signals an attribution list may name

ASSUME ScenesAssumption ==
  Scenes \subseteq {"distill", "promote", "attribute", "enrich", "audit"}
ASSUME WidthAssumption == Width \in Nat /\ Concurrency \in Nat \ {0}
ASSUME LimitsAssumption ==
  MaxTurns \in Nat /\ Budget \in Nat \ {0} /\ MaxCost \in Nat /\ MaxCalls \in [0..Width -> Nat]

Lead == 0
Subs == 1..Width
Runs == 0..Width

VARIABLES
  scene,
  gated,     \* candidates promotion's gate rejects
  leader,    \* per candidate: the leader of its cluster
  readings,  \* what the audit's queries read
  at,        \* per run: the step it executes next
  turn, spent, calls,  \* per run: its loop
  kept,      \* per run: candidates propose_trend_candidate accepted
  checks,    \* per promotion subagent: what its Exploding Topics lookups found
  decision,  \* per promotion subagent: context.decision
  picks,     \* per attribution subagent: how often its list names a signal
  proposal,  \* the status of the audit's proposed_report
  reply,     \* per run: what it answered
  sent,      \* dispatches so far
  queue,     \* dispatches no worker of the fan-out has taken
  slot,      \* per dispatch: what its caller holds of it
  bundle,    \* what promotion decided on its candidates
  links,     \* per attribution subagent's trend: rows of a signal
  report,    \* what the audit reports
  ledgered,  \* the report in FCT_AUDIT_LEDGER
  posted     \* the report sent to Slack

loopVars == <<turn, spent, calls>>
toolVars == <<kept, checks, decision, picks, proposal>>
fanoutVars == <<sent, queue, slot>>
audit == <<report, ledgered, posted>>
given == <<scene, gated, leader, readings>>
vars == <<given, at, loopVars, toolVars, reply, fanoutVars, bundle, links, audit>>

Decisions == {"PROMOTE_NEW", "PROMOTE_ON_ET", "MERGE_INTO_EXISTING", "REJECT", "DEFER"}
Verdicts == {"NOISE", "REAL_TREND", "REAL_TREND_SPLIT", "ERROR"}
Replies ==
  Decisions \cup Verdicts \cup {"DEFER_ON_ERROR", "done", "candidates", "output", "nothing"}
Stages == {"idle", "request", "model", "tools", "await", "ended", "error", "reported",
           "posting", "answered", "dead"}

GivenTypes ==
  /\ scene \in Scenes
  /\ gated \in SUBSET Subs
  /\ leader \in [Subs -> Subs]
  /\ readings \in Readings

LoopTypes ==
  /\ at \in [Runs -> Stages]
  /\ turn \in [Runs -> 0..MaxTurns]
  /\ spent \in [Runs -> 0..(Budget - 1 + MaxCost)]
  /\ calls \in [Runs -> Nat]
  /\ \A r \in Runs : calls[r] <= MaxCalls[r] /\ (at[r] = "tools" => calls[r] > 0)

ToolTypes ==
  /\ kept \in [Runs -> Nat]
  /\ checks \in [Subs -> SUBSET {"hit", "miss"}]
  /\ decision \in [Subs -> Decisions \cup {"none"}]
  /\ picks \in [Subs -> [Signals -> 0..2]]
  /\ proposal \in Statuses \cup {"none"}

FanoutTypes ==
  /\ sent \in 0..Width
  /\ queue \in SUBSET Subs
  /\ slot \in [Subs -> Replies \cup {"none", "open", "error"}]

ResultTypes ==
  /\ reply \in [Runs -> Replies \cup {"none"}]
  /\ bundle \in SUBSET [candidate : Subs, decision : Decisions \cup {"MERGE_INTO_CANDIDATE"}]
  /\ links \in [Subs -> [Signals -> 0..2]]
  /\ report \in Reports \cup {NoReport}
  /\ ledgered \in Reports \cup {NoReport}
  /\ posted \in Reports \cup {NoReport}
  /\ at[Lead] \in {"reported", "posting"} => report \in Reports

TypeOK == GivenTypes /\ LoopTypes /\ ToolTypes /\ FanoutTypes /\ ResultTypes

AllWell == [catalog |-> [t \in Tiers |-> 3], tiktok |-> 25, stuck |-> 0, overdue |-> 0]

\* A cluster has one leader, a survivor of the gate as all of it.
Clustered ==
  \A i \in Subs :
    /\ leader[leader[i]] = leader[i]
    /\ i \in gated => leader[i] = i
    /\ leader[i] \in gated => leader[i] = i

Init ==
  /\ scene \in Scenes
  /\ gated \in SUBSET Subs
  /\ leader \in [Subs -> Subs]
  /\ Clustered
  /\ scene # "promote" => gated = {} /\ leader = [i \in Subs |-> i]
  /\ readings \in IF scene = "audit" THEN Readings ELSE {AllWell}
  /\ at = [r \in Runs |-> IF r = Lead THEN "request" ELSE "idle"]
  /\ turn = [r \in Runs |-> 0]
  /\ spent = [r \in Runs |-> 0]
  /\ calls = [r \in Runs |-> 0]
  /\ kept = [r \in Runs |-> 0]
  /\ checks = [i \in Subs |-> {}]
  /\ decision = [i \in Subs |-> "none"]
  /\ picks = [i \in Subs |-> [s \in Signals |-> 0]]
  /\ proposal = "none"
  /\ reply = [r \in Runs |-> "none"]
  /\ sent = 0
  /\ queue = {}
  /\ slot = [i \in Subs |-> "none"]
  /\ bundle = {}
  /\ links \in [Subs -> [Signals -> IF scene = "attribute" THEN {0, 1} ELSE {0}]]
  /\ report = NoReport /\ ledgered = NoReport /\ posted = NoReport

----------------------------------------------------------------------------
(* What the copies of the loop share. *)

Move(r, where) == at' = [at EXCEPT ![r] = where]

\* A run whose prompt row is missing or empty ends before its loop (mustGet throws).
Prompted(r) == \E where \in {"model", "dead"} : Move(r, where)

\* The model answers: usage is added up, and with no tool call the loop ends.
ModelAnswers(r) ==
  \E cost \in 0..MaxCost, n \in 0..MaxCalls[r] :
    /\ turn' = [turn EXCEPT ![r] = @ + 1]
    /\ spent' = [spent EXCEPT ![r] = @ + cost]
    /\ calls' = [calls EXCEPT ![r] = n]
    /\ Move(r, IF n = 0 THEN "ended" ELSE "tools")

\* The fetch fails or times out, or the model answers with an HTTP error.
ModelFails(r) ==
  /\ turn' = [turn EXCEPT ![r] = @ + 1]
  /\ Move(r, "error")
  /\ UNCHANGED <<spent, calls>>

\* A limit stops the loop at its top; running out of budget still counts a turn.
LoopStops(r) ==
  /\ turn' = [turn EXCEPT ![r] = IF @ < MaxTurns THEN @ + 1 ELSE @]
  /\ Move(r, "ended")
  /\ UNCHANGED <<spent, calls>>

\* Mutant: only the first of a turn's tool calls runs.
ToolReturnsFirst(r) ==
  /\ Move(r, "model")
  /\ calls' = [calls EXCEPT ![r] = 0]
  /\ UNCHANGED <<turn, spent>>

\* A tool call has returned: the next one runs, or the model is called again.
ToolReturns(r) ==
  /\ calls' = [calls EXCEPT ![r] = @ - 1]
  /\ Move(r, IF calls[r] = 1 THEN "model" ELSE "tools")
  /\ UNCHANGED <<turn, spent>>

----------------------------------------------------------------------------
(* What the copies of the fan-out share. *)

Open == {i \in Subs : slot[i] = "open"}

\* A worker takes the next dispatch; its request may not arrive.
Take(i) ==
  /\ i \in queue
  /\ \A k \in queue : i <= k
  /\ Cardinality(Open) < Concurrency
  /\ queue' = queue \ {i}
  /\ slot' = [slot EXCEPT ![i] = "open"]
  /\ at' \in {at, [at EXCEPT ![i] = "request"]}
  /\ UNCHANGED sent

\* Mutant: answers are kept in the order they come in, not at their index.
SettleInOrder(i) ==
  LET Unanswered == {k \in Subs : slot[k] \notin Replies} IN
  /\ i \in Open
  /\ at[i] = "answered"
  /\ slot' = [slot EXCEPT ![CHOOSE k \in Unanswered : \A j \in Unanswered : k <= j] = reply[i]]
  /\ UNCHANGED <<at, sent, queue>>

\* The response arrives in time.
Settle(i) ==
  /\ i \in Open
  /\ at[i] = "answered"
  /\ slot' = [slot EXCEPT ![i] = reply[i]]
  /\ UNCHANGED <<at, sent, queue>>

\* perCallTimeoutMs runs out, the connection breaks, or an HTTP error comes back;
\* a run that lives goes on.
Abort(i) ==
  /\ i \in Open
  /\ slot' = [slot EXCEPT ![i] = "error"]
  /\ UNCHANGED <<at, sent, queue>>

Dispatch(batch) ==
  /\ queue' = batch
  /\ sent' = sent + Cardinality(batch)
  /\ UNCHANGED slot

AllIn == queue = {} /\ Open = {}

----------------------------------------------------------------------------
(* distill: the cluster agent's lead. *)

\* The tools offered to the lead, by what they do.  discover_external_tools is a
\* lookup: it shows the schemas of the ingest tools.
ClusterTools == {"lookup", "ingest", "dispatch", "propose"}

\* handle_request throws on a body without signal ids.
ClusterRefused == Move(Lead, "dead")

\* A dry run never reaches the loop.
ClusterRequest ==
  /\ scene = "distill" /\ at[Lead] = "request"
  /\ ClusterRefused \/ Prompted(Lead) \/ Move(Lead, "ended")
  /\ UNCHANGED <<given, loopVars, toolVars, reply, fanoutVars, bundle, links, audit>>

\* Mutant: the loop stops when the budget is exceeded, not when it is used up.
ClusterTurnUnmetered ==
  /\ scene = "distill" /\ at[Lead] = "model"
  /\ IF turn[Lead] = MaxTurns \/ spent[Lead] > Budget
     THEN LoopStops(Lead)
     ELSE ModelAnswers(Lead) \/ ModelFails(Lead)
  /\ UNCHANGED <<given, toolVars, reply, fanoutVars, bundle, links, audit>>

ClusterTurn ==
  /\ scene = "distill" /\ at[Lead] = "model"
  /\ IF turn[Lead] = MaxTurns \/ spent[Lead] >= Budget
     THEN LoopStops(Lead)
     ELSE ModelAnswers(Lead) \/ ModelFails(Lead)
  /\ UNCHANGED <<given, toolVars, reply, fanoutVars, bundle, links, audit>>

\* Lookups in the pools of the request, URL checks, and the ingest endpoints,
\* whose errors are results: nothing stays.
ClusterLookup ==
  /\ scene = "distill" /\ at[Lead] = "tools"
  /\ ToolReturns(Lead)
  /\ UNCHANGED <<given, toolVars, reply, fanoutVars, bundle, links, audit>>

\* A proposal without a query is not accepted.
ClusterPropose ==
  /\ scene = "distill" /\ at[Lead] = "tools"
  /\ ToolReturns(Lead)
  /\ \E query \in BOOLEAN : kept' = [kept EXCEPT ![Lead] = IF query THEN @ + 1 ELSE @]
  /\ UNCHANGED <<given, checks, decision, picks, proposal, reply, fanoutVars, bundle, links, audit>>

\* dispatch_subagent: the loop waits for the fan-out.
ClusterDispatch ==
  /\ scene = "distill" /\ at[Lead] = "tools"
  /\ sent < Width
  /\ \E n \in 1..(Width - sent) : Dispatch((sent + 1)..(sent + n))
  /\ Move(Lead, "await")
  /\ UNCHANGED <<given, loopVars, toolVars, reply, bundle, links, audit>>

\* dispatchTool.
ClusterTool(tool) ==
  CASE tool = "dispatch" -> ClusterDispatch
    [] tool = "propose" -> ClusterPropose
    [] OTHER -> ClusterLookup

ClusterResume ==
  /\ scene = "distill" /\ at[Lead] = "await"
  /\ AllIn
  /\ ToolReturns(Lead)
  /\ UNCHANGED <<given, toolVars, reply, fanoutVars, bundle, links, audit>>

ClusterFanout ==
  /\ scene = "distill" /\ at[Lead] = "await"
  /\ \E i \in Subs : Take(i) \/ Settle(i) \/ Abort(i)
  /\ UNCHANGED <<given, loopVars, toolVars, reply, bundle, links, audit>>

\* The result goes back; a loop that failed answers too, without what it kept.
ClusterAnswer ==
  /\ scene = "distill" /\ at[Lead] \in {"ended", "error"}
  /\ reply' = [reply EXCEPT ![Lead] =
                 IF at[Lead] = "ended" /\ kept[Lead] > 0 THEN "candidates" ELSE "nothing"]
  /\ Move(Lead, "answered")
  /\ UNCHANGED <<given, loopVars, toolVars, fanoutVars, bundle, links, audit>>

----------------------------------------------------------------------------
(* distill: a distillation-subagent. *)

SubagentTools == {"lookup", "propose"}

\* handle_request throws on an empty hypothesis, and without a valid signal id.
SubagentRefused(i) == Move(i, "dead")

SubagentRequest(i) ==
  /\ scene = "distill" /\ at[i] = "request"
  /\ SubagentRefused(i) \/ Prompted(i)
  /\ UNCHANGED <<given, loopVars, toolVars, reply, fanoutVars, bundle, links, audit>>

SubagentTurn(i) ==
  /\ scene = "distill" /\ at[i] = "model"
  /\ IF turn[i] = MaxTurns \/ spent[i] >= Budget
     THEN LoopStops(i)
     ELSE ModelAnswers(i) \/ ModelFails(i)
  /\ UNCHANGED <<given, toolVars, reply, fanoutVars, bundle, links, audit>>

SubagentLookup(i) ==
  /\ scene = "distill" /\ at[i] = "tools"
  /\ ToolReturns(i)
  /\ UNCHANGED <<given, toolVars, reply, fanoutVars, bundle, links, audit>>

\* A proposal on fewer than two signals is not accepted.
SubagentPropose(i) ==
  /\ scene = "distill" /\ at[i] = "tools"
  /\ ToolReturns(i)
  /\ \E signals \in {1, 2} : kept' = [kept EXCEPT ![i] = IF signals >= 2 THEN @ + 1 ELSE @]
  /\ UNCHANGED <<given, checks, decision, picks, proposal, reply, fanoutVars, bundle, links, audit>>

SubagentTool(i, tool) == IF tool = "propose" THEN SubagentPropose(i) ELSE SubagentLookup(i)

\* By the number of proposals.  NOISE stands for CATEGORY_TOO_BROAD too, which the
\* text may say; REAL_TREND for whatever the one proposal calls itself.
derivedVerdict(n) ==
  IF n = 0 THEN "NOISE" ELSE IF n = 1 THEN "REAL_TREND" ELSE "REAL_TREND_SPLIT"

SubagentAnswer(i) ==
  /\ scene = "distill" /\ at[i] \in {"ended", "error"}
  /\ reply' = [reply EXCEPT ![i] = IF at[i] = "ended" THEN derivedVerdict(kept[i]) ELSE "ERROR"]
  /\ Move(i, "answered")
  /\ UNCHANGED <<given, loopVars, toolVars, fanoutVars, bundle, links, audit>>

----------------------------------------------------------------------------
(* promote: the lead. *)

Followers == {i \in Subs : leader[i] # i}

Gated == {[candidate |-> i, decision |-> "REJECT"] : i \in gated}
Merged == {[candidate |-> i, decision |-> "MERGE_INTO_CANDIDATE"] : i \in Followers}

\* Mutant: a follower is dispatched as well.
Survivors == Subs \ gated

\* Leaders and candidates in no cluster.
Dispatched == Subs \ (gated \cup Followers)

\* The gate's rejects and the followers are decided here; the others are sent
\* to a subagent.  A dry run decides nothing.
PromotionPass ==
  /\ scene = "promote" /\ at[Lead] = "request"
  /\ \/ /\ bundle' = Gated \cup Merged
        /\ Dispatch(Dispatched)
        /\ Move(Lead, "await")
     \/ /\ Move(Lead, "ended")
        /\ UNCHANGED <<fanoutVars, bundle>>
  /\ UNCHANGED <<given, loopVars, toolVars, reply, links, audit>>

PromotionFanout ==
  /\ scene = "promote" /\ at[Lead] = "await"
  /\ \E i \in Subs : Take(i) \/ Settle(i) \/ Abort(i)
  /\ UNCHANGED <<given, loopVars, toolVars, reply, bundle, links, audit>>

\* An answer that carries an error is a failed dispatch, whatever it decided.
PromotionCollect ==
  /\ scene = "promote" /\ at[Lead] = "await"
  /\ AllIn
  /\ bundle' = bundle \cup {[candidate |-> i, decision |-> slot[i]] :
                              i \in {j \in Dispatched : slot[j] \in Decisions}}
  /\ Move(Lead, "ended")
  /\ UNCHANGED <<given, loopVars, toolVars, reply, fanoutVars, links, audit>>

----------------------------------------------------------------------------
(* promote: a promotion-agent. *)

VerifierTools == {"compare", "explode", "propose"}

\* handle_request throws on a missing topic and on an unknown verdict.
VerifierRefused(i) == Move(i, "dead")

VerifierRequest(i) ==
  /\ scene = "promote" /\ at[i] = "request"
  /\ VerifierRefused(i) \/ Prompted(i)
  /\ UNCHANGED <<given, loopVars, toolVars, reply, fanoutVars, bundle, links, audit>>

\* A decision ends the loop as a limit does.
VerifierTurn(i) ==
  /\ scene = "promote" /\ at[i] = "model"
  /\ IF turn[i] = MaxTurns \/ spent[i] >= Budget \/ decision[i] # "none"
     THEN LoopStops(i)
     ELSE ModelAnswers(i) \/ ModelFails(i)
  /\ UNCHANGED <<given, toolVars, reply, fanoutVars, bundle, links, audit>>

VerifierCompare(i) ==
  /\ scene = "promote" /\ at[i] = "tools"
  /\ ToolReturns(i)
  /\ UNCHANGED <<given, toolVars, reply, fanoutVars, bundle, links, audit>>

\* normalizeEtResponse: an error status, an unusable body and the two messages of
\* an empty result are misses.
Normalized(status, hits) == IF status = 200 /\ hits > 0 THEN "hit" ELSE "miss"

\* A lookup that failed or timed out is kept as one that found nothing.
VerifierLookup(i) ==
  /\ scene = "promote" /\ at[i] = "tools"
  /\ ToolReturns(i)
  /\ \E status \in {200, 403}, hits \in {0, 1} :
       checks' = [checks EXCEPT ![i] = @ \cup {Normalized(status, hits)}]
  /\ UNCHANGED <<given, kept, decision, picks, proposal, reply, fanoutVars, bundle, links, audit>>

\* Exploding Topics counts as second source only after a lookup, and only for a
\* promotion (buildEtSnapshot).
Accepted(i, wanted) ==
  IF wanted = "PROMOTE_ON_ET" /\ checks[i] = {} THEN "PROMOTE_NEW" ELSE wanted

\* The latest accepted call stands; one that lacks a field, or names a target
\* that was not surfaced, is refused and changes nothing.
VerifierPropose(i) ==
  /\ scene = "promote" /\ at[i] = "tools"
  /\ ToolReturns(i)
  /\ \E wanted \in Decisions : decision' = [decision EXCEPT ![i] = Accepted(i, wanted)]
  /\ UNCHANGED <<given, kept, checks, picks, proposal, reply, fanoutVars, bundle, links, audit>>

VerifierTool(i, tool) ==
  CASE tool = "propose" -> VerifierPropose(i)
    [] tool = "explode" -> VerifierLookup(i)
    [] OTHER -> VerifierCompare(i)

\* Without a decision the candidate is deferred; after an error too, but that
\* answer carries the error.
VerifierAnswer(i) ==
  /\ scene = "promote" /\ at[i] \in {"ended", "error"}
  /\ reply' = [reply EXCEPT ![i] =
                 IF at[i] = "error" THEN "DEFER_ON_ERROR"
                 ELSE IF decision[i] = "none" THEN "DEFER" ELSE decision[i]]
  /\ Move(i, "answered")
  /\ UNCHANGED <<given, loopVars, toolVars, fanoutVars, bundle, links, audit>>

----------------------------------------------------------------------------
(* attribute: the sweep. *)

SweepPass ==
  /\ scene = "attribute" /\ at[Lead] = "request"
  /\ \/ Dispatch(Subs) /\ Move(Lead, "await")
     \/ Move(Lead, "ended") /\ UNCHANGED fanoutVars
  /\ UNCHANGED <<given, loopVars, toolVars, reply, bundle, links, audit>>

SweepFanout ==
  /\ scene = "attribute" /\ at[Lead] = "await"
  /\ \E i \in Subs : Take(i) \/ Settle(i) \/ Abort(i)
  /\ UNCHANGED <<given, loopVars, toolVars, reply, bundle, links, audit>>

SweepReport ==
  /\ scene = "attribute" /\ at[Lead] = "await"
  /\ AllIn
  /\ Move(Lead, "ended")
  /\ UNCHANGED <<given, loopVars, toolVars, reply, fanoutVars, bundle, links, audit>>

----------------------------------------------------------------------------
(* attribute: a lifecycle-attribution-subagent. *)

AttributorTools == {"filter", "commit"}

\* handle_request throws on an invalid trend id.
AttributorRefused(i) == Move(i, "dead")

\* A trend that is gone is an error; with no candidate signals, and in a dry run,
\* there is nothing to ask.
AttributorRequest(i) ==
  /\ scene = "attribute" /\ at[i] = "request"
  /\ AttributorRefused(i) \/ Prompted(i) \/ \E where \in {"ended", "dead"} : Move(i, where)
  /\ UNCHANGED <<given, loopVars, toolVars, reply, fanoutVars, bundle, links, audit>>

\* A 5xx is tried once more within the turn, which changes nothing.
AttributorTurn(i) ==
  /\ scene = "attribute" /\ at[i] = "model"
  /\ IF turn[i] = MaxTurns \/ spent[i] >= Budget
     THEN LoopStops(i)
     ELSE ModelAnswers(i) \/ ModelFails(i)
  /\ UNCHANGED <<given, toolVars, reply, fanoutVars, bundle, links, audit>>

AttributorFilter(i) ==
  /\ scene = "attribute" /\ at[i] = "tools"
  /\ ToolReturns(i)
  /\ UNCHANGED <<given, toolVars, reply, fanoutVars, bundle, links, audit>>

\* commit_attributions: the latest list stands, whatever it names and repeats.
AttributorPick(i) ==
  /\ scene = "attribute" /\ at[i] = "tools"
  /\ ToolReturns(i)
  /\ \E list \in [Signals -> 0..2] : picks' = [picks EXCEPT ![i] = list]
  /\ UNCHANGED <<given, kept, checks, decision, proposal, reply, fanoutVars, bundle, links, audit>>

AttributorTool(i, tool) == IF tool = "commit" THEN AttributorPick(i) ELSE AttributorFilter(i)

\* INSERT ... WHERE NOT EXISTS: a signal already linked stays as it is; one the
\* list repeats is inserted as often.
Inserted(i) ==
  [s \in Signals |-> IF links[i][s] > 0 THEN links[i][s] ELSE picks[i][s]]

AttributorAnswer(i) ==
  /\ scene = "attribute" /\ at[i] = "ended"
  /\ links' = [links EXCEPT ![i] = Inserted(i)]
  /\ reply' = [reply EXCEPT ![i] = "done"]
  /\ Move(i, "answered")
  /\ UNCHANGED <<given, loopVars, toolVars, fanoutVars, bundle, audit>>

\* An error of the loop is thrown on: nothing is committed.
AttributorFails(i) ==
  /\ scene = "attribute" /\ at[i] = "error"
  /\ Move(i, "dead")
  /\ UNCHANGED <<given, loopVars, toolVars, reply, fanoutVars, bundle, links, audit>>

----------------------------------------------------------------------------
(* enrich: the enrichment agent. *)

EnricherReads == {"lookup"}
EnricherWrites == {"ingest", "propose"}
EnricherTools == EnricherReads \cup EnricherWrites

\* normalize_event throws on an invalid trend id.
EnricherRefused == Move(Lead, "dead")

\* A trend without its row is an error; a dry run never reaches the loop.
EnricherRequest ==
  /\ scene = "enrich" /\ at[Lead] = "request"
  /\ EnricherRefused \/ Prompted(Lead) \/ \E where \in {"ended", "dead"} : Move(Lead, where)
  /\ UNCHANGED <<given, loopVars, toolVars, reply, fanoutVars, bundle, links, audit>>

EnricherTurn ==
  /\ scene = "enrich" /\ at[Lead] = "model"
  /\ IF turn[Lead] = MaxTurns \/ spent[Lead] >= Budget
     THEN LoopStops(Lead)
     ELSE ModelAnswers(Lead) \/ ModelFails(Lead)
  /\ UNCHANGED <<given, toolVars, reply, fanoutVars, bundle, links, audit>>

\* Reads of the pools, and the ingest endpoints: an error is a result.
EnricherLookup ==
  /\ scene = "enrich" /\ at[Lead] = "tools"
  /\ ToolReturns(Lead)
  /\ UNCHANGED <<given, toolVars, reply, fanoutVars, bundle, links, audit>>

\* The latest proposal stands, whatever it holds.
EnricherPropose ==
  /\ scene = "enrich" /\ at[Lead] = "tools"
  /\ ToolReturns(Lead)
  /\ kept' = [kept EXCEPT ![Lead] = 1]
  /\ UNCHANGED <<given, checks, decision, picks, proposal, reply, fanoutVars, bundle, links, audit>>

EnricherTool(tool) == IF tool = "propose" THEN EnricherPropose ELSE EnricherLookup

\* A loop that failed ends the workflow, with what it had proposed.
EnricherAnswer ==
  /\ scene = "enrich"
  /\ \/ /\ at[Lead] = "ended"
        /\ reply' = [reply EXCEPT ![Lead] = IF kept[Lead] = 1 THEN "output" ELSE "nothing"]
        /\ Move(Lead, "answered")
     \/ at[Lead] = "error" /\ Move(Lead, "dead") /\ UNCHANGED reply
  /\ UNCHANGED <<given, loopVars, toolVars, fanoutVars, bundle, links, audit>>

----------------------------------------------------------------------------
(* audit: the audit agent. *)

AuditTools == {"query", "propose"}

\* fetch_pipedream_errors throws without a key; one workflow whose errors cannot be
\* fetched is noted, and the audit goes on.
AuditErrorsUnread == Move(Lead, "dead")

\* A query that fails ends the workflow.
AuditRequest ==
  /\ scene = "audit" /\ at[Lead] = "request"
  /\ AuditErrorsUnread \/ Prompted(Lead)
  /\ UNCHANGED <<given, loopVars, toolVars, reply, fanoutVars, bundle, links, audit>>

AuditTurn ==
  /\ scene = "audit" /\ at[Lead] = "model"
  /\ IF turn[Lead] = MaxTurns \/ spent[Lead] >= Budget
     THEN LoopStops(Lead)
     ELSE ModelAnswers(Lead) \/ ModelFails(Lead)
  /\ UNCHANGED <<given, toolVars, reply, fanoutVars, bundle, links, audit>>

AuditLookup ==
  /\ scene = "audit" /\ at[Lead] = "tools"
  /\ ToolReturns(Lead)
  /\ UNCHANGED <<given, toolVars, reply, fanoutVars, bundle, links, audit>>

\* The latest proposal stands.
proposeAuditReport ==
  /\ scene = "audit" /\ at[Lead] = "tools"
  /\ ToolReturns(Lead)
  /\ proposal' \in Statuses
  /\ UNCHANGED <<given, kept, checks, decision, picks, reply, fanoutVars, bundle, links, audit>>

AuditTool(tool) == IF tool = "propose" THEN proposeAuditReport ELSE AuditLookup

\* Mutant: a loop that failed is reported as such.
AuditReportPlain ==
  /\ scene = "audit" /\ at[Lead] \in {"ended", "error"}
  /\ report' = IF at[Lead] = "error"
               THEN [overall |-> "YELLOW", lines |-> {"audit-agent"}]
               ELSE Report(proposal, readings)
  /\ Move(Lead, "reported")
  /\ UNCHANGED <<given, loopVars, toolVars, reply, fanoutVars, bundle, links, ledgered, posted>>

\* A loop that failed loses its proposal and is reported on all the same.
AuditReported ==
  /\ scene = "audit" /\ at[Lead] \in {"ended", "error"}
  /\ report' = Report(IF at[Lead] = "error" THEN "none" ELSE proposal, readings)
  /\ Move(Lead, "reported")
  /\ UNCHANGED <<given, loopVars, toolVars, reply, fanoutVars, bundle, links, ledgered, posted>>

\* The ledger row, which a dry run does without.
AuditCommit ==
  /\ scene = "audit" /\ at[Lead] = "reported"
  /\ ledgered' \in {report, ledgered}
  /\ Move(Lead, "posting")
  /\ UNCHANGED <<given, loopVars, toolVars, reply, fanoutVars, bundle, links, report, posted>>

\* Anything but a GREEN report is sent, and a GREEN one when asked for.  The text is
\* cut at 2000 characters: the lines folded in go first.
AuditPost ==
  /\ scene = "audit" /\ at[Lead] = "posting"
  /\ \/ \E shown \in SUBSET report.lines : posted' = [report EXCEPT !.lines = shown]
     \/ report.overall = "GREEN" /\ UNCHANGED posted
  /\ reply' = [reply EXCEPT ![Lead] = "done"]
  /\ Move(Lead, "answered")
  /\ UNCHANGED <<given, loopVars, toolVars, fanoutVars, bundle, links, report, ledgered>>

----------------------------------------------------------------------------
\* lambda_timeout, or the process is lost.
Kill(r) ==
  /\ at[r] \in {"request", "model", "tools", "await", "ended", "error", "reported", "posting"}
  /\ Move(r, "dead")
  /\ UNCHANGED <<given, loopVars, toolVars, reply, fanoutVars, bundle, links, audit>>

ClusterStep ==
  \/ ClusterRequest \/ ClusterTurn \/ ClusterFanout \/ ClusterResume \/ ClusterAnswer
  \/ \E tool \in ClusterTools : ClusterTool(tool)

SubagentStep(i) ==
  \/ SubagentRequest(i) \/ SubagentTurn(i) \/ SubagentAnswer(i)
  \/ \E tool \in SubagentTools : SubagentTool(i, tool)

PromotionStep == PromotionPass \/ PromotionFanout \/ PromotionCollect

VerifierStep(i) ==
  \/ VerifierRequest(i) \/ VerifierTurn(i) \/ VerifierAnswer(i)
  \/ \E tool \in VerifierTools : VerifierTool(i, tool)

SweepStep == SweepPass \/ SweepFanout \/ SweepReport

AttributorStep(i) ==
  \/ AttributorRequest(i) \/ AttributorTurn(i) \/ AttributorAnswer(i) \/ AttributorFails(i)
  \/ \E tool \in AttributorTools : AttributorTool(i, tool)

EnricherStep ==
  \/ EnricherRequest \/ EnricherTurn \/ EnricherAnswer
  \/ \E tool \in EnricherTools : EnricherTool(tool)

AuditStep ==
  \/ AuditRequest \/ AuditTurn \/ AuditReported \/ AuditCommit \/ AuditPost
  \/ \E tool \in AuditTools : AuditTool(tool)

LeadStep == ClusterStep \/ PromotionStep \/ SweepStep \/ EnricherStep \/ AuditStep

Next ==
  \/ LeadStep
  \/ \E i \in Subs : SubagentStep(i) \/ VerifierStep(i) \/ AttributorStep(i)
  \/ \E r \in Runs : Kill(r)

Spec == Init /\ [][Next]_vars

----------------------------------------------------------------------------
\* A slot holds what the run of its own dispatch answered, or an error: the lead
\* reads a verdict as the verdict on that hypothesis, that candidate.
AnswersInPlace ==
  \A i \in Subs : slot[i] \in Replies => at[i] = "answered" /\ slot[i] = reply[i]

\* A candidate has one decision in the bundle.  That of a candidate that was
\* dispatched is its own agent's, and was made by an agent that did not fail:
\* a late answer and an agent's error leave the candidate without one.
OneDecisionPerCandidate ==
  /\ \A x, y \in bundle : x.candidate = y.candidate => x = y
  /\ \A x \in bundle :
       x.candidate \in Dispatched =>
         /\ at[x.candidate] = "answered"
         /\ x.decision = IF decision[x.candidate] = "none" THEN "DEFER"
                         ELSE decision[x.candidate]

\* Silence means health: an audit that ends without a Slack message, or with a GREEN
\* one, has read every figure and found each within its limit, whatever the model
\* wrote and also when its loop failed.  What is sent is no better than any grade,
\* and the ledger row has a line for every grade that is not GREEN.
SilenceMeansHealth ==
  (scene = "audit" /\ at[Lead] = "answered") =>
    /\ posted.overall \in {"none", "GREEN"} => Healthy(readings)
    /\ \A area \in Areas :
         Grade(area, readings) # "GREEN" =>
           /\ STATUS_RANK[posted.overall] >= STATUS_RANK[Grade(area, readings)]
           /\ ledgered # NoReport => area \in ledgered.lines

\* Every copy of the loop behaves as the library's.
StageOf(r) ==
  IF (r = Lead /\ scene \in {"promote", "attribute"}) \/ at[r] \in {"idle", "request"} THEN "ready"
  ELSE IF at[r] = "model" THEN "model"
  ELSE IF at[r] \in {"tools", "await"} THEN "tools"
  ELSE "over"

KeptOf(r) == <<kept[r], IF r = Lead THEN <<proposal>> ELSE <<checks[r], decision[r], picks[r]>>>>

Loop(r) == INSTANCE ToolLoop WITH MaxCalls <- MaxCalls[r],
  stage <- StageOf(r), turn <- turn[r], spent <- spent[r], calls <- calls[r], kept <- KeptOf(r)

LoopsImplementToolLoop ==
  /\ \A r \in Runs : Loop(r)!Init
  /\ [][\A r \in Runs : UNCHANGED Loop(r)!vars \/ Loop(r)!Next]_vars

----------------------------------------------------------------------------
(* Inductive invariant. *)

\* What the lead of a fan-out may rely on.
LeadKnows ==
  /\ Clustered
  /\ at[Lead] = "request" => sent = 0 /\ bundle = {}
  /\ scene # "promote" => bundle = {}
  /\ scene = "promote" /\ at[Lead] = "await" => bundle \subseteq Gated \cup Merged
  /\ scene = "distill" /\ at[Lead] = "await" => calls[Lead] > 0

\* A verifier that answered a decision answered its own.
VerifiersKnow ==
  \A i \in Subs :
    scene = "promote" /\ at[i] = "answered" /\ reply[i] \in Decisions =>
      reply[i] = IF decision[i] = "none" THEN "DEFER" ELSE decision[i]

\* Report, ledger row and message, as far as the audit has come.
AuditKnows ==
  scene = "audit" =>
    /\ at[Lead] \in {"reported", "posting", "answered"} =>
         \E proposed \in Statuses \cup {"none"} : report = Report(proposed, readings)
    /\ at[Lead] \notin {"posting", "answered", "dead"} => ledgered = NoReport
    /\ at[Lead] \notin {"answered", "dead"} => posted = NoReport
    /\ at[Lead] \in {"posting", "answered"} => ledgered \in {NoReport, report}
    /\ at[Lead] = "answered" =>
         \/ posted.overall = report.overall
         \/ report.overall = "GREEN" /\ posted = NoReport

AgentsInv ==
  /\ TypeOK
  /\ AnswersInPlace
  /\ LeadKnows
  /\ VerifiersKnow
  /\ OneDecisionPerCandidate
  /\ AuditKnows

(* What LoopsImplementToolLoop rests on. *)

\* No run is dispatched twice: what is queued, or still to be dispatched, is idle.
DispatchedOnce ==
  /\ \A i \in queue : at[i] = "idle" /\ sent > 0 /\ (scene = "distill" => i <= sent)
  /\ \A i \in Subs : sent = 0 \/ (scene = "distill" /\ i > sent) => at[i] = "idle"
=============================================================================

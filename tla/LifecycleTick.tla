--------------------------- MODULE LifecycleTick ---------------------------
(***************************************************************************)
(* The hourly lifecycle job: src/services/lib/lifecycle_tick.mjs (one      *)
(* execution of runTick), the stored procedure it calls                    *)
(* (src/sql/proc_lifecycle_apply.sql), the batch table and the lifecycle   *)
(* ledger.                                                                 *)
(*                                                                         *)
(* Every statement the job sends to the warehouse, and every call it makes *)
(* to Gemini, commits on its own, so each is an action and an execution    *)
(* may die between any two of them (Crash).  Time is kept only as far as   *)
(* the code compares it: aged holds the batches submitted six hours ago or *)
(* more, due holds the trends the due query returns, and clock orders the  *)
(* SUBMITTED_AT of a batch row against the EVALUATED_AT of ledger rows.    *)
(*                                                                         *)
(* Overlap: executions may run at the same time (a `jobs execute` or a     *)
(* `--fire` by hand beside the cron; the code takes no lock).  Without it  *)
(* they follow one another, as deploy.env and schedule.sh arrange for the  *)
(* cron and its one retry.                                                 *)
(* Detached: the warehouse finishes a procedure call whose client died.    *)
(***************************************************************************)
EXTENDS Integers, Sequences, FiniteSets

CONSTANTS
  Trends,      \* promoted trends
  Batches,     \* names Gemini may give to a batch
  Executions,  \* executions of the Cloud Run job (first attempts and retries)
  Cap,         \* LIFECYCLE_BATCH_CAP
  Overlap,
  Detached,
  NoBatch

ASSUME TrendsAssumption == IsFiniteSet(Trends)
ASSUME CapAssumption == Cap \in Nat
ASSUME FlagAssumption == Overlap \in BOOLEAN /\ Detached \in BOOLEAN
ASSUME NoBatchAssumption == NoBatch \notin Batches

VARIABLES
  gemini,   \* per batch: its state at Gemini
  state,    \* per batch: STATE of its STG_LIFECYCLE_BATCHES row, "none" before it
  trendIds, \* per batch: TREND_IDS of the row
  sentAt,   \* per batch: SUBMITTED_AT of the row
  cost,     \* per batch: number of its STG_AGENT_RUN_COSTS rows
  ledger,   \* per trend: its FCT_TREND_LIFECYCLE_LEDGER rows, oldest first
  due,      \* trends whose next evaluation is due and which are not RETIRED
  aged,     \* SUBMITTED batches whose row is TIMEOUT_SECONDS old
  clock,    \* number of batch rows inserted so far
  pc,       \* per execution: the statement it runs next
  held,     \* per execution: the batch it is working on
  closing,  \* per execution: the STATE it will write on the batch row
  decided,  \* per execution: decisions handed to the procedure and not yet run
  retries,  \* per execution: number of answers asked again in this tick
  ids       \* per execution: the due trends it read

batchRow == <<state, trendIds, sentAt>>
tables == <<state, trendIds, sentAt, cost, ledger, due, aged, clock>>
locals == <<held, closing, decided, retries, ids>>
vars == <<gemini, state, trendIds, sentAt, cost, ledger, due, aged, clock,
          pc, held, closing, decided, retries, ids>>

\* "cancelled": BATCH_STATE_SUCCEEDED with every entry cancelled.
GeminiState == {"unused", "running", "succeeded", "cancelled", "failed"}
Decision == {"none", "keep", "retire"}
Closed == {"COLLECTED", "FAILED", "CANCELLED"}
RowState == {"none", "SUBMITTED"} \cup Closed
Step == {"idle", "poll", "pollLate", "cancel", "collect", "apply", "update", "cost",
         "due", "submit", "insert", "detached"}
LedgerRow == [batch : Batches \cup {NoBatch}, status : {"ACTIVE", "RETIRED"},
              proposal : BOOLEAN, at : Nat]

TableTypes ==
  /\ gemini \in [Batches -> GeminiState]
  /\ state \in [Batches -> RowState]
  /\ trendIds \in [Batches -> SUBSET Trends]
  /\ sentAt \in [Batches -> Nat]
  /\ cost \in [Batches -> Nat]
  /\ ledger \in [Trends -> Seq(LedgerRow)]
  /\ \A t \in Trends : Len(ledger[t]) > 0
  /\ due \in SUBSET Trends
  /\ aged \in SUBSET Batches
  /\ clock \in Nat

ExecutionTypes ==
  /\ pc \in [Executions -> Step]
  /\ held \in [Executions -> Batches \cup {NoBatch}]
  /\ \A e \in Executions : held[e] = NoBatch <=> pc[e] \in {"idle", "due", "submit"}
  /\ closing \in [Executions -> Closed \cup {"none"}]
  /\ decided \in [Executions -> [Trends -> Decision]]
  /\ retries \in [Executions -> Nat]
  /\ ids \in [Executions -> SUBSET Trends]

TypeOK == TableTypes /\ ExecutionTypes

----------------------------------------------------------------------------
(* Ledger and table queries. *)

Latest(t) == ledger[t][Len(ledger[t])]

\* The v0 row promotion seeds for every trend.
Seed == [batch |-> NoBatch, status |-> "ACTIVE", proposal |-> FALSE, at |-> 0]

\* A first retirement proposal the workflows before this job left behind.
OldProposal == [Seed EXCEPT !.proposal = TRUE]

Submitted == {b \in Batches : state[b] = "SUBMITTED"}

\* Q_IN_FLIGHT: the SUBMITTED row with the latest SUBMITTED_AT.
Newest(b) == b \in Submitted /\ \A c \in Submitted : sentAt[c] <= sentAt[b]

\* Mutant: collect() without Q_ALREADY_APPLIED.
AppliedForgotten(b) == {}

\* Q_ALREADY_APPLIED: trends of the batch with a ledger row younger than it.
AlreadyApplied(b) ==
  {t \in trendIds[b] :
     \E i \in 1..Len(ledger[t]) : ledger[t][i].at >= sentAt[b]}

Init ==
  /\ gemini = [b \in Batches |-> "unused"]
  /\ state = [b \in Batches |-> "none"]
  /\ trendIds = [b \in Batches |-> {}]
  /\ sentAt = [b \in Batches |-> 0]
  /\ cost = [b \in Batches |-> 0]
  /\ ledger \in [Trends -> {<<Seed>>, <<Seed, OldProposal>>}]
  /\ due = Trends
  /\ aged = {}
  /\ clock = 0
  /\ pc = [e \in Executions |-> "idle"]
  /\ held = [e \in Executions |-> NoBatch]
  /\ closing = [e \in Executions |-> "none"]
  /\ decided = [e \in Executions |-> [t \in Trends |-> "none"]]
  /\ retries = [e \in Executions |-> 0]
  /\ ids = [e \in Executions |-> {}]

----------------------------------------------------------------------------
(* One execution of runTick. *)

GoTo(e, step) == pc' = [pc EXCEPT ![e] = step]

\* The execution ends, and its memory with it.
Exit(e) ==
  /\ GoTo(e, "idle")
  /\ held' = [held EXCEPT ![e] = NoBatch]
  /\ closing' = [closing EXCEPT ![e] = "none"]
  /\ decided' = [decided EXCEPT ![e] = [t \in Trends |-> "none"]]
  /\ retries' = [retries EXCEPT ![e] = 0]
  /\ ids' = [ids EXCEPT ![e] = {}]

MayStart == Overlap \/ \A e \in Executions : pc[e] \in {"idle", "detached"}

Start(e) ==
  /\ pc[e] = "idle"
  /\ MayStart
  /\ \/ /\ Submitted = {}
        /\ GoTo(e, "due")
        /\ UNCHANGED held
     \/ \E b \in Batches :
          /\ Newest(b)
          /\ GoTo(e, IF b \in aged THEN "pollLate" ELSE "poll")
          /\ held' = [held EXCEPT ![e] = b]
  /\ UNCHANGED <<gemini, tables, closing, decided, retries, ids>>

\* getBatch, and what runTick does with each state it may report.
PollWaiting(e) ==
  /\ pc[e] = "poll"
  /\ gemini[held[e]] = "running"
  /\ Exit(e)
  /\ UNCHANGED <<gemini, tables>>

\* Mutant: a batch of any age is waited for.
PollLateWaits(e) ==
  /\ pc[e] = "pollLate"
  /\ gemini[held[e]] = "running"
  /\ Exit(e)
  /\ UNCHANGED <<gemini, tables>>

PollLate(e) ==
  /\ pc[e] = "pollLate"
  /\ gemini[held[e]] = "running"
  /\ GoTo(e, "cancel")
  /\ UNCHANGED <<gemini, tables, locals>>

PollEnded(e) ==
  /\ pc[e] \in {"poll", "pollLate"}
  /\ \/ /\ gemini[held[e]] = "cancelled"
        /\ GoTo(e, "update")
        /\ closing' = [closing EXCEPT ![e] = "CANCELLED"]
     \/ /\ gemini[held[e]] = "succeeded"
        /\ GoTo(e, "collect")
        /\ UNCHANGED closing
     \/ /\ gemini[held[e]] = "failed"
        /\ GoTo(e, "update")
        /\ closing' = [closing EXCEPT ![e] = "FAILED"]
  /\ UNCHANGED <<gemini, tables, held, decided, retries, ids>>

\* cancelBatch stops a running batch: it ends with its entries cancelled, or
\* with some answered before, or in a state other than SUCCEEDED.
CancelBatch(e) ==
  /\ pc[e] = "cancel"
  /\ \/ /\ gemini[held[e]] = "running"
        /\ \E end \in {"cancelled", "succeeded", "failed"} :
             gemini' = [gemini EXCEPT ![held[e]] = end]
     \/ /\ gemini[held[e]] # "running"
        /\ UNCHANGED gemini
  /\ GoTo(e, "update")
  /\ closing' = [closing EXCEPT ![e] = "CANCELLED"]
  /\ UNCHANGED <<tables, held, decided, retries, ids>>

\* collect up to the procedure call.  Trends already applied are skipped.  An
\* unusable answer is asked again, once, with generateContent.  No decision
\* comes of a cancelled entry, or of a trend whose second answer is unusable
\* too.  What the answers say is left open, at every collect.
Collect(e) ==
  LET todo == trendIds[held[e]] \ AlreadyApplied(held[e]) IN
  /\ pc[e] = "collect"
  /\ \E answer \in [todo -> Decision], again \in SUBSET todo :
       /\ decided' = [decided EXCEPT ![e] =
            [t \in Trends |-> IF t \in todo THEN answer[t] ELSE "none"]]
       /\ retries' = [retries EXCEPT ![e] = Cardinality(again)]
  /\ GoTo(e, "apply")
  /\ closing' = [closing EXCEPT ![e] = "COLLECTED"]
  /\ UNCHANGED <<gemini, tables, held, ids>>

\* Mutants: any earlier proposal confirms a retirement; a proposal survives a
\* decision that keeps the trend.
AppliedRowAnyProposal(t, decision, b) ==
  [batch |-> b,
   status |-> IF decision = "retire" /\ \E i \in 1..Len(ledger[t]) : ledger[t][i].proposal
              THEN "RETIRED" ELSE "ACTIVE",
   proposal |-> (decision = "retire"),
   at |-> clock]

AppliedRowSticky(t, decision, b) ==
  [batch |-> b,
   status |-> IF decision = "retire" /\ Latest(t).proposal THEN "RETIRED" ELSE "ACTIVE",
   proposal |-> (decision = "retire" \/ Latest(t).proposal),
   at |-> clock]

\* PROC_LIFECYCLE_APPLY commits one ledger row per decision.  A retirement is
\* committed when the trend's latest row already carries a proposal, else it
\* is only recorded and the trend keeps its status.
AppliedRow(t, decision, b) ==
  [batch |-> b,
   status |-> IF decision = "retire"
              THEN IF Latest(t).proposal THEN "RETIRED" ELSE Latest(t).status
              ELSE "ACTIVE",
   proposal |-> (decision = "retire"),
   at |-> clock]

\* A decision without a usable next_eval_in_hours leaves NEXT_EVAL_AT NULL, and
\* the due query then falls back to a day after promotion: the trend stays due.
ApplyDecision(e, t) ==
  LET new == AppliedRow(t, decided[e][t], held[e]) IN
  /\ pc[e] \in {"apply", "detached"}
  /\ decided[e][t] # "none"
  /\ ledger' = [ledger EXCEPT ![t] = Append(@, new)]
  /\ \/ due' = due \ {t}
     \/ new.status # "RETIRED" /\ UNCHANGED due
  /\ decided' = [decided EXCEPT ![e][t] = "none"]
  /\ UNCHANGED <<gemini, batchRow, cost, aged, clock, pc, held, closing, retries, ids>>

\* The procedure rejects a decision (unknown status) or catches its error.
DropDecision(e, t) ==
  /\ pc[e] \in {"apply", "detached"}
  /\ decided[e][t] # "none"
  /\ decided' = [decided EXCEPT ![e][t] = "none"]
  /\ UNCHANGED <<gemini, tables, pc, held, closing, retries, ids>>

ApplyReturns(e) ==
  /\ \A t \in Trends : decided[e][t] = "none"
  /\ \/ pc[e] = "apply" /\ GoTo(e, "update") /\ UNCHANGED locals
     \/ pc[e] = "detached" /\ Exit(e)
  /\ UNCHANGED <<gemini, tables>>

\* UPDATE_STATE: close() and the end of collect() write the row's state first...
UpdateState(e) ==
  /\ pc[e] = "update"
  /\ state' = [state EXCEPT ![held[e]] = closing[e]]
  /\ aged' = aged \ {held[e]}
  /\ GoTo(e, "cost")
  /\ UNCHANGED <<gemini, trendIds, sentAt, cost, ledger, due, clock, locals>>

\* Mutant: the execution keeps working on a batch it has closed.
InsertCostKeepsBatch(e) ==
  /\ pc[e] = "cost"
  /\ cost' = [cost EXCEPT ![held[e]] = IF @ = 0 THEN 1 ELSE @]
  /\ GoTo(e, "due")
  /\ UNCHANGED <<gemini, batchRow, ledger, due, aged, clock, locals>>

\* ...and INSERT_COST second, unless the batch has a cost row.
InsertCost(e) ==
  /\ pc[e] = "cost"
  /\ cost' = [cost EXCEPT ![held[e]] = IF @ = 0 THEN 1 ELSE @]
  /\ GoTo(e, "due")
  /\ held' = [held EXCEPT ![e] = NoBatch]
  /\ closing' = [closing EXCEPT ![e] = "none"]
  /\ UNCHANGED <<gemini, batchRow, ledger, due, aged, clock, decided, retries, ids>>

\* submit(limit = cap - retries): the due query; which trends are the most
\* overdue is left open.
Limit(e) == Cap - retries[e]

ReadDue(e) ==
  /\ pc[e] = "due"
  /\ \E picked \in SUBSET due :
       /\ picked # {}
       /\ Cardinality(picked) <= Limit(e)
       /\ Cardinality(picked) = Limit(e) \/ picked = due
       /\ ids' = [ids EXCEPT ![e] = picked]
  /\ GoTo(e, "submit")
  /\ UNCHANGED <<gemini, tables, held, closing, decided, retries>>

NothingToSubmit(e) ==
  /\ pc[e] = "due"
  /\ Limit(e) <= 0 \/ due = {}
  /\ Exit(e)
  /\ UNCHANGED <<gemini, tables>>

\* Gemini names every batch afresh; which name it is makes no difference.
Unused == {b \in Batches : gemini[b] = "unused"}
FreshName == CHOOSE b \in Unused : TRUE

SubmitBatch(e) ==
  /\ pc[e] = "submit"
  /\ Unused # {}
  /\ gemini' = [gemini EXCEPT ![FreshName] = "running"]
  /\ held' = [held EXCEPT ![e] = FreshName]
  /\ GoTo(e, "insert")
  /\ UNCHANGED <<tables, closing, decided, retries, ids>>

\* Mutant: submitting a trend moves its NEXT_EVAL_AT.
InsertBatchClearsDue(e) ==
  /\ pc[e] = "insert"
  /\ state' = [state EXCEPT ![held[e]] = "SUBMITTED"]
  /\ trendIds' = [trendIds EXCEPT ![held[e]] = ids[e]]
  /\ sentAt' = [sentAt EXCEPT ![held[e]] = clock + 1]
  /\ clock' = clock + 1
  /\ due' = due \ ids[e]
  /\ Exit(e)
  /\ UNCHANGED <<gemini, cost, ledger, aged>>

InsertBatch(e) ==
  /\ pc[e] = "insert"
  /\ state' = [state EXCEPT ![held[e]] = "SUBMITTED"]
  /\ trendIds' = [trendIds EXCEPT ![held[e]] = ids[e]]
  /\ sentAt' = [sentAt EXCEPT ![held[e]] = clock + 1]
  /\ clock' = clock + 1
  /\ Exit(e)
  /\ UNCHANGED <<gemini, cost, ledger, due, aged>>

\* A statement, a Gemini call or the container fails: the execution ends with
\* what it has committed so far.
Crash(e) ==
  /\ pc[e] \notin {"idle", "detached"}
  /\ \/ pc[e] = "apply" /\ Detached /\ GoTo(e, "detached") /\ UNCHANGED locals
     \/ ~(pc[e] = "apply" /\ Detached) /\ Exit(e)
  /\ UNCHANGED <<gemini, tables>>

----------------------------------------------------------------------------
(* Gemini, the passing of time, and the ledger's other writer. *)

\* A batch nobody recorded may finish too, unnoticed.
GeminiEnds(b) ==
  /\ gemini[b] = "running"
  /\ state[b] # "none"
  /\ \E end \in {"succeeded", "failed"} : gemini' = [gemini EXCEPT ![b] = end]
  /\ UNCHANGED <<tables, pc, locals>>

\* Six hours have passed since the batch row was inserted.
BatchAges(b) ==
  /\ state[b] = "SUBMITTED"
  /\ b \notin aged
  /\ aged' = aged \cup {b}
  /\ UNCHANGED <<gemini, batchRow, cost, ledger, due, clock, pc, locals>>

BecomesDue(t) ==
  /\ t \notin due
  /\ Latest(t).status # "RETIRED"
  /\ due' = due \cup {t}
  /\ UNCHANGED <<gemini, batchRow, cost, ledger, aged, clock, pc, locals>>

\* mark_resurgent of the editorial service, the ledger's second writer: a
\* nomination matched a RETIRED trend, which will be due again in an hour.
MarkResurgent(t) ==
  /\ Latest(t).status = "RETIRED"
  /\ ledger' = [ledger EXCEPT ![t] = Append(@, [Seed EXCEPT !.at = clock])]
  /\ UNCHANGED <<gemini, batchRow, cost, due, aged, clock, pc, locals>>

Tick(e) ==
  \/ PollWaiting(e) \/ PollLate(e) \/ PollEnded(e) \/ CancelBatch(e)
  \/ Collect(e) \/ ApplyReturns(e) \/ UpdateState(e) \/ InsertCost(e)
  \/ ReadDue(e) \/ NothingToSubmit(e) \/ SubmitBatch(e) \/ InsertBatch(e)
  \/ \E t \in Trends : ApplyDecision(e, t) \/ DropDecision(e, t)

Next ==
  \/ \E e \in Executions : Start(e) \/ Tick(e) \/ Crash(e)
  \/ \E b \in Batches : GeminiEnds(b) \/ BatchAges(b)
  \/ \E t \in Trends : BecomesDue(t) \/ MarkResurgent(t)

\* The scheduler starts an execution every hour, an execution that does not
\* crash runs to its end, and time passes.  Nothing is assumed of Gemini.
Fairness ==
  /\ WF_vars(\E e \in Executions : Start(e))
  /\ \A e \in Executions : WF_vars(Tick(e))
  /\ \A b \in Batches : WF_vars(BatchAges(b))

Spec == Init /\ [][Next]_vars
FairSpec == Spec /\ Fairness

----------------------------------------------------------------------------
(* Properties. *)

\* Every batch reaches a trend's ledger at most once, across crashes, retried
\* executions and re-collected batches (Q_ALREADY_APPLIED in collect()).
OneApplicationPerBatch ==
  \A t \in Trends : \A i, j \in 1..Len(ledger[t]) :
    /\ ledger[t][i].batch # NoBatch
    /\ ledger[t][i].batch = ledger[t][j].batch
    => i = j

\* A trend is RETIRED only on two consecutive proposals that come from two
\* different batches: no batch counts as both retirement cycles.
TwoCycleRetirement ==
  \A t \in Trends : \A i \in 1..Len(ledger[t]) :
    ledger[t][i].status = "RETIRED" =>
      /\ i > 1
      /\ ledger[t][i].proposal
      /\ ledger[t][i-1].proposal
      /\ ledger[t][i].batch # ledger[t][i-1].batch

\* "One row per Gemini batch the lifecycle job submits; at most one is
\* SUBMITTED" (the batch table's header), through every crash and retry.
AtMostOneSubmitted == \A b, c \in Submitted : b = c

\* No answer is lost silently: once a batch is closed, each of its trends has
\* been evaluated since the submit or is still due, for the next batch to take.
ClosedBatchLosesNoTrend ==
  \A b \in Batches : state[b] \in Closed =>
    trendIds[b] \subseteq due \cup AlreadyApplied(b)

\* No batch evaluates a RETIRED trend, not even one that was in flight when it
\* retired: only an editorial nomination ends a retirement.
RetiredIsFinal ==
  [][\A t \in Trends :
       Latest(t).status = "RETIRED" /\ ledger'[t] # ledger[t] =>
         Latest(t)'.batch = NoBatch /\ ~Latest(t)'.proposal]_vars

\* A batch row leaves SUBMITTED once, for good, and gets at most one cost row,
\* only after it left (close() and collect() write the state first).
BatchClosesOnce ==
  [][\A b \in Batches :
       /\ state[b] \in Closed => state'[b] = state[b]
       /\ cost'[b] # cost[b] => state[b] \in Closed /\ cost[b] = 0]_vars

\* Refinement: the ledger, read through Latest, behaves as TrendEvaluation.
StandingOf(t) ==
  IF Latest(t).status = "RETIRED" THEN "retired"
  ELSE IF Latest(t).proposal THEN "proposed" ELSE "active"

EvaluatedBy(t) == {ledger[t][i].batch : i \in 1..Len(ledger[t])} \ {NoBatch}

Abstract == INSTANCE TrendEvaluation WITH
  standing <- [t \in Trends |-> StandingOf(t)],
  evaluatedBy <- [t \in Trends |-> EvaluatedBy(t)]

\* The tick implements the abstract evaluation of trends.
ImplementsEvaluation == Abstract!Spec

\* Unless executions crash for ever, no batch stays SUBMITTED: it is collected,
\* found failed, or cancelled six hours after the submit, even when Gemini
\* never finishes it.  (A crash that leaves what a normal end leaves is none.)
NoBatchStuck ==
  <>[][\A e \in Executions : Crash(e) => Tick(e)]_vars =>
    \A b \in Batches : state[b] = "SUBMITTED" ~> state[b] \in Closed

----------------------------------------------------------------------------
(* Inductive invariant of executions that follow one another (~Overlap and *)
(* ~Detached); LifecycleTick_proofs shows it implies the properties above. *)

SerialExecutions ==
  /\ \A e \in Executions : pc[e] # "detached"
  /\ \A e, f \in Executions : pc[e] # "idle" /\ pc[f] # "idle" => e = f

\* What an execution may rely on at each of its statements: the state of the
\* batch it holds; that a pending decision is for a trend its batch has not
\* been applied to; that the trends it picked are still due.
Knows(e) ==
  /\ pc[e] \in {"poll", "pollLate", "cancel", "collect", "apply", "update"} =>
       state[held[e]] = "SUBMITTED"
  /\ pc[e] \in {"apply", "update"} => closing[e] \in Closed
  /\ pc[e] \in {"cost", "due", "submit", "insert"} => Submitted = {}
  /\ pc[e] = "cost" => state[held[e]] \in Closed
  /\ pc[e] = "insert" => state[held[e]] = "none" /\ gemini[held[e]] # "unused"
  /\ pc[e] = "apply" => \A t \in Trends : decided[e][t] # "none" =>
       t \in trendIds[held[e]] /\ t \notin AlreadyApplied(held[e])
  /\ pc[e] \in {"submit", "insert"} => ids[e] \subseteq due

UnusedHaveNoRow == \A b \in Batches : gemini[b] = "unused" => state[b] = "none"

\* The ledger rows of a batch are younger than its row and name its trends.
LedgerTimes ==
  /\ \A b \in Batches : state[b] # "none" => sentAt[b] <= clock
  /\ \A t \in Trends : \A i \in 1..Len(ledger[t]) :
       LET r == ledger[t][i] IN
       /\ r.at <= clock
       /\ r.batch # NoBatch =>
            state[r.batch] # "none" /\ t \in trendIds[r.batch] /\ r.at >= sentAt[r.batch]

NoRetiredInFlight ==
  /\ \A t \in due : Latest(t).status # "RETIRED"
  /\ \A b \in Submitted : \A t \in trendIds[b] :
       t \notin AlreadyApplied(b) => Latest(t).status # "RETIRED"

NoTrendLost ==
  \A b \in Batches : state[b] # "none" =>
    \A t \in trendIds[b] : t \in due \/ t \in AlreadyApplied(b)

TableInv ==
  /\ AtMostOneSubmitted
  /\ UnusedHaveNoRow
  /\ LedgerTimes
  /\ NoRetiredInFlight
  /\ NoTrendLost
  /\ OneApplicationPerBatch
  /\ TwoCycleRetirement

ExecutionInv == SerialExecutions /\ \A e \in Executions : Knows(e)

SerialInv == TableInv /\ ExecutionInv
=============================================================================

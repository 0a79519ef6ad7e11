-------------------------- MODULE PredictionLedger --------------------------
(***************************************************************************)
(* The prediction service (src/services/prediction): its requests and the  *)
(* append-only verdict ledger they share.                                  *)
(*                                                                         *)
(* A request takes its moment (EVALUATED_AT), reads the latest row of      *)
(* every call it is about, asks its model, and only then MERGEs one row    *)
(* per call, each under an id derived from its chain.  POST /sweep         *)
(* re-evaluates live calls and then generates new ones, POST /match        *)
(* re-states ACTIVE calls with the trend they match, POST /generate and    *)
(* POST /run mint.  Cloud Scheduler fires the sweep daily, under the day's *)
(* chain, and fires it again when an attempt fails or takes too long.      *)
(*                                                                         *)
(* A call that reads met and one that reads failed are both RESOLVED here; *)
(* what the model, the oracles and the floor answer is left open.  Days    *)
(* are counted by day, the moments of requests by clock.                   *)
(***************************************************************************)
EXTENDS Naturals, Sequences, FiniteSets

CONSTANTS
  Requests,     \* requests the service may have in flight
  Predictions,  \* PREDICTION_IDs
  Claims,
  Subject,      \* per claim: its subject
  HorizonDays,  \* the length of the claims' horizon band
  Cap,          \* prediction_limit
  Manual,       \* chains of requests fired by hand
  Attempts,     \* a scheduled run's first attempt and its retries
  LastDay, ByHand, Faults,  \* bounds on days, on fires by hand and on failures
  Overlap       \* which requests may be in flight together: none, the
                \* scheduled attempts, or any

ASSUME HorizonAssumption == HorizonDays \in Nat \ {0}
ASSUME CapAssumption == Cap \in Nat \ {0}
ASSUME BoundsAssumption ==
  LastDay \in Nat /\ ByHand \in Nat /\ Faults \in Nat /\ Attempts \in Nat \ {0}
ASSUME OverlapAssumption == Overlap \in {"none", "attempts", "any"}
ASSUME NamesAssumption ==
  /\ {"due", "done"} \cap Requests = {}
  /\ Manual \cap (0..LastDay) = {}

VARIABLES
  ledger,    \* FCT_PREDICTION_VERDICT_LEDGER, in the order of the inserts
  pc,        \* per request: what it does next
  job,       \* per request: the route that serves it
  chain,     \* per request: its CHAIN_ID
  at,        \* per request: its moment
  todo,      \* per request: the rows it has composed and not yet written
  day, clock,
  awaits,    \* the scheduler: a run is due, the attempt it awaits, or done
  attempts,  \* attempts of the day's run
  faults,    \* failures so far
  fired,     \* requests fired by hand so far
  overlapped \* history: requests have been in flight together

requestVars == <<pc, job, chain, at, todo>>
vars == <<ledger, pc, job, chain, at, todo, day, clock, awaits, attempts, faults, fired, overlapped>>

Status == {"ACTIVE", "EXPIRED", "RESOLVED"}
Chains == Manual \cup (0..LastDay)

Row == [id : ({"sweep", "match"} \X Chains \X Predictions)
             \cup ({"mint", "run"} \X Chains \X Claims),
        chain : Chains, prediction : Predictions, claim : Claims,
        at : Nat, prior : Nat, horizon : Nat,
        status : Status, final : BOOLEAN, reading : BOOLEAN]

TypeOK ==
  /\ ledger \in Seq(Row)
  /\ pc \in [Requests -> {"idle", "sweep", "match", "write", "generate", "mint"}]
  /\ job \in [Requests -> {"sweep", "match", "generate", "run"}]
  /\ chain \in [Requests -> Chains]
  /\ at \in [Requests -> Nat]
  /\ todo \in [Requests -> SUBSET Row]
  /\ day \in 0..LastDay
  /\ clock \in Nat
  /\ awaits \in Requests \cup {"due", "done"}
  /\ attempts \in 0..Attempts
  /\ faults \in 0..Faults
  /\ fired \in 0..ByHand
  /\ overlapped \in BOOLEAN

Init ==
  /\ ledger = <<>>
  /\ pc = [r \in Requests |-> "idle"]
  /\ job = [r \in Requests |-> "sweep"]
  /\ chain = [r \in Requests |-> 0]
  /\ at = [r \in Requests |-> 0]
  /\ todo = [r \in Requests |-> {}]
  /\ day = 0
  /\ clock = 0
  /\ awaits = "due"
  /\ attempts = 0
  /\ faults = 0
  /\ fired = 0
  /\ overlapped = FALSE

----------------------------------------------------------------------------
(* What the ledger says. *)

RowsOf(p) == {ledger[i] : i \in {k \in DOMAIN ledger : ledger[k].prediction = p}}

Minted == {ledger[i].prediction : i \in DOMAIN ledger}

Latest(p) == CHOOSE row \in RowsOf(p) : \A other \in RowsOf(p) : other.at <= row.at

Live(statuses) == {p \in Minted : Latest(p).status \in statuses}

\* OPEN_PREDICTIONS_QUERY's ORDER BY and LIMIT: the calls whose latest
\* evaluation is the oldest.
Page(pool) ==
  {p \in pool : Cardinality({q \in pool : Latest(q).at < Latest(p).at}) < Cap}

----------------------------------------------------------------------------
(* sweep/lifecycle.py *)

GraceEnds(row) == row.horizon + HorizonDays

\* Mutant: an EXPIRED call past its grace is evaluated on every sweep.
ReevaluableForever(row) == row.status \in {"ACTIVE", "EXPIRED"}

IsReevaluable(row) ==
  \/ row.status = "ACTIVE"
  \/ row.status = "EXPIRED" /\ (day < GraceEnds(row) \/ ~row.final)

NextStatus(row, settled) ==
  IF settled THEN "RESOLVED" ELSE IF day >= row.horizon THEN "EXPIRED" ELSE "ACTIVE"

IsFinal(row, settled) == settled \/ day >= GraceEnds(row)

----------------------------------------------------------------------------
(* Requests. *)

Idle(r) == pc[r] = "idle"

\* A fired request takes its moment.
Fire(r, route, first, c) ==
  /\ Idle(r)
  /\ r = CHOOSE q \in Requests : Idle(q)
  /\ pc' = [pc EXCEPT ![r] = first]
  /\ job' = [job EXCEPT ![r] = route]
  /\ chain' = [chain EXCEPT ![r] = c]
  /\ at' = [at EXCEPT ![r] = clock + 1]
  /\ clock' = clock + 1
  /\ overlapped' = (overlapped \/ \E q \in Requests : ~Idle(q))
  /\ UNCHANGED <<ledger, todo, day>>

\* Mutant: the run is fired again though an attempt has succeeded.
ScheduleAgain(r) ==
  /\ \A q \in Requests : Idle(q)
  /\ Fire(r, "sweep", "sweep", day)
  /\ attempts' = attempts + 1
  /\ awaits' = r
  /\ UNCHANGED <<faults, fired>>

\* The cron, or its retry of an attempt that failed or that it no longer waits
\* for.
Schedule(r) ==
  /\ attempts < Attempts
  /\ awaits = "due" \/ (awaits \in Requests /\ Overlap # "none" /\ faults < Faults)
  /\ Overlap = "any" \/ \A q \in Requests : ~Idle(q) => chain[q] = day /\ Overlap = "attempts"
  /\ Fire(r, "sweep", "sweep", day)
  /\ attempts' = attempts + 1
  /\ awaits' = r
  /\ faults' = IF awaits = "due" THEN faults ELSE faults + 1
  /\ UNCHANGED fired

Routes == {"sweep", "match", "generate", "run"}

FireByHand(r) ==
  /\ fired < ByHand
  /\ fired' = fired + 1
  /\ Overlap = "any" \/ \A q \in Requests : Idle(q)
  /\ \E route \in Routes, c \in Manual :
       Fire(r, route, IF route = "run" THEN "generate" ELSE route, c)
  /\ UNCHANGED <<awaits, attempts, faults>>

\* The response, 2xx or not, and with it all the request remembers; the
\* scheduler hears of the attempt it awaits.
Answer(r, ok) ==
  /\ pc' = [pc EXCEPT ![r] = "idle"]
  /\ job' = [job EXCEPT ![r] = "sweep"]
  /\ chain' = [chain EXCEPT ![r] = 0]
  /\ at' = [at EXCEPT ![r] = 0]
  /\ todo' = [todo EXCEPT ![r] = {}]
  /\ awaits' = IF awaits # r THEN awaits ELSE IF ok THEN "done" ELSE "due"

\* What a re-evaluation and a compare step carry over from the prior row: the
\* claim, its horizon, and all of EVIDENCE they do not own.
Restate(r, p, phase) ==
  LET row == Latest(p) IN
  [row EXCEPT !.id = <<phase, chain[r], p>>, !.chain = chain[r],
              !.at = at[r], !.prior = row.at]

SweepRow(r, p, settled, looked) ==
  LET row == Latest(p) IN
  [Restate(r, p, "sweep") EXCEPT
     !.status = NextStatus(row, settled),
     !.final = IsFinal(row, settled),
     !.reading = @ \/ looked]

\* The calls a sweep is to re-evaluate, of those within its scope.
Selected(scope) == {p \in Page(Live({"ACTIVE", "EXPIRED"}) \cap scope) : IsReevaluable(Latest(p))}

\* sweep_predictions: a fire by hand may name the calls it is about.
Sweep(r) ==
  /\ pc[r] = "sweep"
  /\ \E scope \in IF chain[r] \in Manual THEN SUBSET Predictions \ {{}} ELSE {Predictions} :
     \E settled \in SUBSET Selected(scope) : \E looked \in SUBSET Selected(scope) :
       todo' = [todo EXCEPT ![r] =
                  {SweepRow(r, p, p \in settled, p \in looked) : p \in Selected(scope)}]
  /\ pc' = [pc EXCEPT ![r] = "write"]
  /\ UNCHANGED <<ledger, job, chain, at, day, clock, awaits, attempts, faults, fired, overlapped>>

\* match_open_predictions.
Match(r) ==
  /\ pc[r] = "match"
  /\ todo' = [todo EXCEPT ![r] = {Restate(r, p, "match") : p \in Page(Live({"ACTIVE"}))}]
  /\ pc' = [pc EXCEPT ![r] = "write"]
  /\ UNCHANGED <<ledger, job, chain, at, day, clock, awaits, attempts, faults, fired, overlapped>>

\* Mutant: a call is live on the day it was minted only.
NewSubjects ==
  {Subject[Latest(p).claim] : p \in {q \in Live({"ACTIVE"}) : Latest(q).horizon > day}}

\* LIVE_SUBJECTS_QUERY.
LiveSubjects == {Subject[Latest(p).claim] : p \in {q \in Live({"ACTIVE"}) : Latest(q).horizon >= day}}

\* A PREDICTION_ID is minted for every new verdict.
Unused == Predictions \ (Minted \cup {row.prediction : row \in UNION {todo[q] : q \in Requests}})

MintRow(r, phase, c, p, looked) ==
  [id |-> <<phase, chain[r], c>>, chain |-> chain[r], prediction |-> p, claim |-> c,
   at |-> clock + 1, prior |-> 0, horizon |-> day + HorizonDays,
   status |-> "ACTIVE", final |-> FALSE, reading |-> looked]

\* generate_predictions and the saturation phase: of the claims the model
\* proposes, those on a subject that is not live and that pass the floor.
\* POST /run mints the claim it is handed.
Generate(r) ==
  /\ pc[r] = "generate"
  /\ \E claims \in SUBSET {c \in Claims : job[r] = "run" \/ Subject[c] \notin LiveSubjects} :
     \E ids \in [claims -> Unused], looked \in SUBSET claims :
       /\ \A c, d \in claims : ids[c] = ids[d] => c = d
       /\ job[r] = "run" => Cardinality(claims) = 1 /\ looked = {}
       /\ todo' = [todo EXCEPT ![r] =
            {MintRow(r, IF job[r] = "run" THEN "run" ELSE "mint", c, ids[c], c \in looked)
               : c \in claims}]
  /\ at' = [at EXCEPT ![r] = clock + 1]
  /\ clock' = clock + 1
  /\ pc' = [pc EXCEPT ![r] = "mint"]
  /\ UNCHANGED <<ledger, job, chain, day, awaits, attempts, faults, fired, overlapped>>

----------------------------------------------------------------------------
(* write_verdicts *)

Recorded(id) == \E i \in DOMAIN ledger : ledger[i].id = id

\* Mutant: an INSERT.
Insert(row) == ledger' = Append(ledger, row)

\* MERGE_VERDICT.
Merge(row) == ledger' = IF Recorded(row.id) THEN ledger ELSE Append(ledger, row)

\* In the order of the read.
First(rows) == {row \in rows : \A other \in rows : row.prior <= other.prior}

Writing(r) == pc[r] \in {"write", "mint"}

Write(r) ==
  /\ Writing(r)
  /\ \E row \in First(todo[r]) :
       /\ Merge(row)
       /\ todo' = [todo EXCEPT ![r] = @ \ {row}]
  /\ UNCHANGED <<pc, job, chain, at, day, clock, awaits, attempts, faults, fired, overlapped>>

\* The MERGE commits and its response is lost: the client executes it again.
LoseResponse(r) ==
  /\ Writing(r)
  /\ \E row \in First(todo[r]) : Merge(row)
  /\ UNCHANGED <<requestVars, day, clock, awaits, attempts, faults, fired, overlapped>>

\* A sweep whose rows have landed generates; every other request is answered.
Written(r) ==
  /\ Writing(r)
  /\ todo[r] = {}
  /\ IF pc[r] = "write" /\ job[r] = "sweep"
     THEN pc' = [pc EXCEPT ![r] = "generate"] /\ UNCHANGED <<job, chain, at, todo, awaits>>
     ELSE Answer(r, TRUE)
  /\ UNCHANGED <<ledger, day, clock, attempts, faults, fired, overlapped>>

\* A sweep reports a generation that fails, or that is switched off, in its
\* answer.
GenerationFails(r) ==
  /\ pc[r] \in {"generate", "mint"}
  /\ job[r] = "sweep"
  /\ faults < Faults
  /\ faults' = faults + 1
  /\ Answer(r, TRUE)
  /\ UNCHANGED <<ledger, day, clock, attempts, fired, overlapped>>

\* A read or a MERGE fails for good, or the instance dies: the rows that have
\* landed stay.
Fail(r) ==
  /\ ~Idle(r)
  /\ faults < Faults
  /\ faults' = faults + 1
  /\ Answer(r, FALSE)
  /\ UNCHANGED <<ledger, day, clock, attempts, fired, overlapped>>

\* The cron fires every day, and a request is over within ten minutes.
NextDay ==
  /\ day < LastDay
  /\ awaits = "done" \/ (awaits = "due" /\ attempts = Attempts)
  /\ \A r \in Requests : Idle(r)
  /\ day' = day + 1
  /\ awaits' = "due"
  /\ attempts' = 0
  /\ UNCHANGED <<ledger, pc, job, chain, at, todo, clock, faults, fired, overlapped>>

Serve(r) == Sweep(r) \/ Match(r) \/ Generate(r) \/ Write(r) \/ Written(r)

Next ==
  \/ \E r \in Requests :
       \/ Schedule(r) \/ FireByHand(r) \/ Serve(r)
       \/ LoseResponse(r) \/ GenerationFails(r) \/ Fail(r)
  \/ NextDay

Spec == Init /\ [][Next]_vars

----------------------------------------------------------------------------
(* Properties. *)

Positions == DOMAIN ledger

\* One evaluation leaves one row, whatever is retried: a MERGE whose response
\* was lost, a request fired again under its chain, an attempt the scheduler
\* gave up on and that is still writing (domain/ledger.py, MERGE_VERDICT;
\* sweep/run.py, daily_chain_id).
OneRowPerEvaluation ==
  \A i, j \in Positions : i # j => ledger[i].id # ledger[j].id

\* A final row is the last a call ever gets, as long as requests follow one
\* another: a resolved call is not reopened, and a grade that has become final
\* does not move (sweep/lifecycle.py, TERMINAL_STATUSES and StatusDecision.final).
ClosedStaysClosed ==
  ~overlapped => \A i, j \in Positions :
    ledger[i].prediction = ledger[j].prediction /\ ledger[i].final => ledger[j].at <= ledger[i].at

\* A generated call repeats the subject of a call another chain generated only
\* once that call has passed its horizon or been evaluated as other than
\* ACTIVE.
MintDay(row) == row.horizon - HorizonDays
RemintedAfterClosing ==
  \A i, j \in Positions :
    /\ ledger[i].id[1] = "mint" /\ ledger[j].id[1] = "mint"
    /\ ledger[i].chain # ledger[j].chain
    /\ ledger[i].at < ledger[j].at
    /\ Subject[ledger[i].claim] = Subject[ledger[j].claim]
    => \/ ledger[i].horizon < MintDay(ledger[j])
       \/ \E k \in Positions : /\ ledger[k].prediction = ledger[i].prediction
                               /\ ledger[k].at < ledger[j].at
                               /\ ledger[k].status # "ACTIVE"

\* The scheduled sweep re-evaluates some call whenever there is one to
\* re-evaluate ("round-robin the whole pool", matching/predictions.py).
Waiting == {p \in Live({"ACTIVE", "EXPIRED"}) : IsReevaluable(Latest(p))}
SweepsReachLiveCalls ==
  [][\A r \in Requests :
       Sweep(r) /\ chain[r] \notin Manual /\ Waiting # {} => todo'[r] # {}]_vars

----------------------------------------------------------------------------
(* What ClosedStaysClosed rests on. *)

\* A row is final for good.
ClosedRow(row) ==
  row.final => row.status = "RESOLVED" \/ (row.status = "EXPIRED" /\ GraceEnds(row) <= day)

RowsClosed ==
  /\ \A i \in Positions : ClosedRow(ledger[i]) /\ ledger[i].at <= clock
  /\ \A r \in Requests :
       /\ at[r] <= clock
       /\ todo[r] # {} => Writing(r)
       /\ \A row \in todo[r] : ClosedRow(row) /\ row.at <= clock

OneAtWork == ~overlapped => \A q, r \in Requests : ~Idle(q) /\ ~Idle(r) => q = r

\* A request reads a ledger older than its moment.
ReadsThePast ==
  ~overlapped => \A r \in Requests : pc[r] \in {"sweep", "match"} =>
                   \A i \in Positions : ledger[i].at < at[r]

\* A row to be written comes after every row of its call, none of them final.
TodoFollows ==
  ~overlapped => \A r \in Requests : \A row \in todo[r] :
    /\ \A other \in todo[r] : other.prediction = row.prediction => other = row
    /\ Recorded(row.id) \/ \A i \in Positions : ledger[i].prediction = row.prediction =>
                              ~ledger[i].final /\ ledger[i].at < row.at

FinalIsLast ==
  ~overlapped => \A i, j \in Positions :
    ledger[i].prediction = ledger[j].prediction /\ ledger[i].final =>
      i = j \/ ledger[j].at < ledger[i].at

ClosedInv == RowsClosed /\ OneAtWork /\ ReadsThePast /\ TodoFollows /\ FinalIsLast

(* What RemintedAfterClosing rests on. *)

\* Requests in flight together are attempts of one run: they share its chain.
OneChain ==
  /\ \A q, r \in Requests : ~Idle(q) /\ ~Idle(r) => chain[q] = chain[r]
  /\ \A r \in Requests : \A row \in todo[r] : ~Idle(r) /\ row.chain = chain[r]

\* A call keeps its claim and its horizon.
Rows == {ledger[i] : i \in Positions} \cup UNION {todo[r] : r \in Requests}
SameCall ==
  \A x, y \in Rows :
    x.prediction = y.prediction => x.claim = y.claim /\ x.horizon = y.horizon

\* A row to be minted comes after the calls another chain minted, and repeats the
\* subject of none that is open.
Follows(row, i) ==
  row.id[1] = "mint" /\ ledger[i].id[1] = "mint" /\ ledger[i].chain # row.chain =>
    /\ ledger[i].at < row.at
    /\ Subject[ledger[i].claim] = Subject[row.claim] =>
         \/ ledger[i].horizon < MintDay(row)
         \/ \E k \in Positions : /\ ledger[k].prediction = ledger[i].prediction
                                 /\ ledger[k].at < row.at
                                 /\ ledger[k].status # "ACTIVE"
MintsFollow ==
  \A r \in Requests : \A row \in todo[r] : \A i \in Positions : Follows(row, i)

RemintInv == OneChain /\ SameCall /\ MintsFollow /\ RemintedAfterClosing
=============================================================================

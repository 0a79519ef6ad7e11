------------------------------ MODULE Sourcing ------------------------------
(***************************************************************************)
(* Product sourcing (services/ecomm-agent): requests, each a poll tick or a *)
(* trend sourced by hand, run the selector for one trend after the other.  *)
(* A run is a header of FCT_TREND_SOURCING_LEDGER that PROC_SOURCING_APPLY *)
(* opens as running and completes once; the header is the only mark that a *)
(* trend is taken.                                                         *)
(*                                                                         *)
(* A statement may reach the warehouse with its response lost; the client  *)
(* then sends a completion again while the first may still be executing.   *)
(* A request may die between any two steps.  What goes wrong is counted:   *)
(* MaxFaults bounds it, and with it the headers.                           *)
(*                                                                         *)
(* Trends are numbered in the order they were enriched.                    *)
(***************************************************************************)
EXTENDS Integers, FiniteSets, Sequences

CONSTANTS
  Trends,
  Requests,      \* requests the service works on at a time
  Products,      \* catalog products
  Slots,         \* MAX_SOURCED_PRODUCTS
  Limit,         \* POLL_BATCH_LIMIT
  MaxAttempts,   \* MAX_ATTEMPTS of the Snowflake client
  MaxFaults,     \* bound: failures, lost responses, deaths, empty catalogs
  ByHand         \* bound: POST /source requests

ASSUME TrendsAssumption == Trends \subseteq Nat /\ IsFiniteSet(Trends)
ASSUME ProductsAssumption == IsFiniteSet(Products) /\ "ghost" \notin Products
ASSUME LimitsAssumption ==
  {Slots, Limit, MaxAttempts} \subseteq Nat \ {0} /\ {MaxFaults, ByHand} \subseteq Nat

VARIABLES
  enriched, retired,  \* trends
  fresh,     \* the catalog was seen within seven days
  ledger,    \* headers, with the candidate rows of each
  calls,     \* completions the warehouse has not answered
  at,        \* per request: its next step
  hand,      \* per request: POST /source
  batch,     \* per request: claimed trends it has not started
  trend,     \* per request: the trend it works on
  run,       \* per request: its header, or 0
  plan,      \* per request: what it completes with
  caught,    \* per request: it completes from the catch block
  tries,     \* per request: attempts of the completion
  result,    \* per request: the outcome that the receipt of that trend names
  recorded,  \* per request: header_recorded of that trend
  faults, byHand

tables == <<enriched, retired, fresh, ledger>>
request == <<at, hand, batch, trend, run, plan, caught, tries, result,
             recorded>>
vars == <<tables, calls, request, faults, byHand>>

Final == {"matched", "no_match", "failed"}
NoTrend == -1

\* shown, picked: CANDIDATE_COUNT and SELECTED_COUNT.
Plan == [outcome : Final, shown : 0..Cardinality(Products), picked : 0..Slots]
Pending == [outcome |-> "failed", shown |-> 0, picked |-> 0]

\* old: STARTED_AT is more than STALE_RUNNING_MINUTES ago; rows: its candidate rows.
Header ==
  [trend : Trends, status : Final \cup {"running"}, old : BOOLEAN,
   shown : 0..Cardinality(Products), picked : 0..Slots, rows : Nat]

Call == [from : Requests, run : Nat \ {0}, try : Nat, late : BOOLEAN, plan : Plan,
         phase : {"sent", "checked"}]

Steps == {"idle", "next", "context", "open", "openLost", "select", "send", "wait", "cost"}

TypeOK ==
  /\ enriched \in SUBSET Trends /\ retired \in SUBSET Trends
  /\ fresh \in BOOLEAN
  /\ ledger \in Seq(Header)
  /\ calls \in SUBSET Call
  /\ \A c \in calls : c.run <= Len(ledger)
  /\ at \in [Requests -> Steps]
  /\ hand \in [Requests -> BOOLEAN]
  /\ batch \in [Requests -> SUBSET Trends]
  /\ trend \in [Requests -> Trends \cup {NoTrend}]
  /\ run \in [Requests -> 0..Len(ledger)]
  /\ plan \in [Requests -> Plan]
  /\ caught \in [Requests -> BOOLEAN]
  /\ tries \in [Requests -> 0..MaxAttempts]
  /\ result \in [Requests -> Final \cup {"none", "not_sourced"}]
  /\ recorded \in [Requests -> BOOLEAN]
  /\ faults \in 0..MaxFaults /\ byHand \in 0..ByHand
  /\ \A q \in Requests :
       /\ at[q] \notin {"idle", "next"} => trend[q] \in Trends
       /\ at[q] \in {"select", "send", "wait"} => run[q] > 0

Init ==
  /\ enriched \in SUBSET Trends /\ retired = {}
  /\ \A t \in enriched, u \in Trends \ enriched : t < u
  /\ fresh \in BOOLEAN
  /\ ledger = <<>> /\ calls = {}
  /\ at = [q \in Requests |-> "idle"]
  /\ hand = [q \in Requests |-> FALSE]
  /\ batch = [q \in Requests |-> {}]
  /\ trend = [q \in Requests |-> NoTrend]
  /\ run = [q \in Requests |-> 0]
  /\ plan = [q \in Requests |-> Pending]
  /\ caught = [q \in Requests |-> FALSE]
  /\ tries = [q \in Requests |-> 0]
  /\ result = [q \in Requests |-> "none"]
  /\ recorded = [q \in Requests |-> FALSE]
  /\ faults = 0 /\ byHand = 0

Fault == faults < MaxFaults /\ faults' = faults + 1

----------------------------------------------------------------------------
(* The poll's claim. *)

\* Mutant: a failed run blocks its trend as well.
BlockingAll(h) == ~(h.status = "running" /\ h.old)

\* blocking_header: a failed run never blocks, nor a running one that is old.
Blocking(h) == h.status \in {"matched", "no_match"} \/ (h.status = "running" /\ ~h.old)

Eligible ==
  {t \in enriched \ retired :
     \A i \in DOMAIN ledger : ledger[i].trend = t => ~Blocking(ledger[i])}

Claimed == {t \in Eligible : Cardinality({u \in Eligible : u < t}) < Limit}

\* A request is over when its receipts are sent; nothing of it is kept.
Fresh(q) ==
  /\ run' = [run EXCEPT ![q] = 0]
  /\ result' = [result EXCEPT ![q] = "none"]
  /\ recorded' = [recorded EXCEPT ![q] = FALSE]

\* The claim writes nothing.
Poll(q) ==
  /\ at[q] = "idle" /\ Claimed # {}
  /\ batch' = [batch EXCEPT ![q] = Claimed]
  /\ hand' = [hand EXCEPT ![q] = FALSE]
  /\ trend' = [trend EXCEPT ![q] = NoTrend]
  /\ at' = [at EXCEPT ![q] = "next"]
  /\ Fresh(q)
  /\ UNCHANGED <<tables, calls, plan, caught, tries, faults, byHand>>

\* A trend sourced by hand, claimed or not.
Source(q) ==
  /\ at[q] = "idle" /\ byHand < ByHand
  /\ byHand' = byHand + 1
  /\ \E t \in Trends : trend' = [trend EXCEPT ![q] = t]
  /\ batch' = [batch EXCEPT ![q] = {}]
  /\ hand' = [hand EXCEPT ![q] = TRUE]
  /\ at' = [at EXCEPT ![q] = "context"]
  /\ Fresh(q)
  /\ UNCHANGED <<tables, calls, plan, caught, tries, faults>>

\* The next claimed trend; the tick ends with the batch, or after a trend once its
\* ten minutes are spent.
NextTrend(q) ==
  /\ at[q] = "next"
  /\ \/ \E t \in batch[q] :
          /\ \A u \in batch[q] : t <= u
          /\ trend' = [trend EXCEPT ![q] = t]
          /\ batch' = [batch EXCEPT ![q] = @ \ {t}]
          /\ at' = [at EXCEPT ![q] = "context"]
     \/ /\ batch[q] = {} \/ trend[q] # NoTrend
        /\ at' = [at EXCEPT ![q] = "idle"]
        /\ batch' = [batch EXCEPT ![q] = {}]
        /\ trend' = [trend EXCEPT ![q] = NoTrend]
  /\ Fresh(q)
  /\ UNCHANGED <<tables, calls, hand, plan, caught, tries, faults, byHand>>

\* The receipt of a trend is written; a tick goes on, /source answers.
Receipt(q, receipt) ==
  /\ result' = [result EXCEPT ![q] = receipt]
  /\ at' = [at EXCEPT ![q] = IF hand[q] THEN "idle" ELSE "next"]
  /\ plan' = [plan EXCEPT ![q] = Pending]
  /\ caught' = [caught EXCEPT ![q] = FALSE]
  /\ tries' = [tries EXCEPT ![q] = 0]
  /\ UNCHANGED recorded

----------------------------------------------------------------------------
(* A run: context, header, selector, completion, cost row. *)

\* A stale catalog declines the trend and leaves no trace.  Nor does a failed read:
\* a tick calls that a failed trend (sourceOne), /source answers without a receipt.
\* A trend without a vector is opened, to fail.
fetchContext(q) ==
  /\ at[q] = "context"
  /\ \/ ~fresh /\ Receipt(q, "not_sourced") /\ UNCHANGED faults
     \/ Fault /\ Receipt(q, IF hand[q] THEN "none" ELSE "failed")
     \/ /\ fresh
        /\ at' = [at EXCEPT ![q] = IF trend[q] \in enriched THEN "open" ELSE "openLost"]
        /\ UNCHANGED <<plan, caught, tries, result, recorded, faults>>
  /\ UNCHANGED <<tables, calls, hand, batch, trend, run, byHand>>

Opened(t) == Append(ledger, [trend |-> t, status |-> "running", old |-> FALSE,
                             shown |-> 0, picked |-> 0, rows |-> 0])

\* Mutant: the answer of open is not looked at.
callProcOpenBlindly(q) ==
  /\ at[q] \in {"open", "openLost"}
  /\ at' = [at EXCEPT ![q] = IF at[q] = "open" THEN "select" ELSE "send"]
  /\ \/ /\ ledger' = Opened(trend[q])
        /\ run' = [run EXCEPT ![q] = Len(ledger')]
        /\ UNCHANGED faults
     \/ Fault /\ UNCHANGED <<ledger, run>>
  /\ UNCHANGED <<enriched, retired, fresh, calls, hand, batch, trend, plan, caught, tries,
                 result, recorded, byHand>>

\* open is never sent twice: when its response is lost the header stays, and the
\* failed run has no number to complete it by.
callProcOpen(q) ==
  /\ at[q] \in {"open", "openLost"}
  /\ \/ /\ ledger' = Opened(trend[q])
        /\ run' = [run EXCEPT ![q] = Len(ledger')]
        /\ at' = [at EXCEPT ![q] = IF at[q] = "open" THEN "select" ELSE "send"]
        /\ UNCHANGED <<result, faults>>
     \/ /\ Fault
        /\ ledger' \in {ledger, Opened(trend[q])}
        /\ result' = [result EXCEPT ![q] = "failed"]
        /\ at' = [at EXCEPT ![q] = "cost"]
        /\ UNCHANGED run
  /\ UNCHANGED <<enriched, retired, fresh, calls, hand, batch, trend, plan, caught, tries,
                 recorded, byHand>>

\* What the model may emit: nothing, or an outcome and picks, which may name a
\* product that was not shown, or give it a fit that does not exist.
Emissions ==
  [outcome : {"matched", "no_match", "other", "none"},
   picks : SUBSET ((Products \cup {"ghost"}) \X {"strong", "other"})]

valid(picks, pool) == {p \in pool : <<p, "strong">> \in picks}

buildSourcingRunPlan(pool, emit) ==
  LET failed == [outcome |-> "failed", shown |-> 0, picked |-> 0]
      none == [outcome |-> "no_match", shown |-> 0, picked |-> 0]
      picked == Cardinality(valid(emit.picks, pool))
  IN  IF pool = {} THEN none
      ELSE IF emit.outcome = "none" THEN failed
      ELSE IF emit.outcome = "no_match" THEN none
      ELSE IF emit.outcome = "other" \/ picked = 0 THEN failed
      ELSE [outcome |-> "matched", shown |-> Cardinality(pool),
            picked |-> IF picked > Slots THEN Slots ELSE picked]

Plans == {buildSourcingRunPlan(pool, emit) : pool \in SUBSET Products, emit \in Emissions}

\* The retrieval and the selector; with an empty pool the selector is not called.
callSelector(q) ==
  /\ at[q] = "select"
  /\ \/ \E p \in Plans :
          /\ plan' = [plan EXCEPT ![q] = p]
          /\ IF p.outcome = "failed" THEN Fault ELSE UNCHANGED faults
          /\ UNCHANGED caught
     \/ /\ Fault
        /\ caught' = [caught EXCEPT ![q] = TRUE]
        /\ plan' = [plan EXCEPT ![q] = Pending]
  /\ at' = [at EXCEPT ![q] = "send"]
  /\ UNCHANGED <<tables, calls, hand, batch, trend, run, tries, result, recorded, byHand>>

CallOf(q) == [from |-> q, run |-> run[q], try |-> tries[q], late |-> caught[q],
              plan |-> plan[q], phase |-> "sent"]

\* callProcComplete: an attempt is on its way.
Send(q) ==
  /\ at[q] = "send"
  /\ tries' = [tries EXCEPT ![q] = @ + 1]
  /\ calls' = calls \cup {[CallOf(q) EXCEPT !.try = tries[q] + 1]}
  /\ at' = [at EXCEPT ![q] = "wait"]
  /\ UNCHANGED <<tables, hand, batch, trend, run, plan, caught, result, recorded, faults,
                 byHand>>

\* The connection breaks: the call may still arrive.  A transient error is tried
\* again; another, or the last, is thrown, and the catch block completes the run as
\* failed, once; when that is thrown too the receipt says failed all the same.
Break(q) ==
  /\ at[q] = "wait" /\ Fault
  /\ calls' \in {calls, calls \ {CallOf(q)}}
  /\ \/ /\ tries[q] < MaxAttempts
        /\ at' = [at EXCEPT ![q] = "send"]
        /\ UNCHANGED <<plan, caught, tries, result>>
     \/ /\ ~caught[q]
        /\ caught' = [caught EXCEPT ![q] = TRUE]
        /\ plan' = [plan EXCEPT ![q] = Pending]
        /\ tries' = [tries EXCEPT ![q] = 0]
        /\ at' = [at EXCEPT ![q] = "send"]
        /\ UNCHANGED result
     \/ /\ caught[q]
        /\ result' = [result EXCEPT ![q] = "failed"]
        /\ at' = [at EXCEPT ![q] = "cost"]
        /\ UNCHANGED <<plan, caught, tries>>
  /\ UNCHANGED <<tables, hand, batch, trend, run, recorded, byHand>>

----------------------------------------------------------------------------
(* PROC_SOURCING_APPLY('complete', ...) in the warehouse. *)

\* The request still waits for this call.
Awaited(c) ==
  /\ at[c.from] = "wait"
  /\ run[c.from] = c.run /\ tries[c.from] = c.try /\ caught[c.from] = c.late

\* Mutant: a refused completion is taken for one made before.
AnswerAnyway(c, applied) ==
  LET q == c.from IN
  IF ~Awaited(c) THEN UNCHANGED <<at, plan, caught, tries, result, recorded>>
  ELSE /\ result' = [result EXCEPT ![q] = c.plan.outcome]
       /\ recorded' = [recorded EXCEPT ![q] = TRUE]
       /\ at' = [at EXCEPT ![q] = "cost"]
       /\ UNCHANGED <<plan, caught, tries>>

\* The answer of a call.  A refusal is an error of the run: the catch block
\* completes it as failed, and whatever that is answered the receipt says failed;
\* only header_recorded knows whether the completion was applied.
Answer(c, applied) ==
  LET q == c.from IN
  IF ~Awaited(c) THEN UNCHANGED <<at, plan, caught, tries, result, recorded>>
  ELSE IF applied \/ caught[q]
  THEN /\ result' = [result EXCEPT ![q] = c.plan.outcome]
       /\ recorded' = [recorded EXCEPT ![q] = applied]
       /\ at' = [at EXCEPT ![q] = "cost"]
       /\ UNCHANGED <<plan, caught, tries>>
  ELSE /\ caught' = [caught EXCEPT ![q] = TRUE]
       /\ plan' = [plan EXCEPT ![q] = Pending]
       /\ tries' = [tries EXCEPT ![q] = 0]
       /\ at' = [at EXCEPT ![q] = "send"]
       /\ UNCHANGED <<result, recorded>>

\* The first SELECT: is the header still running?
Check(c) ==
  /\ c.phase = "sent"
  /\ IF ledger[c.run].status = "running"
     THEN /\ calls' = (calls \ {c}) \cup {[c EXCEPT !.phase = "checked"]}
          /\ UNCHANGED <<at, plan, caught, tries, result, recorded>>
     ELSE calls' = calls \ {c} /\ Answer(c, FALSE)
  /\ UNCHANGED <<tables, hand, batch, trend, run, faults, byHand>>

\* The header as the transaction leaves it.
Completed(h, p) ==
  [h EXCEPT !.status = p.outcome, !.shown = p.shown, !.picked = p.picked,
            !.rows = @ + p.shown]

\* Mutant: the number of updated rows is not looked at.
CommitUnguarded(c) ==
  /\ c.phase = "checked"
  /\ calls' = calls \ {c}
  /\ ledger' = [ledger EXCEPT ![c.run] =
                  IF @.status = "running" THEN Completed(@, c.plan)
                  ELSE [@ EXCEPT !.rows = @ + c.plan.shown]]
  /\ Answer(c, TRUE)
  /\ UNCHANGED <<enriched, retired, fresh, hand, batch, trend, run, faults, byHand>>

\* The transaction: header and candidate rows, or nothing when no running header
\* was updated or a statement fails.
Commit(c) ==
  /\ c.phase = "checked"
  /\ calls' = calls \ {c}
  /\ \/ /\ ledger[c.run].status = "running"
        /\ ledger' = [ledger EXCEPT ![c.run] = Completed(@, c.plan)]
        /\ Answer(c, TRUE)
        /\ UNCHANGED faults
     \/ /\ ledger[c.run].status # "running"
        /\ Answer(c, FALSE)
        /\ UNCHANGED <<ledger, faults>>
     \/ Fault /\ Answer(c, FALSE) /\ UNCHANGED ledger
  /\ UNCHANGED <<enriched, retired, fresh, hand, batch, trend, run, byHand>>

----------------------------------------------------------------------------
\* The cost row is sent once, and whether that fails changes no outcome.
insertCostRow(q) ==
  /\ at[q] = "cost"
  /\ Receipt(q, result[q])
  /\ UNCHANGED <<tables, calls, hand, batch, trend, run, faults, byHand>>

\* The instance is reclaimed, or the request runs into the service's timeout.
Die(q) ==
  /\ at[q] # "idle" /\ Fault
  /\ at' = [at EXCEPT ![q] = "idle"]
  /\ batch' = [batch EXCEPT ![q] = {}]
  /\ trend' = [trend EXCEPT ![q] = NoTrend]
  /\ plan' = [plan EXCEPT ![q] = Pending]
  /\ caught' = [caught EXCEPT ![q] = FALSE]
  /\ tries' = [tries EXCEPT ![q] = 0]
  /\ Fresh(q)
  /\ UNCHANGED <<tables, calls, hand, byHand>>

----------------------------------------------------------------------------
(* The rest of the system. *)

\* Thirty minutes pass; a request is given half as long, but nothing ends its run.
Age(i) ==
  /\ ledger[i].status = "running" /\ ~ledger[i].old
  /\ ledger' = [ledger EXCEPT ![i].old = TRUE]
  /\ UNCHANGED <<enriched, retired, fresh, calls, request, faults, byHand>>

Enrich ==
  /\ \E t \in Trends \ enriched :
       /\ \A u \in Trends \ enriched : t <= u
       /\ enriched' = enriched \cup {t}
  /\ UNCHANGED <<retired, fresh, ledger, calls, request, faults, byHand>>

Retire ==
  /\ Fault
  /\ \E t \in Trends \ retired : retired' = retired \cup {t}
  /\ UNCHANGED <<enriched, fresh, ledger, calls, request, byHand>>

\* The catalog sync lands, or has not for seven days.
CatalogSynced ==
  /\ ~fresh /\ fresh' = TRUE
  /\ UNCHANGED <<enriched, retired, ledger, calls, request, faults, byHand>>

CatalogStale ==
  /\ fresh /\ fresh' = FALSE /\ Fault
  /\ UNCHANGED <<enriched, retired, ledger, calls, request, byHand>>

----------------------------------------------------------------------------
Work(q) ==
  \/ NextTrend(q) \/ fetchContext(q) \/ callProcOpen(q) \/ callSelector(q)
  \/ Send(q) \/ Break(q) \/ insertCostRow(q)

Serve == \E c \in calls : Check(c) \/ Commit(c)

Next ==
  \/ \E q \in Requests : Poll(q) \/ Source(q) \/ Work(q) \/ Die(q)
  \/ Serve
  \/ \E i \in DOMAIN ledger : Age(i)
  \/ Enrich \/ Retire \/ CatalogSynced \/ CatalogStale

\* The scheduler fires every quarter of an hour; a request that lives goes on, the
\* warehouse answers, time passes and the daily sync lands.
Fairness ==
  /\ \A q \in Requests : WF_vars(Poll(q)) /\ WF_vars(Work(q))
  /\ WF_vars(Serve)
  /\ WF_vars(\E i \in DOMAIN ledger : Age(i))
  /\ WF_vars(CatalogSynced)

Spec == Init /\ [][Next]_vars /\ Fairness

----------------------------------------------------------------------------
\* A header says matched exactly when it has candidate rows, and has each of them
\* once, with one to Slots of them picked: whatever attempts of the completion the
\* warehouse executes, and in which order.
VerdictWithCandidates ==
  \A i \in DOMAIN ledger :
    LET h == ledger[i] IN
    /\ h.rows = h.shown
    /\ h.status = "matched" <=> h.rows > 0
    /\ h.status = "matched" <=> h.picked > 0

\* The request has a receipt, or the answer it is written from.
Told(q) == at[q] \in {"cost", "next", "idle"} /\ result[q] \in Final

\* A receipt that says matched or no_match, or whose header_recorded is set, names the
\* status of its header.  One that says failed without it says nothing of the header: a
\* completion whose response is lost is sent again and refused, as is the catch block's,
\* and the header may say matched.
ReceiptIsRecorded ==
  \A q \in Requests : Told(q) =>
    /\ result[q] \in {"matched", "no_match"} => recorded[q]
    /\ recorded[q] => run[q] > 0 /\ ledger[run[q]].status = result[q]

\* The poll heals: an enriched trend gets a verdict or is retired, whatever crashed,
\* failed or was lost on the way.
Sourced(t) == \E i \in DOMAIN ledger :
                ledger[i].trend = t /\ ledger[i].status \in {"matched", "no_match"}

SourcedInTheEnd == \A t \in Trends : (t \in enriched) ~> (Sourced(t) \/ t \in retired)

----------------------------------------------------------------------------
(* The inductive invariant of the proofs (Sourcing_proofs). *)

\* An attempt is counted, and the catch block entered, from the sending to the end of the
\* run, and one attempt is left when the next is sent.
AttemptLeft ==
  \A q \in Requests :
    /\ tries[q] > 0 \/ caught[q] => at[q] \in {"send", "wait", "cost"}
    /\ at[q] = "send" => tries[q] < MaxAttempts

\* A plan that shows candidates picks some of them, and says matched.
Consistent(p) ==
  /\ p.outcome = "matched" <=> p.shown > 0
  /\ p.outcome = "matched" <=> p.picked > 0

\* The plans made, and those of the completions the warehouse still holds; the catch
\* block's says failed.
PlansConsistent ==
  /\ \A q \in Requests :
       Consistent(plan[q]) /\ (caught[q] => plan[q].outcome = "failed")
  /\ \A c \in calls :
       Consistent(c.plan) /\ (c.late => c.plan.outcome = "failed")

\* header_recorded is set with the answer and cleared with the receipt.
RecordedIsTold == \A q \in Requests : recorded[q] => Told(q)

SourcingInv ==
  TypeOK /\ AttemptLeft /\ PlansConsistent /\ VerdictWithCandidates /\ RecordedIsTold
    /\ ReceiptIsRecorded
=============================================================================

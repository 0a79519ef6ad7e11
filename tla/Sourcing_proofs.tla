--------------------------- MODULE Sourcing_proofs ---------------------------
(***************************************************************************)
(* Proofs about Sourcing: type correctness, that a header says matched      *)
(* exactly when it has candidates, each once, and that a receipt tells the  *)
(* truth about its header, for any number of requests, trends, products,   *)
(* attempts and faults.                                                    *)
(***************************************************************************)
EXTENDS Sourcing, FiniteSetTheorems, TLAPS

LEMMA Limits ==
  /\ Slots \in Nat /\ Slots > 0 /\ MaxAttempts \in Nat /\ MaxAttempts > 0
  /\ MaxFaults \in Nat /\ ByHand \in Nat
  /\ Cardinality(Products) \in Nat
<1>1. Cardinality(Products) \in Nat
  BY ProductsAssumption, FS_CardinalityType
<1>. QED
  BY <1>1, LimitsAssumption

LEMMA PendingPlan == Pending \in Plan /\ Consistent(Pending) /\ Pending.outcome = "failed"
  BY Limits DEF Pending, Plan, Final, Consistent

\* What a pool of candidates counts.
LEMMA PoolCounts ==
  ASSUME NEW pool \in SUBSET Products
  PROVE  /\ IsFiniteSet(pool)
         /\ Cardinality(pool) \in 0..Cardinality(Products)
         /\ Cardinality(pool) = 0 <=> pool = {}
<1>1. /\ IsFiniteSet(pool) /\ Cardinality(pool) <= Cardinality(Products)
  BY ProductsAssumption, FS_Subset
<1>2. Cardinality(pool) \in Nat
  BY <1>1, FS_CardinalityType
<1>3. Cardinality(pool) = 0 <=> pool = {}
  BY <1>1, FS_EmptySet
<1>. QED
  BY <1>1, <1>2, <1>3, Limits

\* Whatever the model emits, the plan of a run is consistent: it says matched only
\* over a pool of candidates, and with at least one, at most Slots of them picked.
LEMMA PlanOf ==
  ASSUME NEW pool \in SUBSET Products, NEW emit \in Emissions
  PROVE  /\ buildSourcingRunPlan(pool, emit) \in Plan
         /\ Consistent(buildSourcingRunPlan(pool, emit))
<1>. DEFINE picked == Cardinality(valid(emit.picks, pool))
            cut == IF picked > Slots THEN Slots ELSE picked
            failed == [outcome |-> "failed", shown |-> 0, picked |-> 0]
            none == [outcome |-> "no_match", shown |-> 0, picked |-> 0]
            found == [outcome |-> "matched", shown |-> Cardinality(pool), picked |-> cut]
<1>1. valid(emit.picks, pool) \in SUBSET Products
  BY DEF valid
<1>2. picked \in Nat
  BY <1>1, PoolCounts
<1>3. Cardinality(pool) \in 0..Cardinality(Products) /\ (Cardinality(pool) = 0 <=> pool = {})
  BY PoolCounts
<1>4. failed \in Plan /\ Consistent(failed) /\ none \in Plan /\ Consistent(none)
  BY Limits DEF Plan, Final, Consistent
<1>5. CASE pool # {} /\ picked # 0
  <2>1. cut \in 0..Slots /\ cut > 0
    BY <1>2, <1>5, Limits
  <2>2. Cardinality(pool) > 0
    BY <1>3, <1>5, Limits
  <2>3. found \in Plan /\ Consistent(found)
    BY <1>3, <2>1, <2>2 DEF Plan, Final, Consistent
  <2>4. buildSourcingRunPlan(pool, emit) \in {failed, none, found}
    BY DEF buildSourcingRunPlan
  <2>. QED
    BY <1>4, <2>3, <2>4
<1>6. CASE ~(pool # {} /\ picked # 0)
  <2>1. buildSourcingRunPlan(pool, emit) \in {failed, none}
    BY <1>6 DEF buildSourcingRunPlan
  <2>. QED
    BY <1>4, <2>1
<1>. QED
  BY <1>5, <1>6

LEMMA PlansOf == \A p \in Plans : p \in Plan /\ Consistent(p)
  BY PlanOf DEF Plans

LEMMA FaultCounts ==
  ASSUME faults \in 0..MaxFaults, Fault
  PROVE  faults' \in 0..MaxFaults
  BY Limits DEF Fault

----------------------------------------------------------------------------
(* Types, and the attempts of a completion. *)

\* The parts of the types that a request's own steps change.
RequestTypes ==
  /\ at \in [Requests -> Steps]
  /\ hand \in [Requests -> BOOLEAN]
  /\ batch \in [Requests -> SUBSET Trends]
  /\ trend \in [Requests -> Trends \cup {NoTrend}]
  /\ run \in [Requests -> 0..Len(ledger)]
  /\ plan \in [Requests -> Plan]
  /\ caught \in [Requests -> BOOLEAN]
  /\ tries \in [Requests -> 0..MaxAttempts]
  /\ result \in [Requests -> Final \cup {"none", "not_sourced"}]
  /\ recorded \in [Requests -> BOOLEAN]
  /\ \A q \in Requests :
       /\ at[q] \notin {"idle", "next"} => trend[q] \in Trends
       /\ at[q] \in {"select", "send", "wait"} => run[q] > 0

TableTypes ==
  /\ enriched \in SUBSET Trends /\ retired \in SUBSET Trends
  /\ fresh \in BOOLEAN
  /\ ledger \in Seq(Header)
  /\ calls \in SUBSET Call
  /\ \A c \in calls : c.run <= Len(ledger)
  /\ faults \in 0..MaxFaults /\ byHand \in 0..ByHand

LEMMA TypesAre == TypeOK <=> RequestTypes /\ TableTypes
  BY DEF TypeOK, RequestTypes, TableTypes

Results == Final \cup {"none", "not_sourced"}

\* Before the first attempt of a run none is counted.
LEMMA NoAttempt ==
  ASSUME TypeOK, AttemptLeft, NEW q \in Requests, at[q] \notin {"send", "wait", "cost"}
  PROVE  tries[q] = 0 /\ ~caught[q]
<1>1. tries[q] \in Nat
  BY Limits DEF TypeOK
<1>2. ~(tries[q] > 0) /\ ~caught[q]
  BY DEF AttemptLeft
<1>. QED
  BY <1>1, <1>2

LEMMA ReceiptTypes ==
  ASSUME TypeOK, AttemptLeft, NEW q \in Requests, NEW r \in Results, Receipt(q, r),
         UNCHANGED <<ledger, hand, batch, trend, run>>
  PROVE  RequestTypes' /\ AttemptLeft'
<1>. USE Limits, PendingPlan
<1>1. at' \in [Requests -> Steps] /\ at'[q] \in {"idle", "next"}
  BY DEF Receipt, TypeOK, Steps
<1>2. \A s \in Requests : s # q => at'[s] = at[s] /\ tries'[s] = tries[s]
                                     /\ caught'[s] = caught[s]
  BY DEF Receipt, TypeOK
<1>3. /\ plan' \in [Requests -> Plan] /\ caught' \in [Requests -> BOOLEAN]
      /\ tries' \in [Requests -> 0..MaxAttempts] /\ tries'[q] = 0 /\ ~caught'[q]
      /\ result' \in [Requests -> Results] /\ recorded' \in [Requests -> BOOLEAN]
  BY DEF Receipt, TypeOK, Results
<1>4. RequestTypes'
  BY <1>1, <1>2, <1>3 DEF RequestTypes, TypeOK, Results
<1>5. AttemptLeft'
  <2>1. \A s \in Requests : /\ tries'[s] > 0 \/ caught'[s] => at'[s] \in {"send", "wait", "cost"}
                            /\ at'[s] = "send" => tries'[s] < MaxAttempts
    BY <1>1, <1>2, <1>3 DEF AttemptLeft
  <2>. QED
    BY <2>1 DEF AttemptLeft
<1>. QED
  BY <1>4, <1>5

\* The steps that change no table: the claims, the end of a trend, its context.
Turning(q) == Poll(q) \/ Source(q) \/ NextTrend(q) \/ fetchContext(q)

LEMMA TurningTypes ==
  ASSUME TypeOK, AttemptLeft, NEW q \in Requests, Turning(q)
  PROVE  TypeOK' /\ AttemptLeft'
<1>. USE Limits, PendingPlan
<1>1. CASE Poll(q)
  <2>1. Claimed \subseteq Trends
    BY DEF Claimed, Eligible, TypeOK
  <2>2. RequestTypes'
    BY <1>1, <2>1 DEF Poll, Fresh, tables, TypeOK, RequestTypes, Steps
  <2>3. TableTypes'
    BY <1>1 DEF Poll, tables, TypeOK, TableTypes
  <2>4. AttemptLeft'
    BY <1>1 DEF Poll, AttemptLeft, TypeOK
  <2>. QED
    BY <2>2, <2>3, <2>4, TypesAre DEF TypeOK, RequestTypes, TableTypes
<1>2. CASE Source(q)
  <2>1. RequestTypes'
    BY <1>2 DEF Source, Fresh, tables, TypeOK, RequestTypes, Steps
  <2>2. TableTypes'
    <3>1. byHand' \in 0..ByHand
      BY <1>2 DEF Source, TypeOK
    <3>. QED
      BY <1>2, <3>1 DEF Source, tables, TypeOK, TableTypes
  <2>3. AttemptLeft'
    BY <1>2 DEF Source, AttemptLeft, TypeOK
  <2>. QED
    BY <2>1, <2>2, <2>3 DEF TypeOK, RequestTypes, TableTypes
<1>3. CASE NextTrend(q)
  <2>1. RequestTypes'
    <3>1. /\ run' \in [Requests -> 0..Len(ledger)] /\ run'[q] = 0
          /\ result' \in [Requests -> Results] /\ recorded' \in [Requests -> BOOLEAN]
          /\ \A s \in Requests : s # q => run'[s] = run[s]
      BY <1>3 DEF NextTrend, Fresh, TypeOK, Results
    <3>2. at' \in [Requests -> Steps] /\ trend' \in [Requests -> Trends \cup {NoTrend}]
      <4>1. batch[q] \subseteq Trends /\ at \in [Requests -> Steps]
            /\ trend \in [Requests -> Trends \cup {NoTrend}]
        BY DEF TypeOK
      <4>2. \/ /\ at' = [at EXCEPT ![q] = "idle"]
               /\ trend' = [trend EXCEPT ![q] = NoTrend]
            \/ /\ at' = [at EXCEPT ![q] = "context"]
               /\ \E t \in batch[q] : trend' = [trend EXCEPT ![q] = t]
        BY <1>3 DEF NextTrend
      <4>. QED
        BY <4>1, <4>2 DEF Steps
    <3>6. batch' \in [Requests -> SUBSET Trends]
      <4>1. batch \in [Requests -> SUBSET Trends] /\ \A t \in batch[q] : batch[q] \ {t} \subseteq Trends
        BY DEF TypeOK
      <4>2. \/ batch' = [batch EXCEPT ![q] = {}]
            \/ \E t \in batch[q] : batch' = [batch EXCEPT ![q] = @ \ {t}]
        BY <1>3 DEF NextTrend
      <4>. QED
        BY <4>1, <4>2
    <3>3. \/ at'[q] = "context" /\ trend'[q] \in Trends
          \/ at'[q] = "idle"
      BY <1>3 DEF NextTrend, TypeOK
    <3>4. \A s \in Requests : s # q => at'[s] = at[s] /\ trend'[s] = trend[s]
      BY <1>3 DEF NextTrend, TypeOK
    <3>5. UNCHANGED <<ledger, hand, plan, caught, tries>>
      BY <1>3, Zenon DEF NextTrend, tables
    <3>. QED
      BY <3>1, <3>2, <3>3, <3>4, <3>5, <3>6 DEF TypeOK, RequestTypes, Results
  <2>2. TableTypes'
    BY <1>3 DEF NextTrend, tables, TypeOK, TableTypes
  <2>3. AttemptLeft'
    BY <1>3 DEF NextTrend, AttemptLeft, TypeOK
  <2>. QED
    BY <2>1, <2>2, <2>3 DEF TypeOK, RequestTypes, TableTypes
<1>4. CASE fetchContext(q)
  <2>0. UNCHANGED <<ledger, hand, batch, trend, run>>
    BY <1>4, Zenon DEF fetchContext, tables
  <2>1. RequestTypes' /\ AttemptLeft'
    <3>1. CASE \E r \in Results : Receipt(q, r)
      BY <2>0, <3>1, ReceiptTypes
    <3>2. CASE /\ at' = [at EXCEPT ![q] = IF trend[q] \in enriched THEN "open" ELSE "openLost"]
               /\ UNCHANGED <<plan, caught, tries, result, recorded>>
      <4>1. at[q] = "context"
        BY <1>4 DEF fetchContext
      <4>2. RequestTypes'
        BY <2>0, <3>2, <4>1 DEF TypeOK, RequestTypes, Steps
      <4>3. AttemptLeft'
        BY <3>2, <4>1 DEF AttemptLeft, TypeOK
      <4>. QED
        BY <4>2, <4>3
    <3>3. {"not_sourced", IF hand[q] THEN "none" ELSE "failed"} \subseteq Results
      BY DEF Results, Final
    <3>. QED
      BY <1>4, <3>1, <3>2, <3>3 DEF fetchContext
  <2>2. TableTypes'
    BY <1>4, FaultCounts DEF fetchContext, tables, TypeOK, TableTypes
  <2>. QED
    BY <2>1, <2>2 DEF TypeOK, RequestTypes, TableTypes
<1>. QED
  BY <1>1, <1>2, <1>3, <1>4 DEF Turning

\* A header is opened; the run learns its number, or does not.
LEMMA OpenTypes ==
  ASSUME TypeOK, AttemptLeft, NEW q \in Requests, callProcOpen(q)
  PROVE  TypeOK' /\ AttemptLeft'
<1>. USE Limits
<1>1. at[q] \in {"open", "openLost"} /\ trend[q] \in Trends /\ tries[q] = 0
  BY NoAttempt DEF callProcOpen, TypeOK
<1>2. Opened(trend[q]) \in Seq(Header) /\ Len(Opened(trend[q])) = Len(ledger) + 1
  <2>1. [trend |-> trend[q], status |-> "running", old |-> FALSE,
         shown |-> 0, picked |-> 0, rows |-> 0] \in Header
    BY <1>1 DEF Header
  <2>. QED
    BY <2>1 DEF Opened, TypeOK
<1>3. ledger' \in Seq(Header) /\ Len(ledger') >= Len(ledger) /\ ledger' \in {ledger, Opened(trend[q])}
  BY <1>2 DEF callProcOpen, TypeOK
<1>4. UNCHANGED <<enriched, retired, fresh, calls, hand, batch, trend, plan, caught, tries,
                  recorded, byHand>>
  BY Zenon DEF callProcOpen
<1>5. faults' \in 0..MaxFaults
  BY FaultCounts DEF callProcOpen, TypeOK
<1>6. TableTypes'
  <2>1. Len(ledger) \in Nat /\ Len(ledger') \in Nat
    BY <1>3 DEF TypeOK
  <2>2. \A c \in calls : c.run \in Nat /\ c.run <= Len(ledger)
    BY DEF TypeOK, Call
  <2>3. \A c \in calls : c.run <= Len(ledger')
    BY <1>3, <2>1, <2>2
  <2>. QED
    BY <1>3, <1>4, <1>5, <2>3 DEF TypeOK, TableTypes
<1>7. /\ at' \in [Requests -> Steps] /\ at'[q] \in {"select", "send", "cost"}
      /\ run' \in [Requests -> 0..Len(ledger')]
      /\ at'[q] \in {"select", "send"} => run'[q] > 0
      /\ result' \in [Requests -> Results]
      /\ \A s \in Requests : s # q => at'[s] = at[s] /\ run'[s] = run[s]
  <2>0. Len(ledger) \in Nat /\ Len(ledger') \in Nat /\ run \in [Requests -> 0..Len(ledger)]
        /\ run \in [Requests -> 0..Len(ledger')]
    BY <1>3 DEF TypeOK
  <2>1. CASE /\ ledger' = Opened(trend[q]) /\ run' = [run EXCEPT ![q] = Len(ledger')]
             /\ at' = [at EXCEPT ![q] = IF at[q] = "open" THEN "select" ELSE "send"]
             /\ UNCHANGED result
    <3>1. Len(ledger') > 0
      BY <1>2, <2>0, <2>1
    <3>. QED
      BY <2>0, <2>1, <3>1 DEF TypeOK, Results, Steps
  <2>2. CASE /\ result' = [result EXCEPT ![q] = "failed"]
             /\ at' = [at EXCEPT ![q] = "cost"]
             /\ UNCHANGED run
    BY <2>0, <2>2 DEF TypeOK, Results, Steps, Final
  <2>. QED
    BY <2>1, <2>2 DEF callProcOpen
<1>8. RequestTypes'
  BY <1>1, <1>4, <1>7 DEF TypeOK, RequestTypes, Results
<1>9. AttemptLeft'
  BY <1>1, <1>4, <1>7 DEF AttemptLeft, TypeOK
<1>. QED
  BY <1>6, <1>8, <1>9 DEF TypeOK, RequestTypes, TableTypes

\* A plan is made, or the run fails before it has one.
LEMMA SelectTypes ==
  ASSUME TypeOK, AttemptLeft, NEW q \in Requests, callSelector(q)
  PROVE  TypeOK' /\ AttemptLeft'
<1>. USE Limits
<1>1. at[q] = "select" /\ tries[q] = 0 /\ at' = [at EXCEPT ![q] = "send"]
  BY NoAttempt DEF callSelector
<1>2. plan' \in [Requests -> Plan] /\ caught' \in [Requests -> BOOLEAN]
  BY PlansOf, PendingPlan DEF callSelector, TypeOK
<1>3. faults' \in 0..MaxFaults
  BY FaultCounts DEF callSelector, TypeOK
<1>4. UNCHANGED <<tables, calls, hand, batch, trend, run, tries, result, recorded, byHand>>
  BY Zenon DEF callSelector
<1>5. RequestTypes'
  BY <1>1, <1>2, <1>4 DEF tables, TypeOK, RequestTypes, Steps
<1>6. TableTypes'
  BY <1>3, <1>4 DEF tables, TypeOK, TableTypes
<1>7. AttemptLeft'
  <2>1. UNCHANGED tries /\ \A s \in Requests : s # q => caught'[s] = caught[s]
    BY DEF callSelector, TypeOK
  <2>. QED
    BY <1>1, <2>1 DEF AttemptLeft, TypeOK
<1>. QED
  BY <1>5, <1>6, <1>7 DEF TypeOK, RequestTypes, TableTypes

\* The call of a request that has a header is a call.
LEMMA CallTypes ==
  ASSUME TypeOK, NEW q \in Requests, at[q] \in {"send", "wait"}, NEW n \in Nat
  PROVE  /\ CallOf(q) \in Call /\ CallOf(q).run <= Len(ledger)
         /\ [CallOf(q) EXCEPT !.try = n] \in Call
         /\ [CallOf(q) EXCEPT !.try = n].run <= Len(ledger)
         /\ [CallOf(q) EXCEPT !.try = n].plan = plan[q]
         /\ [CallOf(q) EXCEPT !.try = n].late = caught[q]
<1>1. run[q] \in Nat \ {0} /\ run[q] <= Len(ledger) /\ tries[q] \in Nat
  BY Limits DEF TypeOK
<1>. QED
  BY <1>1 DEF CallOf, Call, TypeOK

LEMMA SendTypes ==
  ASSUME TypeOK, AttemptLeft, NEW q \in Requests, Send(q)
  PROVE  TypeOK' /\ AttemptLeft'
<1>. USE Limits
<1>1. at[q] = "send" /\ at' = [at EXCEPT ![q] = "wait"] /\ tries' = [tries EXCEPT ![q] = @ + 1]
  BY DEF Send
<1>2. tries[q] + 1 \in 0..MaxAttempts
  BY <1>1 DEF AttemptLeft, TypeOK
<1>3. calls' = calls \cup {[CallOf(q) EXCEPT !.try = tries[q] + 1]}
  BY DEF Send
<1>4. calls' \in SUBSET Call /\ \A c \in calls' : c.run <= Len(ledger)
  <2>1. tries[q] + 1 \in Nat
    BY <1>2
  <2>2. /\ [CallOf(q) EXCEPT !.try = tries[q] + 1] \in Call
        /\ [CallOf(q) EXCEPT !.try = tries[q] + 1].run <= Len(ledger)
    BY <1>1, <2>1, CallTypes
  <2>. QED
    BY <1>3, <2>2 DEF TypeOK
<1>5. UNCHANGED <<tables, hand, batch, trend, run, plan, caught, result, recorded, faults,
                  byHand>>
  BY Zenon DEF Send
<1>6. RequestTypes'
  BY <1>1, <1>2, <1>5 DEF tables, TypeOK, RequestTypes, Steps
<1>7. TableTypes'
  BY <1>4, <1>5 DEF tables, TypeOK, TableTypes
<1>8. AttemptLeft'
  <2>1. UNCHANGED caught
    BY <1>1 DEF Send
  <2>2. /\ at'[q] = "wait" /\ \A s \in Requests : s # q => at'[s] = at[s] /\ tries'[s] = tries[s]
    BY <1>1 DEF TypeOK
  <2>. QED
    BY <2>1, <2>2 DEF AttemptLeft
<1>. QED
  BY <1>6, <1>7, <1>8 DEF TypeOK, RequestTypes, TableTypes

\* The catch block completes the run as failed, from the first attempt on.
Retake(q) ==
  /\ caught' = [caught EXCEPT ![q] = TRUE]
  /\ plan' = [plan EXCEPT ![q] = Pending]
  /\ tries' = [tries EXCEPT ![q] = 0]
  /\ at' = [at EXCEPT ![q] = "send"]
  /\ UNCHANGED <<result, recorded>>

\* The run is given an answer.
Answered(q, r, applied) ==
  /\ result' = [result EXCEPT ![q] = r]
  /\ recorded' = [recorded EXCEPT ![q] = applied]
  /\ at' = [at EXCEPT ![q] = "cost"]
  /\ UNCHANGED <<plan, caught, tries>>

\* A request that waits is answered, or completes again.
LEMMA EndTypes ==
  ASSUME TypeOK, AttemptLeft, NEW q \in Requests, at[q] = "wait",
         Retake(q) \/ \E r \in Results, b \in BOOLEAN : Answered(q, r, b),
         Len(ledger') = Len(ledger), UNCHANGED <<hand, batch, trend, run>>
  PROVE  RequestTypes' /\ AttemptLeft'
<1>. USE Limits, PendingPlan
<1>1. CASE Retake(q)
  <2>1. RequestTypes'
    BY <1>1 DEF Retake, RequestTypes, TypeOK, Steps
  <2>2. AttemptLeft'
    BY <1>1 DEF Retake, AttemptLeft, TypeOK
  <2>. QED
    BY <2>1, <2>2
<1>2. ASSUME NEW r \in Results, NEW b \in BOOLEAN, Answered(q, r, b)
      PROVE  RequestTypes' /\ AttemptLeft'
  <2>1. RequestTypes'
    BY <1>2 DEF Answered, RequestTypes, TypeOK, Steps, Results
  <2>2. AttemptLeft'
    BY <1>2 DEF Answered, AttemptLeft, TypeOK
  <2>. QED
    BY <2>1, <2>2
<1>. QED
  BY <1>1, <1>2

LEMMA BreakTypes ==
  ASSUME TypeOK, AttemptLeft, NEW q \in Requests, Break(q)
  PROVE  TypeOK' /\ AttemptLeft'
<1>. USE Limits
<1>1. at[q] = "wait"
  BY DEF Break
<1>2. UNCHANGED <<ledger, enriched, retired, fresh, hand, batch, trend, run, recorded, byHand>>
  BY Zenon DEF Break, tables
<1>3. TableTypes'
  <2>1. calls' \subseteq calls
    BY DEF Break
  <2>2. faults' \in 0..MaxFaults
    BY FaultCounts DEF Break, TypeOK
  <2>. QED
    BY <1>2, <2>1, <2>2 DEF TypeOK, TableTypes
<1>4. RequestTypes' /\ AttemptLeft'
  <2>1. CASE /\ tries[q] < MaxAttempts
             /\ at' = [at EXCEPT ![q] = "send"]
             /\ UNCHANGED <<plan, caught, tries, result>>
    <3>1. RequestTypes'
      BY <1>1, <1>2, <2>1 DEF RequestTypes, TypeOK, Steps
    <3>2. AttemptLeft'
      BY <1>1, <2>1 DEF AttemptLeft, TypeOK
    <3>. QED
      BY <3>1, <3>2
  <2>2. CASE Retake(q)
    BY <1>1, <1>2, <2>2, EndTypes
  <2>3. CASE Answered(q, "failed", recorded[q])
    <3>1. "failed" \in Results /\ recorded[q] \in BOOLEAN
      BY DEF Results, Final, TypeOK
    <3>. QED
      BY <1>1, <1>2, <2>3, <3>1, EndTypes
  <2>4. recorded' = [recorded EXCEPT ![q] = recorded[q]]
    BY <1>2 DEF TypeOK
  <2>. QED
    BY <1>2, <2>1, <2>2, <2>3, <2>4 DEF Break, Retake, Answered
<1>. QED
  BY <1>3, <1>4 DEF TypeOK, RequestTypes, TableTypes

LEMMA CostTypes ==
  ASSUME TypeOK, AttemptLeft, NEW q \in Requests, insertCostRow(q)
  PROVE  TypeOK' /\ AttemptLeft'
<1>1. UNCHANGED <<tables, calls, hand, batch, trend, run, faults, byHand>>
  BY Zenon DEF insertCostRow
<1>2. Receipt(q, result[q]) /\ result[q] \in Results
  BY DEF insertCostRow, TypeOK, Results
<1>3. RequestTypes' /\ AttemptLeft'
  BY <1>1, <1>2, ReceiptTypes DEF tables
<1>4. TableTypes'
  BY <1>1 DEF tables, TypeOK, TableTypes
<1>. QED
  BY <1>3, <1>4 DEF TypeOK, RequestTypes, TableTypes

LEMMA DieTypes ==
  ASSUME TypeOK, AttemptLeft, NEW q \in Requests, Die(q)
  PROVE  TypeOK' /\ AttemptLeft'
<1>. USE Limits, PendingPlan
<1>1. UNCHANGED <<tables, calls, hand, byHand>>
  BY Zenon DEF Die
<1>2. faults' \in 0..MaxFaults
  BY FaultCounts DEF Die, TypeOK
<1>3. RequestTypes'
  <2>1. /\ plan' \in [Requests -> Plan] /\ caught' \in [Requests -> BOOLEAN]
        /\ tries' \in [Requests -> 0..MaxAttempts]
        /\ batch' \in [Requests -> SUBSET Trends]
        /\ trend' \in [Requests -> Trends \cup {NoTrend}]
    BY DEF Die, TypeOK
  <2>2. /\ run' \in [Requests -> 0..Len(ledger)]
        /\ result' \in [Requests -> Results] /\ recorded' \in [Requests -> BOOLEAN]
    BY DEF Die, Fresh, TypeOK, Results
  <2>3. at' \in [Requests -> Steps] /\ at'[q] = "idle"
    BY DEF Die, TypeOK, Steps
  <2>4. \A s \in Requests : s # q => at'[s] = at[s] /\ trend'[s] = trend[s] /\ run'[s] = run[s]
    BY DEF Die, Fresh, TypeOK
  <2>. QED
    BY <1>1, <2>1, <2>2, <2>3, <2>4 DEF tables, TypeOK, RequestTypes, Results
<1>4. TableTypes'
  BY <1>1, <1>2 DEF tables, TypeOK, TableTypes
<1>5. AttemptLeft'
  BY DEF Die, AttemptLeft, TypeOK
<1>. QED
  BY <1>3, <1>4, <1>5 DEF TypeOK, RequestTypes, TableTypes

----------------------------------------------------------------------------
(* What the warehouse answers. *)

\* The answer of a call is no matter of the request, or ends its run, or makes the
\* catch block complete it.
LEMMA AnswerIs ==
  ASSUME NEW c \in calls, NEW applied \in BOOLEAN, Answer(c, applied)
  PROVE  \/ UNCHANGED <<at, plan, caught, tries, result, recorded>>
         \/ /\ at[c.from] = "wait" /\ run[c.from] = c.run
            /\ \/ Retake(c.from)
               \/ (applied \/ c.late) /\ Answered(c.from, c.plan.outcome, applied)
<1>1. CASE ~Awaited(c)
  BY <1>1, Zenon DEF Answer
<1>2. CASE Awaited(c)
  BY <1>2 DEF Answer, Awaited, Retake, Answered
<1>. QED
  BY <1>1, <1>2

\* The types of the requests after an answer.
LEMMA AnswerTypes ==
  ASSUME TypeOK, AttemptLeft, NEW c \in calls, NEW applied \in BOOLEAN, Answer(c, applied),
         Len(ledger') = Len(ledger), UNCHANGED <<hand, batch, trend, run>>
  PROVE  RequestTypes' /\ AttemptLeft'
<1>1. c.from \in Requests /\ c.plan.outcome \in Results
  BY DEF TypeOK, Call, Plan, Results
<1>2. CASE UNCHANGED <<at, plan, caught, tries, result, recorded>>
  <2>1. RequestTypes'
    BY <1>2 DEF RequestTypes, TypeOK
  <2>2. AttemptLeft'
    BY <1>2 DEF AttemptLeft
  <2>. QED
    BY <2>1, <2>2
<1>3. CASE /\ at[c.from] = "wait"
           /\ Retake(c.from) \/ \E r \in Results, b \in BOOLEAN : Answered(c.from, r, b)
  BY <1>1, <1>3, EndTypes
<1>. QED
  BY <1>1, <1>2, <1>3, AnswerIs

\* The transaction leaves the header it completes a header, and the others alone.
LEMMA CompleteTypes ==
  ASSUME TypeOK, NEW c \in calls,
         ledger' = [ledger EXCEPT ![c.run] = Completed(@, c.plan)]
  PROVE  /\ ledger' \in Seq(Header) /\ Len(ledger') = Len(ledger)
         /\ c.run \in DOMAIN ledger
         /\ ledger'[c.run] = Completed(ledger[c.run], c.plan)
         /\ \A i \in DOMAIN ledger : i # c.run => ledger'[i] = ledger[i]
<1>1. c.run \in DOMAIN ledger /\ c.plan \in Plan
  BY DEF TypeOK, Call
<1>2. ledger[c.run] \in Header
  BY <1>1 DEF TypeOK
<1>3. Completed(ledger[c.run], c.plan) \in Header
  <2>1. ledger[c.run].rows + c.plan.shown \in Nat
    BY <1>1, <1>2, Limits DEF Header, Plan
  <2>. QED
    BY <1>1, <1>2, <2>1 DEF Completed, Header, Plan
<1>. QED
  BY <1>1, <1>3 DEF TypeOK

LEMMA CheckTypes ==
  ASSUME TypeOK, AttemptLeft, NEW c \in calls, Check(c)
  PROVE  TypeOK' /\ AttemptLeft'
<1>1. UNCHANGED <<ledger, enriched, retired, fresh, hand, batch, trend, run, faults, byHand>>
  BY Zenon DEF Check, tables
<1>2. c \in Call /\ c.run <= Len(ledger)
  BY DEF TypeOK
<1>3. CASE ledger[c.run].status = "running"
  <2>1. /\ calls' = (calls \ {c}) \cup {[c EXCEPT !.phase = "checked"]}
        /\ UNCHANGED <<at, plan, caught, tries, result, recorded>>
    BY <1>3 DEF Check
  <2>2. /\ [c EXCEPT !.phase = "checked"] \in Call
        /\ [c EXCEPT !.phase = "checked"].run <= Len(ledger)
    BY <1>2 DEF Call
  <2>3. TypeOK'
    BY <1>1, <2>1, <2>2 DEF TypeOK
  <2>4. AttemptLeft'
    BY <2>1 DEF AttemptLeft
  <2>. QED
    BY <2>3, <2>4
<1>4. CASE ledger[c.run].status # "running"
  <2>1. calls' \subseteq calls /\ Answer(c, FALSE)
    BY <1>4 DEF Check
  <2>2. RequestTypes' /\ AttemptLeft'
    BY <1>1, <2>1, AnswerTypes
  <2>3. TableTypes'
    BY <1>1, <2>1 DEF TypeOK, TableTypes
  <2>. QED
    BY <2>2, <2>3 DEF TypeOK, RequestTypes, TableTypes
<1>. QED
  BY <1>3, <1>4

LEMMA CommitTypes ==
  ASSUME TypeOK, AttemptLeft, NEW c \in calls, Commit(c)
  PROVE  TypeOK' /\ AttemptLeft'
<1>1. UNCHANGED <<enriched, retired, fresh, hand, batch, trend, run, byHand>>
  BY Zenon DEF Commit
<1>2. calls' \subseteq calls
  BY DEF Commit
<1>3. faults' \in 0..MaxFaults
  BY FaultCounts DEF Commit, TypeOK
<1>4. ledger' \in Seq(Header) /\ Len(ledger') = Len(ledger)
  BY CompleteTypes DEF Commit, TypeOK
<1>5. \E applied \in BOOLEAN : Answer(c, applied)
  BY DEF Commit
<1>6. RequestTypes' /\ AttemptLeft'
  BY <1>1, <1>4, <1>5, AnswerTypes
<1>7. TableTypes'
  BY <1>1, <1>2, <1>3, <1>4 DEF TypeOK, TableTypes
<1>. QED
  BY <1>6, <1>7 DEF TypeOK, RequestTypes, TableTypes

\* The steps of the rest of the system.
Surroundings ==
  \/ \E i \in DOMAIN ledger : Age(i)
  \/ Enrich \/ Retire \/ CatalogSynced \/ CatalogStale

LEMMA SurroundingsTypes ==
  ASSUME TypeOK, AttemptLeft, Surroundings
  PROVE  TypeOK' /\ AttemptLeft' /\ UNCHANGED <<request, calls>>
<1>1. UNCHANGED <<calls, request, byHand>>
  BY Zenon DEF Surroundings, Age, Enrich, Retire, CatalogSynced, CatalogStale
<1>2. faults' \in 0..MaxFaults
  BY FaultCounts DEF Surroundings, Age, Enrich, Retire, CatalogSynced, CatalogStale, TypeOK
<1>3. /\ enriched' \in SUBSET Trends /\ retired' \in SUBSET Trends /\ fresh' \in BOOLEAN
  BY DEF Surroundings, Age, Enrich, Retire, CatalogSynced, CatalogStale, TypeOK
<1>4. ledger' \in Seq(Header) /\ Len(ledger') = Len(ledger)
  <2>1. ASSUME NEW i \in DOMAIN ledger, Age(i)
        PROVE  ledger' \in Seq(Header) /\ Len(ledger') = Len(ledger)
    <3>1. [ledger[i] EXCEPT !.old = TRUE] \in Header
      <4>1. ledger[i] \in Header
        BY DEF TypeOK
      <4>. QED
        BY <4>1 DEF Header
    <3>2. ledger' = [ledger EXCEPT ![i] = [ledger[i] EXCEPT !.old = TRUE]]
      BY <2>1 DEF Age
    <3>. QED
      BY <3>1, <3>2 DEF TypeOK
  <2>2. CASE UNCHANGED ledger
    BY <2>2 DEF TypeOK
  <2>. QED
    BY <2>1, <2>2 DEF Surroundings, Enrich, Retire, CatalogSynced, CatalogStale
<1>5. TypeOK'
  BY <1>1, <1>2, <1>3, <1>4 DEF TypeOK, request
<1>6. AttemptLeft'
  BY <1>1 DEF AttemptLeft, request
<1>. QED
  BY <1>1, <1>5, <1>6

LEMMA InitTypes == Init => TypeOK /\ AttemptLeft
<1>. SUFFICES ASSUME Init PROVE TypeOK /\ AttemptLeft
  OBVIOUS
<1>1. RequestTypes
  BY Limits, PendingPlan DEF Init, RequestTypes, Steps
<1>2. TableTypes
  BY Limits DEF Init, TableTypes
<1>3. AttemptLeft
  BY Limits DEF Init, AttemptLeft
<1>. QED
  BY <1>1, <1>2, <1>3, TypesAre

\* The steps of the system, one alternative for each.
LEMMA StepIs ==
  ASSUME Next
  PROVE  \/ \E q \in Requests :
              Turning(q) \/ callProcOpen(q) \/ callSelector(q) \/ Send(q) \/ Break(q)
                \/ insertCostRow(q) \/ Die(q)
         \/ \E c \in calls : Check(c) \/ Commit(c)
         \/ Surroundings
  BY Zenon DEF Next, Work, Serve, Turning, Surroundings

LEMMA NextTypes ==
  ASSUME TypeOK, AttemptLeft, [Next]_vars
  PROVE  TypeOK' /\ AttemptLeft'
<1>1. CASE UNCHANGED vars
  <2>1. TypeOK'
    BY <1>1 DEF vars, tables, request, TypeOK
  <2>2. AttemptLeft'
    BY <1>1 DEF vars, tables, request, AttemptLeft
  <2>. QED
    BY <2>1, <2>2
<1>2. CASE Next
  BY <1>2, StepIs, TurningTypes, OpenTypes, SelectTypes, SendTypes, BreakTypes, CostTypes,
     DieTypes, CheckTypes, CommitTypes, SurroundingsTypes
<1>. QED
  BY <1>1, <1>2

\* The state keeps its types through faults, deaths and lost responses: a request that
\* works on a trend has one, one that completes a run has its header, a call names a
\* header of the ledger, and no completion is tried more often than MAX_ATTEMPTS.
THEOREM TypeCorrect == Spec => []TypeOK
<1>1. TypeOK /\ AttemptLeft /\ [Next]_vars => TypeOK' /\ AttemptLeft'
  BY NextTypes
<1>. QED
  BY InitTypes, <1>1, PTL DEF Spec

----------------------------------------------------------------------------
(* The verdict of a header, and the receipt of a run. *)

\* What becomes of the plans: a step keeps the plans of the requests and of the
\* calls, or makes one that is consistent; the catch block's is the pending one.
LEMMA PlansKept ==
  ASSUME TypeOK, AttemptLeft, PlansConsistent, [Next]_vars
  PROVE  PlansConsistent'
<1>0. plan \in [Requests -> Plan] /\ caught \in [Requests -> BOOLEAN]
  BY DEF TypeOK
<1>1. ASSUME NEW q \in Requests, calls' \subseteq calls,
             \/ UNCHANGED <<plan, caught>>
             \/ plan' = [plan EXCEPT ![q] = Pending] /\ caught' \in [Requests -> BOOLEAN]
                  /\ \A s \in Requests : s # q => caught'[s] = caught[s]
      PROVE  PlansConsistent'
  BY <1>0, <1>1, PendingPlan DEF PlansConsistent
<1>2. ASSUME NEW q \in Requests, Turning(q) \/ callProcOpen(q) \/ Break(q) \/ insertCostRow(q) \/ Die(q)
      PROVE  PlansConsistent'
  <2>1. calls' \subseteq calls
    BY <1>2 DEF Turning, Poll, Source, NextTrend, fetchContext, callProcOpen, Break, insertCostRow, Die
  <2>2. \/ UNCHANGED <<plan, caught>>
        \/ /\ plan' = [plan EXCEPT ![q] = Pending]
           /\ \E b \in BOOLEAN : caught' = [caught EXCEPT ![q] = b]
    BY <1>2 DEF Turning, Poll, Source, NextTrend, fetchContext, callProcOpen, Break, insertCostRow,
       Die, Receipt
  <2>. QED
    BY <1>0, <1>1, <2>1, <2>2
<1>3. ASSUME NEW q \in Requests, callSelector(q)
      PROVE  PlansConsistent'
  <2>1. UNCHANGED calls
    BY <1>3 DEF callSelector
  <2>2. CASE plan' = [plan EXCEPT ![q] = Pending] /\ caught' = [caught EXCEPT ![q] = TRUE]
    BY <1>0, <1>1, <2>1, <2>2
  <2>3. ASSUME NEW p \in Plans, plan' = [plan EXCEPT ![q] = p], UNCHANGED caught
        PROVE  PlansConsistent'
    <3>1. ~caught[q]
      BY <1>3, NoAttempt DEF callSelector
    <3>. QED
      BY <1>0, <2>1, <2>3, <3>1, PlansOf DEF PlansConsistent
  <2>. QED
    BY <1>3, <2>2, <2>3 DEF callSelector
<1>4. ASSUME NEW q \in Requests, Send(q)
      PROVE  PlansConsistent'
  <2>1. at[q] = "send" /\ tries[q] + 1 \in Nat
    BY <1>4, Limits DEF Send, TypeOK
  <2>2. /\ [CallOf(q) EXCEPT !.try = tries[q] + 1].plan = plan[q]
        /\ [CallOf(q) EXCEPT !.try = tries[q] + 1].late = caught[q]
    BY <2>1, CallTypes
  <2>3. /\ calls' = calls \cup {[CallOf(q) EXCEPT !.try = tries[q] + 1]}
        /\ UNCHANGED <<plan, caught>>
    BY <1>4 DEF Send
  <2>. QED
    BY <2>2, <2>3 DEF PlansConsistent
<1>5. ASSUME NEW c \in calls, NEW applied \in BOOLEAN, Answer(c, applied), calls' \subseteq calls
      PROVE  PlansConsistent'
  <2>1. c.from \in Requests
    BY DEF TypeOK, Call
  <2>2. \/ UNCHANGED <<plan, caught>>
        \/ plan' = [plan EXCEPT ![c.from] = Pending] /\ caught' = [caught EXCEPT ![c.from] = TRUE]
    BY <1>5, AnswerIs DEF Retake, Answered
  <2>. QED
    BY <1>0, <1>1, <1>5, <2>1, <2>2
<1>6. ASSUME NEW c \in calls, Check(c)
      PROVE  PlansConsistent'
  <2>1. CASE ledger[c.run].status = "running"
    <3>1. /\ [c EXCEPT !.phase = "checked"].plan = c.plan
          /\ [c EXCEPT !.phase = "checked"].late = c.late
      BY DEF TypeOK, Call
    <3>2. /\ calls' = (calls \ {c}) \cup {[c EXCEPT !.phase = "checked"]}
          /\ UNCHANGED <<plan, caught>>
      BY <1>6, <2>1 DEF Check
    <3>. QED
      BY <3>1, <3>2 DEF PlansConsistent
  <2>2. CASE ledger[c.run].status # "running"
    BY <1>5, <1>6, <2>2 DEF Check
  <2>. QED
    BY <2>1, <2>2
<1>7. ASSUME NEW c \in calls, Commit(c)
      PROVE  PlansConsistent'
  BY <1>5, <1>7 DEF Commit
<1>8. CASE Surroundings
  <2>1. UNCHANGED <<plan, caught, calls>>
    BY <1>8, Zenon DEF Surroundings, Age, Enrich, Retire, CatalogSynced, CatalogStale, request
  <2>. QED
    BY <2>1 DEF PlansConsistent
<1>9. CASE UNCHANGED vars
  BY <1>9 DEF vars, request, PlansConsistent
<1>. QED
  BY <1>2, <1>3, <1>4, <1>6, <1>7, <1>8, <1>9, StepIs

\* The header says matched exactly when it has candidate rows, each once, and picks.
Verdict(h) ==
  /\ h.rows = h.shown
  /\ h.status = "matched" <=> h.rows > 0
  /\ h.status = "matched" <=> h.picked > 0

\* A consistent plan gives a running header its verdict.
LEMMA VerdictGiven ==
  ASSUME NEW h \in Header, h.status = "running", Verdict(h),
         NEW p \in Plan, Consistent(p)
  PROVE  Completed(h, p).status = p.outcome /\ Verdict(Completed(h, p))
<1>1. h.rows \in Nat /\ h.shown \in Nat /\ p.shown \in Nat
  BY Limits DEF Header, Plan
<1>2. h.rows = 0
  BY <1>1 DEF Verdict
<1>3. /\ Completed(h, p).status = p.outcome /\ Completed(h, p).shown = p.shown
      /\ Completed(h, p).picked = p.picked /\ Completed(h, p).rows = h.rows + p.shown
  BY DEF Completed, Header
<1>. QED
  BY <1>1, <1>2, <1>3 DEF Verdict, Consistent

\* What becomes of the ledger: a header is opened, marked old, or completed while it
\* runs; nothing else writes it.
LEMMA LedgerIs ==
  ASSUME TypeOK, [Next]_vars
  PROVE  \/ UNCHANGED ledger
         \/ \E t \in Trends : ledger' = Opened(t)
         \/ \E i \in DOMAIN ledger : ledger' = [ledger EXCEPT ![i].old = TRUE]
         \/ \E c \in calls : /\ ledger[c.run].status = "running"
                             /\ ledger' = [ledger EXCEPT ![c.run] = Completed(@, c.plan)]
<1>1. ASSUME NEW q \in Requests, callProcOpen(q)
      PROVE  ledger' = ledger \/ (trend[q] \in Trends /\ ledger' = Opened(trend[q]))
  BY <1>1 DEF callProcOpen, TypeOK
<1>2. ASSUME NEW q \in Requests, Turning(q) \/ callSelector(q) \/ Send(q) \/ Break(q)
               \/ insertCostRow(q) \/ Die(q)
      PROVE  ledger' = ledger
  BY <1>2, Zenon DEF Turning, Poll, Source, NextTrend, fetchContext, callSelector, Send, Break,
     insertCostRow, Die, tables
<1>3. ASSUME NEW c \in calls, Check(c)
      PROVE  ledger' = ledger
  BY <1>3, Zenon DEF Check, tables
<1>4. ASSUME NEW c \in calls, Commit(c)
      PROVE  \/ ledger' = ledger
             \/ /\ ledger[c.run].status = "running"
                /\ ledger' = [ledger EXCEPT ![c.run] = Completed(@, c.plan)]
  BY <1>4 DEF Commit
<1>5. CASE Surroundings
  BY <1>5 DEF Surroundings, Age, Enrich, Retire, CatalogSynced, CatalogStale
<1>6. CASE UNCHANGED vars
  BY <1>6 DEF vars, tables
<1>. QED
  BY <1>1, <1>2, <1>3, <1>4, <1>5, <1>6, StepIs

LEMMA VerdictKept ==
  ASSUME TypeOK, PlansConsistent, VerdictWithCandidates, [Next]_vars
  PROVE  VerdictWithCandidates'
<1>0. \A i \in DOMAIN ledger : ledger[i] \in Header /\ Verdict(ledger[i])
  BY DEF TypeOK, VerdictWithCandidates, Verdict
<1>. SUFFICES \A i \in DOMAIN ledger' : Verdict(ledger'[i])
  BY DEF VerdictWithCandidates, Verdict
<1>1. ASSUME NEW t \in Trends, ledger' = Opened(t)
      PROVE  \A i \in DOMAIN ledger' : Verdict(ledger'[i])
  <2>. DEFINE h == [trend |-> t, status |-> "running", old |-> FALSE,
                    shown |-> 0, picked |-> 0, rows |-> 0]
  <2>1. Verdict(h)
    BY DEF Verdict
  <2>2. h \in Header
    BY Limits DEF Header
  <2>3. ledger' = Append(ledger, h)
    BY <1>1 DEF Opened
  <2>. HIDE DEF h
  <2>4. \A i \in DOMAIN ledger' : ledger'[i] = h \/ (i \in DOMAIN ledger /\ ledger'[i] = ledger[i])
    <3>1. ledger \in Seq(Header) /\ Len(ledger) \in Nat /\ DOMAIN ledger = 1..Len(ledger)
      BY DEF TypeOK
    <3>2. DOMAIN ledger' = 1..(Len(ledger) + 1) /\ ledger'[Len(ledger) + 1] = h
      BY <2>2, <2>3, <3>1
    <3>3. \A i \in 1..Len(ledger) : ledger'[i] = ledger[i]
      BY <2>2, <2>3, <3>1
    <3>4. \A i \in 1..(Len(ledger) + 1) : i \in 1..Len(ledger) \/ i = Len(ledger) + 1
      BY <3>1
    <3>. QED
      BY <3>1, <3>2, <3>3, <3>4
  <2>. QED
    BY <1>0, <2>1, <2>4
<1>2. ASSUME NEW i \in DOMAIN ledger, ledger' = [ledger EXCEPT ![i].old = TRUE]
      PROVE  \A j \in DOMAIN ledger' : Verdict(ledger'[j])
  <2>1. \A j \in DOMAIN ledger' :
          /\ j \in DOMAIN ledger /\ ledger'[j].rows = ledger[j].rows
          /\ ledger'[j].shown = ledger[j].shown /\ ledger'[j].picked = ledger[j].picked
          /\ ledger'[j].status = ledger[j].status
    <3>1. ledger' = [ledger EXCEPT ![i] = [ledger[i] EXCEPT !.old = TRUE]]
      BY <1>2
    <3>2. /\ [ledger[i] EXCEPT !.old = TRUE].rows = ledger[i].rows
          /\ [ledger[i] EXCEPT !.old = TRUE].shown = ledger[i].shown
          /\ [ledger[i] EXCEPT !.old = TRUE].picked = ledger[i].picked
          /\ [ledger[i] EXCEPT !.old = TRUE].status = ledger[i].status
      BY <1>0 DEF Header
    <3>. QED
      BY <3>1, <3>2 DEF TypeOK
  <2>. QED
    BY <1>0, <2>1 DEF Verdict
<1>3. ASSUME NEW c \in calls, ledger[c.run].status = "running",
             ledger' = [ledger EXCEPT ![c.run] = Completed(@, c.plan)]
      PROVE  \A i \in DOMAIN ledger' : Verdict(ledger'[i])
  <2>1. c.plan \in Plan /\ Consistent(c.plan)
    BY DEF TypeOK, Call, PlansConsistent
  <2>2. Verdict(Completed(ledger[c.run], c.plan))
    BY <1>0, <1>3, <2>1, CompleteTypes, VerdictGiven
  <2>3. DOMAIN ledger' = DOMAIN ledger
    BY <1>3, CompleteTypes DEF TypeOK
  <2>. QED
    BY <1>0, <1>3, <2>2, <2>3, CompleteTypes
<1>4. CASE UNCHANGED ledger
  BY <1>0, <1>4
<1>. QED
  BY <1>1, <1>2, <1>3, <1>4, LedgerIs

\* A verdict is never taken back, nor a header removed.
LEMMA StatusStays ==
  ASSUME TypeOK, [Next]_vars
  PROVE  \A i \in DOMAIN ledger :
           i \in DOMAIN ledger' /\ (ledger[i].status \in Final => ledger'[i].status = ledger[i].status)
<1>0. ledger \in Seq(Header)
  BY DEF TypeOK
<1>1. ASSUME NEW t \in Trends, ledger' = Opened(t)
      PROVE  \A i \in DOMAIN ledger : i \in DOMAIN ledger' /\ ledger'[i] = ledger[i]
  <2>. DEFINE h == [trend |-> t, status |-> "running", old |-> FALSE,
                    shown |-> 0, picked |-> 0, rows |-> 0]
  <2>1. h \in Header /\ ledger' = Append(ledger, h)
    BY <1>1, Limits DEF Opened, Header
  <2>. HIDE DEF h
  <2>. QED
    BY <1>0, <2>1
<1>2. ASSUME NEW i \in DOMAIN ledger, ledger' = [ledger EXCEPT ![i].old = TRUE]
      PROVE  \A j \in DOMAIN ledger : j \in DOMAIN ledger' /\ ledger'[j].status = ledger[j].status
  <2>1. ledger' = [ledger EXCEPT ![i] = [ledger[i] EXCEPT !.old = TRUE]]
    BY <1>2
  <2>2. [ledger[i] EXCEPT !.old = TRUE].status = ledger[i].status
    BY <1>0 DEF Header
  <2>. QED
    BY <1>0, <2>1, <2>2
<1>3. ASSUME NEW c \in calls, ledger[c.run].status = "running",
             ledger' = [ledger EXCEPT ![c.run] = Completed(@, c.plan)]
      PROVE  \A i \in DOMAIN ledger :
               i \in DOMAIN ledger' /\ (ledger[i].status \in Final => ledger'[i] = ledger[i])
  <2>1. DOMAIN ledger' = DOMAIN ledger
    BY <1>3, CompleteTypes DEF TypeOK
  <2>. QED
    BY <1>3, <2>1, CompleteTypes DEF Final
<1>. QED
  BY <1>1, <1>2, <1>3, LedgerIs

\* What a request is told is kept.
SameAnswer(s) ==
  Told(s) /\ result'[s] = result[s] /\ run'[s] = run[s] /\ recorded'[s] = recorded[s]

\* What a step tells a request that was not told before: that its run failed, without a
\* word about the header, or what the completion that was applied has made of it.
LEMMA TellsApplied ==
  ASSUME TypeOK, PlansConsistent, RecordedIsTold, [Next]_vars, NEW s \in Requests, Told(s)'
  PROVE  \/ SameAnswer(s)
         \/ result'[s] = "failed" /\ ~recorded'[s]
         \/ /\ recorded'[s] /\ run'[s] \in DOMAIN ledger'
            /\ ledger'[run'[s]].status = result'[s]
<1>. DEFINE Goal == \/ SameAnswer(s)
                    \/ result'[s] = "failed" /\ ~recorded'[s]
                    \/ /\ recorded'[s] /\ run'[s] \in DOMAIN ledger'
                       /\ ledger'[run'[s]].status = result'[s]
<1>. SUFFICES Goal
  OBVIOUS
<1>0. /\ at \in [Requests -> Steps] /\ run \in [Requests -> 0..Len(ledger)]
      /\ result \in [Requests -> Results] /\ recorded \in [Requests -> BOOLEAN]
  BY DEF TypeOK, Results
<1>1. ASSUME UNCHANGED <<at, run, result, recorded>>
      PROVE  Goal
  BY <1>1 DEF Told, SameAnswer
<1>2. ASSUME NEW q \in Requests, Poll(q) \/ Source(q) \/ NextTrend(q) \/ Die(q)
      PROVE  Goal
  <2>1. Fresh(q)
    BY <1>2 DEF Poll, Source, NextTrend, Die
  <2>2. s # q
    BY <1>0, <2>1 DEF Fresh, Told, Final
  <2>3. at'[s] = at[s]
    BY <1>0, <1>2, <2>2 DEF Poll, Source, NextTrend, Die
  <2>. QED
    BY <1>0, <2>1, <2>2, <2>3 DEF Fresh, Told, SameAnswer
<1>3. ASSUME NEW q \in Requests, fetchContext(q)
      PROVE  Goal
  <2>1. at[q] = "context" /\ ~recorded[q] /\ UNCHANGED <<run, recorded>>
    BY <1>3 DEF fetchContext, Receipt, RecordedIsTold, Told
  <2>2. /\ \A u \in Requests : u # q => at'[u] = at[u] /\ result'[u] = result[u]
        /\ at'[q] \in {"open", "openLost"} \/ result'[q] \in {"not_sourced", "none", "failed"}
    BY <1>0, <1>3 DEF fetchContext, Receipt
  <2>. QED
    BY <1>0, <2>1, <2>2 DEF Told, Final, SameAnswer
<1>4. ASSUME NEW q \in Requests, callProcOpen(q)
      PROVE  Goal
  <2>1. at[q] \in {"open", "openLost"} /\ ~recorded[q] /\ UNCHANGED recorded
    BY <1>4 DEF callProcOpen, RecordedIsTold, Told
  <2>2. /\ \A u \in Requests :
             u # q => at'[u] = at[u] /\ result'[u] = result[u] /\ run'[u] = run[u]
        /\ at'[q] \in {"select", "send"} \/ result'[q] = "failed"
    BY <1>0, <1>4 DEF callProcOpen
  <2>. QED
    BY <1>0, <2>1, <2>2 DEF Told, Final, SameAnswer
<1>5. ASSUME NEW q \in Requests, callSelector(q) \/ Send(q)
      PROVE  Goal
  BY <1>0, <1>5 DEF callSelector, Send, Told, SameAnswer
<1>6. ASSUME NEW q \in Requests, Break(q)
      PROVE  Goal
  <2>1. at[q] = "wait" /\ ~recorded[q] /\ UNCHANGED <<run, recorded>>
    BY <1>6 DEF Break, RecordedIsTold, Told
  <2>2. /\ \A u \in Requests : u # q => at'[u] = at[u] /\ result'[u] = result[u]
        /\ at'[q] = "send" \/ result'[q] = "failed"
    BY <1>0, <1>6 DEF Break
  <2>. QED
    BY <1>0, <2>1, <2>2 DEF Told, Final, SameAnswer
<1>7. ASSUME NEW q \in Requests, insertCostRow(q)
      PROVE  Goal
  BY <1>0, <1>7 DEF insertCostRow, Receipt, Told, SameAnswer
<1>8. ASSUME NEW c \in calls, Answer(c, FALSE), UNCHANGED run
      PROVE  Goal
  <2>1. c.from \in Requests /\ (c.late => c.plan.outcome = "failed")
    BY DEF TypeOK, Call, PlansConsistent
  <2>2. CASE UNCHANGED <<at, plan, caught, tries, result, recorded>>
    BY <1>1, <1>8, <2>2
  <2>3. CASE Retake(c.from)
    BY <1>0, <1>8, <2>1, <2>3 DEF Retake, Told, SameAnswer
  <2>4. CASE c.late /\ Answered(c.from, c.plan.outcome, FALSE)
    BY <1>0, <1>8, <2>1, <2>4 DEF Answered, Told, SameAnswer
  <2>. QED
    BY <1>8, <2>2, <2>3, <2>4, AnswerIs
<1>9. ASSUME NEW c \in calls, Check(c)
      PROVE  Goal
  BY <1>1, <1>8, <1>9 DEF Check
<1>10. ASSUME NEW c \in calls, Commit(c)
       PROVE  Goal
  <2>0. UNCHANGED run /\ c.from \in Requests
    BY <1>10 DEF Commit, TypeOK, Call
  <2>1. CASE Answer(c, FALSE)
    BY <1>8, <2>0, <2>1
  <2>2. CASE /\ ledger[c.run].status = "running"
             /\ ledger' = [ledger EXCEPT ![c.run] = Completed(@, c.plan)]
             /\ Answer(c, TRUE)
    <3>1. /\ c.run \in DOMAIN ledger /\ ledger[c.run] \in Header
          /\ ledger'[c.run] = Completed(ledger[c.run], c.plan)
          /\ ledger' \in Seq(Header) /\ Len(ledger') = Len(ledger)
      <4>1. /\ c.run \in DOMAIN ledger
            /\ ledger'[c.run] = Completed(ledger[c.run], c.plan)
            /\ ledger' \in Seq(Header) /\ Len(ledger') = Len(ledger)
        BY <2>2, CompleteTypes
      <4>. QED
        BY <4>1 DEF TypeOK
    <3>2. ledger'[c.run].status = c.plan.outcome /\ c.run \in DOMAIN ledger'
      BY <3>1 DEF Completed, Header, TypeOK
    <3>3. CASE UNCHANGED <<at, plan, caught, tries, result, recorded>>
      BY <1>1, <2>0, <3>3
    <3>4. CASE run[c.from] = c.run /\ Retake(c.from)
      BY <1>0, <2>0, <3>4 DEF Retake, Told, SameAnswer
    <3>5. CASE run[c.from] = c.run /\ Answered(c.from, c.plan.outcome, TRUE)
      <4>1. CASE s = c.from
        BY <1>0, <2>0, <3>2, <3>5, <4>1 DEF Answered
      <4>2. CASE s # c.from
        BY <1>0, <2>0, <3>5, <4>2 DEF Answered, Told, SameAnswer
      <4>. QED
        BY <4>1, <4>2
    <3>. QED
      BY <2>2, <3>3, <3>4, <3>5, AnswerIs
  <2>. QED
    BY <1>10, <2>1, <2>2 DEF Commit
<1>11. CASE Surroundings
  <2>1. UNCHANGED request
    BY <1>11, Zenon DEF Surroundings, Age, Enrich, Retire, CatalogSynced, CatalogStale
  <2>. QED
    BY <1>1, <2>1 DEF request
<1>12. CASE UNCHANGED vars
  BY <1>1, <1>12 DEF vars, request
<1>. QED
  BY <1>2, <1>3, <1>4, <1>5, <1>6, <1>7, <1>9, <1>10, <1>11, <1>12, StepIs DEF Turning

\* header_recorded is set by the answer of the warehouse alone, and goes with the request.
LEMMA RecordedKept ==
  ASSUME TypeOK, RecordedIsTold, [Next]_vars
  PROVE  RecordedIsTold'
<1>. SUFFICES ASSUME NEW s \in Requests, recorded'[s]
              PROVE  Told(s)'
  BY DEF RecordedIsTold
<1>0. /\ at \in [Requests -> Steps] /\ result \in [Requests -> Results]
      /\ recorded \in [Requests -> BOOLEAN]
  BY DEF TypeOK, Results
<1>1. ASSUME UNCHANGED <<at, result, recorded>>
      PROVE  Told(s)'
  BY <1>1 DEF RecordedIsTold, Told
<1>2. ASSUME NEW q \in Requests, Poll(q) \/ Source(q) \/ NextTrend(q) \/ Die(q)
      PROVE  Told(s)'
  <2>1. Fresh(q)
    BY <1>2 DEF Poll, Source, NextTrend, Die
  <2>2. s # q /\ recorded[s]
    BY <1>0, <2>1 DEF Fresh
  <2>3. at'[s] = at[s]
    BY <1>0, <1>2, <2>2 DEF Poll, Source, NextTrend, Die
  <2>. QED
    BY <1>0, <2>1, <2>2, <2>3 DEF Fresh, Told, RecordedIsTold
<1>3. ASSUME NEW q \in Requests,
             fetchContext(q) \/ callProcOpen(q) \/ callSelector(q) \/ Send(q) \/ Break(q)
      PROVE  Told(s)'
  <2>1. ~Told(q) /\ UNCHANGED recorded
    BY <1>3 DEF fetchContext, Receipt, callProcOpen, callSelector, Send, Break, Told
  <2>2. s # q /\ Told(s)
    BY <2>1 DEF RecordedIsTold
  <2>3. at'[s] = at[s] /\ result'[s] = result[s]
    BY <1>0, <1>3, <2>2 DEF fetchContext, Receipt, callProcOpen, callSelector, Send, Break
  <2>. QED
    BY <2>2, <2>3 DEF Told
<1>4. ASSUME NEW q \in Requests, insertCostRow(q)
      PROVE  Told(s)'
  BY <1>0, <1>4 DEF insertCostRow, Receipt, Told, RecordedIsTold
<1>5. ASSUME NEW c \in calls, NEW applied \in BOOLEAN, Answer(c, applied)
      PROVE  Told(s)'
  <2>1. c.from \in Requests /\ c.plan.outcome \in Final
    BY DEF TypeOK, Call, Plan
  <2>2. CASE UNCHANGED <<at, plan, caught, tries, result, recorded>>
    BY <1>1, <2>2
  <2>3. CASE at[c.from] = "wait" /\ Retake(c.from)
    BY <1>0, <2>1, <2>3 DEF Retake, Told, RecordedIsTold
  <2>4. CASE Answered(c.from, c.plan.outcome, applied)
    BY <1>0, <2>1, <2>4 DEF Answered, Told, RecordedIsTold
  <2>. QED
    BY <1>5, <2>2, <2>3, <2>4, AnswerIs
<1>6. ASSUME NEW c \in calls, Check(c) \/ Commit(c)
      PROVE  Told(s)'
  BY <1>1, <1>5, <1>6 DEF Check, Commit
<1>7. CASE Surroundings
  <2>1. UNCHANGED request
    BY <1>7, Zenon DEF Surroundings, Age, Enrich, Retire, CatalogSynced, CatalogStale
  <2>. QED
    BY <1>1, <2>1 DEF request
<1>8. CASE UNCHANGED vars
  BY <1>1, <1>8 DEF vars, request
<1>. QED
  BY <1>2, <1>3, <1>4, <1>6, <1>7, <1>8, StepIs DEF Turning

LEMMA ReceiptKept ==
  ASSUME TypeOK, AttemptLeft, PlansConsistent, RecordedIsTold, ReceiptIsRecorded, [Next]_vars
  PROVE  ReceiptIsRecorded'
<1>. SUFFICES ASSUME NEW s \in Requests, Told(s)'
              PROVE  /\ result'[s] \in {"matched", "no_match"} => recorded'[s]
                     /\ recorded'[s] => run'[s] > 0 /\ ledger'[run'[s]].status = result'[s]
  BY DEF ReceiptIsRecorded
<1>1. CASE SameAnswer(s)
  <2>1. /\ result[s] \in {"matched", "no_match"} => recorded[s]
        /\ recorded[s] => run[s] > 0 /\ ledger[run[s]].status = result[s]
        /\ result[s] \in Final
    BY <1>1 DEF ReceiptIsRecorded, Told, SameAnswer
  <2>2. recorded[s] => run[s] \in DOMAIN ledger
    BY <2>1 DEF TypeOK
  <2>. QED
    BY <1>1, <2>1, <2>2, StatusStays DEF SameAnswer
<1>2. CASE result'[s] = "failed" /\ ~recorded'[s]
  BY <1>2
<1>3. CASE recorded'[s] /\ run'[s] \in DOMAIN ledger' /\ ledger'[run'[s]].status = result'[s]
  <2>1. ledger' \in Seq(Header)
    BY NextTypes DEF TypeOK
  <2>. QED
    BY <1>3, <2>1
<1>. QED
  BY <1>1, <1>2, <1>3, TellsApplied

LEMMA InitSourcing == Init => SourcingInv
<1>. SUFFICES ASSUME Init PROVE SourcingInv
  OBVIOUS
<1>1. PlansConsistent
  BY PendingPlan DEF Init, PlansConsistent
<1>4. RecordedIsTold
  BY DEF Init, RecordedIsTold
<1>2. VerdictWithCandidates
  BY DEF Init, VerdictWithCandidates
<1>3. ReceiptIsRecorded
  BY DEF Init, ReceiptIsRecorded, Told, Final
<1>. QED
  BY <1>1, <1>2, <1>3, <1>4, InitTypes DEF SourcingInv

LEMMA NextSourcing == SourcingInv /\ [Next]_vars => SourcingInv'
  BY NextTypes, PlansKept, VerdictKept, RecordedKept, ReceiptKept DEF SourcingInv

\* The verdict of a header and its candidate rows agree, whatever attempts of the
\* completion the warehouse executes (buildSourcingRunPlan, PROC_SOURCING_APPLY).
THEOREM VerdictCorrect == Spec => []VerdictWithCandidates
<1>1. SourcingInv => VerdictWithCandidates
  BY DEF SourcingInv
<1>. QED
  BY InitSourcing, NextSourcing, <1>1, PTL DEF Spec

\* A receipt that says matched or no_match, or whose header_recorded is set, names the
\* status of its header, however often the completion was sent (runSourcing,
\* callProcComplete).
THEOREM ReceiptCorrect == Spec => []ReceiptIsRecorded
<1>1. SourcingInv => ReceiptIsRecorded
  BY DEF SourcingInv
<1>. QED
  BY InitSourcing, NextSourcing, <1>1, PTL DEF Spec
=============================================================================

----------------------- MODULE LifecycleTick_proofs -----------------------
(***************************************************************************)
(* Proofs about LifecycleTick for any trends, batches and executions.      *)
(***************************************************************************)
EXTENDS LifecycleTick, FiniteSetTheorems, TLAPS

----------------------------------------------------------------------------
(* Type correctness. *)

\* The initial state is well typed.
LEMMA InitTypes == Init => TypeOK
<1> SUFFICES ASSUME Init PROVE TypeOK
  OBVIOUS
<1>1. <<Seed>> \in Seq(LedgerRow) /\ <<Seed, OldProposal>> \in Seq(LedgerRow)
  <2>1. Seed \in LedgerRow /\ OldProposal \in LedgerRow
    BY DEF Seed, OldProposal, LedgerRow
  <2> QED
    BY <2>1
<1>2. \A t \in Trends : ledger[t] \in Seq(LedgerRow) /\ Len(ledger[t]) > 0
  <2>1. ledger \in [Trends -> {<<Seed>>, <<Seed, OldProposal>>}]
    BY DEF Init
  <2>2. \A t \in Trends : ledger[t] = <<Seed>> \/ ledger[t] = <<Seed, OldProposal>>
    BY <2>1
  <2>3. Len(<<Seed>>) = 1 /\ Len(<<Seed, OldProposal>>) = 2
    OBVIOUS
  <2>4. ASSUME NEW t \in Trends PROVE ledger[t] \in Seq(LedgerRow) /\ Len(ledger[t]) > 0
    <3>1. CASE ledger[t] = <<Seed>>
      BY <3>1, <2>3, <1>1
    <3>2. CASE ledger[t] = <<Seed, OldProposal>>
      BY <3>2, <2>3, <1>1
    <3> QED
      BY <3>1, <3>2, <2>2
  <2> QED
    BY <2>4
<1>3. ledger \in [Trends -> Seq(LedgerRow)]
  <2>1. ledger = [t \in Trends |-> ledger[t]]
    BY DEF Init
  <2> QED
    BY <2>1, <1>2
<1>4. TableTypes
  BY <1>2, <1>3 DEF Init, TableTypes, GeminiState, RowState
<1>5. ExecutionTypes
  BY NoBatchAssumption DEF Init, ExecutionTypes, Step, Decision
<1> QED
  BY <1>4, <1>5 DEF TypeOK

\* A step that leaves Gemini and the tables alone keeps their types.
LEMMA SameTables ==
  ASSUME TableTypes, UNCHANGED <<gemini, tables>> PROVE TableTypes'
BY DEF TableTypes, tables

\* A step that leaves the executions alone keeps their types.
LEMMA SameExecutions ==
  ASSUME ExecutionTypes, UNCHANGED <<pc, locals>> PROVE ExecutionTypes'
BY DEF ExecutionTypes, locals

\* An execution that ends leaves the executions well typed.
LEMMA ExitTypes ==
  ASSUME NEW e \in Executions, ExecutionTypes, Exit(e) PROVE ExecutionTypes'
<1>1. [t \in Trends |-> "none"] \in [Trends -> Decision]
  BY DEF Decision
<1>2. decided' \in [Executions -> [Trends -> Decision]]
  BY <1>1 DEF Exit, ExecutionTypes
<1> QED
  BY <1>2, NoBatchAssumption DEF Exit, ExecutionTypes, GoTo, Step

\* Reading the in-flight row keeps the types.
LEMMA StartTypes ==
  ASSUME NEW e \in Executions, TypeOK, Start(e) PROVE TypeOK'
<1>1. CASE Submitted = {} /\ GoTo(e, "due") /\ UNCHANGED held
  BY <1>1, SameTables, NoBatchAssumption
  DEF Start, TypeOK, ExecutionTypes, GoTo, Step
<1>2. ASSUME NEW b \in Batches, NEW step \in {"poll", "pollLate"},
             GoTo(e, step), held' = [held EXCEPT ![e] = b]
      PROVE  TypeOK'
  BY <1>2, SameTables, NoBatchAssumption
  DEF Start, TypeOK, ExecutionTypes, GoTo, Step
<1> QED
  BY <1>1, <1>2 DEF Start

\* Every statement of an execution keeps the types.
LEMMA TickTypes ==
  ASSUME NEW e \in Executions, TypeOK, Tick(e) PROVE TypeOK'
<1> USE NoBatchAssumption DEF TypeOK, GoTo
<1>1. CASE PollWaiting(e)
  BY <1>1, SameTables, ExitTypes DEF PollWaiting
<1>2. CASE PollLate(e)
  BY <1>2, SameTables DEF PollLate, ExecutionTypes, Step, locals
<1>3. CASE PollEnded(e)
  BY <1>3, SameTables DEF PollEnded, ExecutionTypes, Step, Closed
<1>4. CASE CancelBatch(e)
  <2>1. TableTypes'
    BY <1>4 DEF CancelBatch, TableTypes, GeminiState, tables
  <2>2. ExecutionTypes'
    BY <1>4 DEF CancelBatch, ExecutionTypes, Step, Closed
  <2> QED
    BY <2>1, <2>2
<1>5. CASE Collect(e)
  <2>1. \A again \in SUBSET Trends : Cardinality(again) \in Nat
    BY TrendsAssumption, FS_CardinalityType, FS_Subset
  <2>2. held[e] \in Batches
    BY <1>5 DEF Collect, ExecutionTypes
  <2>3. trendIds[held[e]] \subseteq Trends
    BY <2>2 DEF TableTypes
  <2>4. retries' \in [Executions -> Nat]
    BY <1>5, <2>1, <2>3 DEF Collect, ExecutionTypes
  <2>5. decided' \in [Executions -> [Trends -> Decision]]
    BY <1>5 DEF Collect, ExecutionTypes, Decision
  <2> QED
    BY <1>5, <2>4, <2>5, SameTables DEF Collect, ExecutionTypes, Step, Closed
<1>6. CASE ApplyReturns(e)
  <2>1. CASE Exit(e)
    BY <1>6, <2>1, SameTables, ExitTypes DEF ApplyReturns
  <2>2. CASE pc[e] = "apply" /\ GoTo(e, "update") /\ UNCHANGED locals
    BY <1>6, <2>2, SameTables DEF ApplyReturns, ExecutionTypes, Step, locals
  <2> QED
    BY <1>6, <2>1, <2>2 DEF ApplyReturns
<1>7. CASE UpdateState(e)
  <2>1. TableTypes'
    BY <1>7 DEF UpdateState, TableTypes, ExecutionTypes, RowState
  <2>2. ExecutionTypes'
    BY <1>7 DEF UpdateState, ExecutionTypes, Step, locals
  <2> QED
    BY <2>1, <2>2
<1>8. CASE InsertCost(e)
  <2>1. TableTypes'
    BY <1>8 DEF InsertCost, TableTypes, batchRow
  <2>2. ExecutionTypes'
    BY <1>8 DEF InsertCost, ExecutionTypes, Step
  <2> QED
    BY <2>1, <2>2
<1>9. CASE ReadDue(e)
  <2>1. ids' \in [Executions -> SUBSET Trends]
    BY <1>9 DEF ReadDue, ExecutionTypes, TableTypes
  <2> QED
    BY <1>9, <2>1, SameTables DEF ReadDue, ExecutionTypes, Step
<1>10. CASE NothingToSubmit(e)
  BY <1>10, SameTables, ExitTypes DEF NothingToSubmit
<1>11. CASE SubmitBatch(e)
  <2>1. FreshName \in Batches
    BY <1>11 DEF SubmitBatch, FreshName, Unused
  <2>2. TableTypes'
    BY <1>11, <2>1 DEF SubmitBatch, TableTypes, GeminiState, tables
  <2>3. ExecutionTypes'
    BY <1>11, <2>1 DEF SubmitBatch, ExecutionTypes, Step
  <2> QED
    BY <2>2, <2>3
<1>12. CASE InsertBatch(e)
  <2>1. TableTypes'
    <3>1. clock + 1 \in Nat /\ ids[e] \in SUBSET Trends
      BY DEF TableTypes, ExecutionTypes
    <3>2. sentAt' \in [Batches -> Nat] /\ trendIds' \in [Batches -> SUBSET Trends]
      BY <1>12, <3>1 DEF InsertBatch, TableTypes
    <3> QED
      BY <1>12, <3>1, <3>2 DEF InsertBatch, TableTypes, RowState
  <2> QED
    BY <1>12, <2>1, ExitTypes DEF InsertBatch
<1>13. ASSUME NEW t \in Trends, ApplyDecision(e, t) PROVE TypeOK'
  <2>1. Latest(t) \in LedgerRow
    BY DEF Latest, TableTypes
  <2>2. AppliedRow(t, decided[e][t], held[e]) \in LedgerRow
    BY <2>1 DEF AppliedRow, LedgerRow, TableTypes, ExecutionTypes
  <2>3. TableTypes'
    BY <1>13, <2>2 DEF ApplyDecision, TableTypes, batchRow
  <2>4. ExecutionTypes'
    BY <1>13 DEF ApplyDecision, ExecutionTypes, Decision
  <2> QED
    BY <2>3, <2>4
<1>14. ASSUME NEW t \in Trends, DropDecision(e, t) PROVE TypeOK'
  BY <1>14, SameTables DEF DropDecision, ExecutionTypes, Decision
<1> QED
  BY <1>1, <1>2, <1>3, <1>4, <1>5, <1>6, <1>7, <1>8, <1>9, <1>10, <1>11,
     <1>12, <1>13, <1>14 DEF Tick

\* A crash keeps the types.
LEMMA CrashTypes ==
  ASSUME NEW e \in Executions, TypeOK, Crash(e) PROVE TypeOK'
<1>1. CASE Exit(e)
  BY <1>1, SameTables, ExitTypes DEF Crash, TypeOK
<1>2. CASE pc[e] = "apply" /\ GoTo(e, "detached") /\ UNCHANGED locals
  BY <1>2, SameTables DEF Crash, TypeOK, ExecutionTypes, Step, GoTo, locals
<1> QED
  BY <1>1, <1>2 DEF Crash

\* Gemini, time and the editorial service keep the types.
LEMMA WorldTypes ==
  ASSUME TypeOK,
         \/ \E b \in Batches : GeminiEnds(b) \/ BatchAges(b)
         \/ \E t \in Trends : BecomesDue(t) \/ MarkResurgent(t)
  PROVE  TypeOK'
<1>1. ASSUME NEW t \in Trends, MarkResurgent(t) PROVE TableTypes'
  <2>1. [Seed EXCEPT !.at = clock] \in LedgerRow
    BY DEF Seed, LedgerRow, TypeOK, TableTypes
  <2> QED
    BY <1>1, <2>1 DEF MarkResurgent, TypeOK, TableTypes, batchRow
<1>2. TableTypes'
  BY <1>1 DEF GeminiEnds, BatchAges, BecomesDue, TypeOK, TableTypes, GeminiState,
              tables, batchRow
<1>3. ExecutionTypes'
  BY SameExecutions DEF GeminiEnds, BatchAges, BecomesDue, MarkResurgent, TypeOK
<1> QED
  BY <1>2, <1>3 DEF TypeOK

\* Every variable stays in its type: whatever overlaps, crashes or is detached.
THEOREM TypeCorrect == Spec => []TypeOK
<1>1. TypeOK /\ [Next]_vars => TypeOK'
  <2> SUFFICES ASSUME TypeOK, [Next]_vars PROVE TypeOK'
    OBVIOUS
  <2>1. CASE UNCHANGED vars
    BY <2>1, SameTables, SameExecutions DEF vars, TypeOK, tables, locals
  <2> QED
    BY <2>1, StartTypes, TickTypes, CrashTypes, WorldTypes DEF Next
<1> QED
  BY <1>1, InitTypes, PTL DEF Spec

----------------------------------------------------------------------------
(* The invariant of executions that follow one another. *)

\* The invariant of serial executions holds initially, old proposals included.
LEMMA InitSerialInv == Init => SerialInv
<1> SUFFICES ASSUME Init PROVE SerialInv
  OBVIOUS
<1>1. \A t \in Trends : ledger[t] = <<Seed>> \/ ledger[t] = <<Seed, OldProposal>>
  <2>1. ledger \in [Trends -> {<<Seed>>, <<Seed, OldProposal>>}]
    BY DEF Init
  <2> QED
    BY <2>1
<1>2. ASSUME NEW t \in Trends, NEW i \in 1..Len(ledger[t])
      PROVE  /\ ledger[t][i].status = "ACTIVE"
             /\ ledger[t][i].batch = NoBatch
             /\ ledger[t][i].at = 0
  <2>1. CASE ledger[t] = <<Seed>>
    BY <2>1 DEF Seed
  <2>2. CASE ledger[t] = <<Seed, OldProposal>>
    BY <2>2 DEF Seed, OldProposal
  <2> QED
    BY <1>1, <2>1, <2>2
<1>3. \A t \in Trends : Len(ledger[t]) \in Nat \ {0}
  BY InitTypes DEF TypeOK, TableTypes
<1>4. Submitted = {} /\ \A b \in Batches : state[b] = "none"
  BY DEF Init, Submitted
<1>5. TableInv
  <2>1. LedgerTimes
    BY <1>2, <1>4 DEF LedgerTimes, Init
  <2>2. NoRetiredInFlight
    BY <1>2, <1>3, <1>4, InitTypes DEF NoRetiredInFlight, Latest, TypeOK, TableTypes
  <2> QED
    BY <1>2, <1>4, <2>1, <2>2
    DEF TableInv, AtMostOneSubmitted, UnusedHaveNoRow, NoTrendLost,
        OneApplicationPerBatch, TwoCycleRetirement
<1>6. ExecutionInv
  BY DEF Init, ExecutionInv, SerialExecutions, Knows
<1> QED
  BY <1>5, <1>6 DEF SerialInv

\* A ledger row, its fields, and the latest one.
LEMMA RowTypes ==
  ASSUME TableTypes, NEW t \in Trends
  PROVE  /\ Len(ledger[t]) \in Nat \ {0}
         /\ Latest(t) \in LedgerRow
         /\ \A i \in 1..Len(ledger[t]) :
              /\ ledger[t][i] \in LedgerRow
              /\ ledger[t][i].batch \in Batches \cup {NoBatch}
              /\ ledger[t][i].at \in Nat
<1>1. Len(ledger[t]) \in Nat \ {0}
  BY DEF TableTypes
<1>2. \A i \in 1..Len(ledger[t]) : ledger[t][i] \in LedgerRow
  BY DEF TableTypes
<1>3. \A r \in LedgerRow : r.batch \in Batches \cup {NoBatch} /\ r.at \in Nat
  BY DEF LedgerRow
<1> QED
  BY <1>1, <1>2, <1>3 DEF Latest

\* A step that leaves batch rows, ledger and due trends alone keeps TableInv,
\* provided Gemini forgets no batch name.
LEMMA SameLedger ==
  ASSUME TableInv,
         UNCHANGED <<state, trendIds, sentAt, ledger, due, clock>>,
         \A b \in Batches : gemini'[b] = "unused" => gemini[b] = "unused"
  PROVE  TableInv'
<1>1. (AtMostOneSubmitted /\ UnusedHaveNoRow)'
  BY DEF TableInv, AtMostOneSubmitted, UnusedHaveNoRow, Submitted
<1>2. LedgerTimes'
  BY DEF TableInv, LedgerTimes
<1>3. (NoRetiredInFlight /\ NoTrendLost)'
  BY DEF TableInv, NoRetiredInFlight, NoTrendLost, AlreadyApplied, Latest, Submitted
<1>4. (OneApplicationPerBatch /\ TwoCycleRetirement)'
  BY DEF TableInv, OneApplicationPerBatch, TwoCycleRetirement
<1> QED
  BY <1>1, <1>2, <1>3, <1>4 DEF TableInv

\* While one execution runs, every other one is idle, and knows nothing.
LEMMA OneRuns ==
  ASSUME NEW e \in Executions,
         \A f \in Executions \ {e} : pc'[f] = "idle",
         pc'[e] # "detached",
         Knows(e)'
  PROVE  ExecutionInv'
<1>1. \A f \in Executions \ {e} : Knows(f)'
  BY DEF Knows
<1> QED
  BY <1>1 DEF ExecutionInv, SerialExecutions

\* While one execution runs, its step moves its own program counter only and
\* every other execution is idle.
LEMMA OthersIdle ==
  ASSUME TypeOK, SerialExecutions, NEW e \in Executions, pc[e] # "idle",
         NEW step \in Step, GoTo(e, step)
  PROVE  (\A f \in Executions \ {e} : pc'[f] = "idle") /\ pc'[e] = step
BY DEF TypeOK, ExecutionTypes, SerialExecutions, GoTo

\* The end of the only execution leaves nothing to know.
LEMMA ExitSerial ==
  ASSUME TypeOK, SerialExecutions, NEW e \in Executions, pc[e] # "idle", Exit(e)
  PROVE  ExecutionInv'
<1>1. GoTo(e, "idle") /\ "idle" \in Step
  BY DEF Exit, Step
<1>2. (\A f \in Executions \ {e} : pc'[f] = "idle") /\ pc'[e] = "idle"
  BY <1>1, OthersIdle
<1> QED
  BY <1>2, OneRuns DEF Knows

\* A serial execution starts with the one SUBMITTED batch, or with none.
LEMMA StartSerial ==
  ASSUME ~Overlap, TypeOK, SerialInv, NEW e \in Executions, Start(e)
  PROVE  SerialInv'
<1>1. TableInv'
  BY SameLedger DEF Start, SerialInv, tables
<1>2. \A f \in Executions : pc[f] = "idle"
  BY DEF Start, MayStart, SerialInv, ExecutionInv, SerialExecutions
<1>3. CASE Submitted = {} /\ GoTo(e, "due") /\ UNCHANGED held
  <2>1. pc' = [pc EXCEPT ![e] = "due"] /\ Submitted' = {}
    BY <1>3 DEF GoTo, Start, tables, Submitted
  <2>2. (\A f \in Executions \ {e} : pc'[f] = "idle") /\ pc'[e] = "due"
    BY <1>2, <2>1 DEF TypeOK, ExecutionTypes
  <2>3. ExecutionInv'
    BY <2>1, <2>2, OneRuns DEF Knows
  <2> QED
    BY <1>1, <2>3 DEF SerialInv
<1>4. ASSUME NEW b \in Submitted, NEW step \in {"poll", "pollLate"},
             GoTo(e, step), held' = [held EXCEPT ![e] = b]
      PROVE  SerialInv'
  <2>1. (\A f \in Executions \ {e} : pc'[f] = "idle") /\ pc'[e] = step
    BY <1>2, <1>4 DEF TypeOK, ExecutionTypes, GoTo
  <2>2. held'[e] = b /\ state'[b] = "SUBMITTED"
    BY <1>4 DEF TypeOK, ExecutionTypes, Start, tables, Submitted
  <2>3. ExecutionInv'
    BY <2>1, <2>2, OneRuns DEF Knows
  <2> QED
    BY <1>1, <2>3 DEF SerialInv
<1> QED
  BY <1>3, <1>4 DEF Start, Newest

\* Steps that leave the tables as they are.
LEMMA QuietStepSerial ==
  ASSUME TypeOK, SerialInv, NEW e \in Executions,
         \/ PollWaiting(e) \/ PollLate(e) \/ PollEnded(e) \/ Collect(e)
         \/ ApplyReturns(e) \/ ReadDue(e) \/ NothingToSubmit(e)
         \/ \E t \in Trends : DropDecision(e, t)
         \/ Crash(e) /\ ~Detached
  PROVE  SerialInv'
<1> USE DEF SerialInv, ExecutionInv
<1>0. pc[e] # "detached" /\ SerialExecutions /\ Knows(e)
  BY DEF SerialExecutions
<1>1. UNCHANGED <<gemini, tables>>
  BY DEF PollWaiting, PollLate, PollEnded, Collect, ApplyReturns, ReadDue,
         NothingToSubmit, DropDecision, Crash
<1>2. TableInv'
  BY <1>1, SameLedger DEF tables
<1>3. Submitted' = Submitted /\ \A b : AlreadyApplied(b)' = AlreadyApplied(b)
  BY <1>1 DEF tables, Submitted, AlreadyApplied
<1>4. CASE pc[e] # "idle" /\ Exit(e)
  BY <1>2, <1>4, ExitSerial, <1>0
<1>5. CASE PollLate(e)
  <2>1. (\A f \in Executions \ {e} : pc'[f] = "idle") /\ pc'[e] = "cancel"
    BY <1>0, <1>5, OthersIdle DEF PollLate, Step
  <2>2. Knows(e)'
    BY <1>0, <1>1, <1>5, <2>1 DEF PollLate, Knows, locals, tables
  <2> QED
    BY <1>2, <2>1, <2>2, OneRuns
<1>6. CASE PollEnded(e)
  <2>1. PICK step \in {"update", "collect"} : GoTo(e, step)
    BY <1>6 DEF PollEnded
  <2>2. (\A f \in Executions \ {e} : pc'[f] = "idle") /\ pc'[e] = step
    BY <1>0, <1>6, <2>1, OthersIdle DEF PollEnded, Step
  <2>3. step = "update" => closing'[e] \in Closed
    <3>1. CASE GoTo(e, "collect")
      BY <2>2, <3>1 DEF GoTo, TypeOK, ExecutionTypes
    <3>2. CASE closing' = [closing EXCEPT ![e] = "CANCELLED"]
      BY <3>2 DEF TypeOK, ExecutionTypes, Closed
    <3>3. CASE closing' = [closing EXCEPT ![e] = "FAILED"]
      BY <3>3 DEF TypeOK, ExecutionTypes, Closed
    <3> QED
      BY <1>6, <3>1, <3>2, <3>3 DEF PollEnded
  <2>4. Knows(e)'
    BY <1>0, <1>1, <1>6, <2>2, <2>3 DEF PollEnded, Knows, tables
  <2> QED
    BY <1>2, <2>2, <2>4, OneRuns
<1>7. CASE Collect(e)
  <2>1. (\A f \in Executions \ {e} : pc'[f] = "idle") /\ pc'[e] = "apply"
    BY <1>0, <1>7, OthersIdle DEF Collect, Step
  <2>2. ASSUME NEW t \in Trends, decided'[e][t] # "none"
        PROVE  t \in trendIds[held[e]] /\ t \notin AlreadyApplied(held[e])
    BY <1>7, <2>2 DEF Collect, TypeOK, ExecutionTypes
  <2>3. closing'[e] = "COLLECTED"
    BY <1>7 DEF Collect, TypeOK, ExecutionTypes
  <2>4. Knows(e)'
    BY <1>0, <1>1, <1>3, <1>7, <2>1, <2>2, <2>3 DEF Collect, Knows, tables, Closed
  <2> QED
    BY <1>2, <2>1, <2>4, OneRuns
<1>8. CASE ApplyReturns(e) /\ ~Exit(e)
  <2>1. pc[e] = "apply" /\ GoTo(e, "update") /\ UNCHANGED locals
    BY <1>8 DEF ApplyReturns
  <2>2. (\A f \in Executions \ {e} : pc'[f] = "idle") /\ pc'[e] = "update"
    BY <1>0, <2>1, OthersIdle DEF Step
  <2>3. closing[e] \in Closed
    BY <1>0, <2>1 DEF Knows
  <2>4. Knows(e)'
    BY <1>0, <1>1, <2>1, <2>2, <2>3 DEF Knows, tables, locals
  <2> QED
    BY <1>2, <2>2, <2>4, OneRuns
<1>9. CASE ReadDue(e)
  <2>1. (\A f \in Executions \ {e} : pc'[f] = "idle") /\ pc'[e] = "submit"
    BY <1>0, <1>9, OthersIdle DEF ReadDue, Step
  <2>2. ids'[e] \subseteq due
    BY <1>9 DEF ReadDue, TypeOK, ExecutionTypes
  <2>3. Knows(e)'
    BY <1>0, <1>1, <1>3, <1>9, <2>1, <2>2 DEF ReadDue, Knows, tables
  <2> QED
    BY <1>2, <2>1, <2>3, OneRuns
<1>10. ASSUME NEW t \in Trends, DropDecision(e, t) PROVE SerialInv'
  <2>1. pc[e] = "apply" /\ pc' = pc /\ held' = held /\ closing' = closing
    BY <1>0, <1>10 DEF DropDecision, locals
  <2>2. \A u \in Trends : decided'[e][u] # "none" => decided[e][u] # "none"
    BY <1>10 DEF DropDecision, TypeOK, ExecutionTypes
  <2>3. Knows(e)'
    BY <1>0, <1>1, <1>3, <2>1, <2>2 DEF Knows, tables
  <2>4. \A f \in Executions \ {e} : pc'[f] = "idle"
    BY <1>0, <2>1 DEF SerialExecutions
  <2> QED
    BY <1>2, <2>1, <2>3, <2>4, OneRuns
<1> QED
  BY <1>0, <1>4, <1>5, <1>6, <1>7, <1>8, <1>9, <1>10
  DEF PollWaiting, ApplyReturns, NothingToSubmit, Crash, ReadDue

\* Steps that write a table without touching the ledger or the due set.
LEMMA TableStepSerial ==
  ASSUME TypeOK, SerialInv, NEW e \in Executions,
         CancelBatch(e) \/ UpdateState(e) \/ InsertCost(e) \/ SubmitBatch(e)
  PROVE  SerialInv'
<1> USE DEF SerialInv, ExecutionInv
<1>0. SerialExecutions /\ Knows(e)
  OBVIOUS
<1>1. CASE CancelBatch(e)
  <2>1. (\A f \in Executions \ {e} : pc'[f] = "idle") /\ pc'[e] = "update"
    BY <1>0, <1>1, OthersIdle DEF CancelBatch, Step
  <2>2. TableInv'
    BY <1>1, SameLedger DEF CancelBatch, TypeOK, TableTypes, tables
  <2>3. closing'[e] = "CANCELLED"
    BY <1>1 DEF CancelBatch, TypeOK, ExecutionTypes
  <2>4. Knows(e)'
    BY <1>0, <1>1, <2>1, <2>3 DEF CancelBatch, Knows, tables, Closed
  <2> QED
    BY <2>1, <2>2, <2>4, OneRuns
<1>2. CASE UpdateState(e)
  <2>0. held[e] \in Batches /\ closing[e] \in Closed /\ Submitted = {held[e]}
    BY <1>0, <1>2 DEF UpdateState, TypeOK, ExecutionTypes, Knows, TableInv,
                      AtMostOneSubmitted, Submitted
  <2>1. (\A f \in Executions \ {e} : pc'[f] = "idle") /\ pc'[e] = "cost"
    BY <1>0, <1>2, OthersIdle DEF UpdateState, Step
  <2>2. state'[held[e]] = closing[e] /\ \A b \in Batches \ {held[e]} : state'[b] = state[b]
    BY <1>2, <2>0 DEF UpdateState, TypeOK, TableTypes
  <2>3. Submitted' = {}
    BY <2>0, <2>2 DEF Submitted, Closed
  <2>4. UNCHANGED <<gemini, trendIds, sentAt, ledger, due, clock, held>>
    BY <1>2 DEF UpdateState, locals
  <2>5. \A b \in Batches : (state'[b] = "none" <=> state[b] = "none")
    BY <2>0, <2>2 DEF Closed, Submitted
  <2>6. TableInv'
    <3>1. (AtMostOneSubmitted /\ UnusedHaveNoRow)'
      BY <2>3, <2>4, <2>5 DEF TableInv, AtMostOneSubmitted, UnusedHaveNoRow
    <3>2. LedgerTimes'
      <4>1. \A t \in Trends : \A i \in 1..Len(ledger[t]) :
              ledger[t][i].batch # NoBatch => ledger[t][i].batch \in Batches
        BY RowTypes DEF TypeOK
      <4> QED
        BY <2>4, <2>5, <4>1 DEF TableInv, LedgerTimes
    <3>3. (NoRetiredInFlight /\ NoTrendLost)'
      BY <2>3, <2>4, <2>5
      DEF TableInv, NoRetiredInFlight, NoTrendLost, AlreadyApplied, Latest
    <3>4. (OneApplicationPerBatch /\ TwoCycleRetirement)'
      BY <2>4 DEF TableInv, OneApplicationPerBatch, TwoCycleRetirement
    <3> QED
      BY <3>1, <3>2, <3>3, <3>4 DEF TableInv
  <2>7. Knows(e)'
    BY <2>0, <2>1, <2>2, <2>3, <2>4 DEF Knows
  <2> QED
    BY <2>1, <2>6, <2>7, OneRuns
<1>3. CASE InsertCost(e)
  <2>1. (\A f \in Executions \ {e} : pc'[f] = "idle") /\ pc'[e] = "due"
    BY <1>0, <1>3, OthersIdle DEF InsertCost, Step
  <2>2. TableInv'
    BY <1>3, SameLedger DEF InsertCost, batchRow
  <2>3. Submitted' = {}
    BY <1>0, <1>3 DEF InsertCost, Knows, Submitted, batchRow
  <2>4. Knows(e)'
    BY <2>1, <2>3 DEF Knows
  <2> QED
    BY <2>1, <2>2, <2>4, OneRuns
<1>4. CASE SubmitBatch(e)
  <2>0. FreshName \in Batches /\ gemini[FreshName] = "unused"
    BY <1>4 DEF SubmitBatch, FreshName, Unused
  <2>1. (\A f \in Executions \ {e} : pc'[f] = "idle") /\ pc'[e] = "insert"
    BY <1>0, <1>4, OthersIdle DEF SubmitBatch, Step
  <2>2. TableInv'
    BY <1>4, <2>0, SameLedger DEF SubmitBatch, TypeOK, TableTypes, tables
  <2>3. held'[e] = FreshName /\ gemini'[FreshName] = "running"
    BY <1>4, <2>0 DEF SubmitBatch, TypeOK, TableTypes, ExecutionTypes
  <2>4. state'[FreshName] = "none" /\ Submitted' = {} /\ ids'[e] \subseteq due'
    BY <1>0, <1>4, <2>0
    DEF SubmitBatch, Knows, Submitted, tables, TableInv, UnusedHaveNoRow
  <2>5. Knows(e)'
    BY <2>1, <2>3, <2>4 DEF Knows
  <2> QED
    BY <2>1, <2>2, <2>5, OneRuns
<1> QED
  BY <1>1, <1>2, <1>3, <1>4

\* Inserting the batch row: no ledger row is younger than it.
LEMMA InsertBatchSerial ==
  ASSUME TypeOK, SerialInv, NEW e \in Executions, InsertBatch(e)
  PROVE  SerialInv'
<1> USE DEF SerialInv, ExecutionInv
<1> DEFINE b == held[e]
<1>1. b \in Batches /\ state[b] = "none" /\ Submitted = {} /\ gemini[b] # "unused"
      /\ ids[e] \subseteq due
  BY DEF InsertBatch, Knows, TypeOK, ExecutionTypes
<1>2. /\ state'[b] = "SUBMITTED" /\ trendIds'[b] = ids[e] /\ sentAt'[b] = clock + 1
      /\ clock' = clock + 1
      /\ \A c \in Batches \ {b} : /\ state'[c] = state[c]
                                 /\ trendIds'[c] = trendIds[c]
                                 /\ sentAt'[c] = sentAt[c]
  BY <1>1 DEF InsertBatch, TypeOK, TableTypes
<1>3. UNCHANGED <<gemini, cost, ledger, due>>
  BY DEF InsertBatch
<1>4. Submitted' = {b}
  BY <1>1, <1>2 DEF Submitted
<1>5. clock \in Nat
  BY DEF TypeOK, TableTypes
<1>6. \A c \in Batches \ {b} : AlreadyApplied(c)' = AlreadyApplied(c)
  BY <1>2, <1>3 DEF AlreadyApplied
<1>7. (AtMostOneSubmitted /\ UnusedHaveNoRow)'
  BY <1>1, <1>2, <1>3, <1>4 DEF TableInv, AtMostOneSubmitted, UnusedHaveNoRow
<1>8. LedgerTimes'
  <2>1. ASSUME NEW c \in Batches, state'[c] # "none"
        PROVE  sentAt'[c] <= clock'
    <3>1. sentAt[c] \in Nat
      BY DEF TypeOK, TableTypes
    <3>2. CASE c = b
      BY <1>2, <1>5, <3>2
    <3>3. CASE c # b
      <4>1. sentAt[c] <= clock
        BY <1>2, <2>1, <3>3 DEF TableInv, LedgerTimes
      <4> QED
        BY <1>2, <1>5, <3>1, <3>3, <4>1
    <3> QED
      BY <3>2, <3>3
  <2>2. ASSUME NEW t \in Trends, NEW i \in 1..Len(ledger[t])
        PROVE  /\ ledger[t][i].at <= clock'
               /\ ledger[t][i].batch # NoBatch =>
                    /\ state'[ledger[t][i].batch] # "none"
                    /\ t \in trendIds'[ledger[t][i].batch]
                    /\ ledger[t][i].at >= sentAt'[ledger[t][i].batch]
    <3>1. ledger[t][i].batch \in Batches \cup {NoBatch} /\ ledger[t][i].at \in Nat
      BY RowTypes DEF TypeOK
    <3>2. ledger[t][i].at <= clock
      BY DEF TableInv, LedgerTimes
    <3>3. ledger[t][i].batch # b
      BY <1>1, NoBatchAssumption DEF TableInv, LedgerTimes
    <3> QED
      BY <1>2, <1>5, <3>1, <3>2, <3>3 DEF TableInv, LedgerTimes
  <2> QED
    BY <1>3, <2>1, <2>2 DEF LedgerTimes
<1>9. NoRetiredInFlight'
  BY <1>1, <1>2, <1>3, <1>4 DEF TableInv, NoRetiredInFlight, Latest
<1>10. NoTrendLost'
  BY <1>1, <1>2, <1>3, <1>6 DEF TableInv, NoTrendLost
<1>11. (OneApplicationPerBatch /\ TwoCycleRetirement)'
  BY <1>3 DEF TableInv, OneApplicationPerBatch, TwoCycleRetirement
<1>12. ExecutionInv'
  BY ExitSerial DEF InsertBatch
<1> QED
  BY <1>7, <1>8, <1>9, <1>10, <1>11, <1>12 DEF TableInv

\* What an applied decision does to the ledger of its trend.
LEMMA Applied ==
  ASSUME TypeOK, SerialInv, NEW e \in Executions, NEW t \in Trends, ApplyDecision(e, t)
  PROVE  LET b == held[e]
             new == AppliedRow(t, decided[e][t], b)
             n == Len(ledger[t])
         IN  /\ b \in Batches /\ Submitted = {b} /\ pc[e] = "apply"
             /\ t \in trendIds[b] /\ t \notin AlreadyApplied(b)
             /\ n \in Nat \ {0} /\ Len(ledger'[t]) = n + 1
             /\ \A i \in 1..n : ledger'[t][i] = ledger[t][i] /\ ledger[t][i].batch # b
             /\ ledger'[t][n+1] = new
             /\ new.batch = b /\ new.at = clock
             /\ \A u \in Trends \ {t} : ledger'[u] = ledger[u]
<1> DEFINE b == held[e]
           new == AppliedRow(t, decided[e][t], b)
           n == Len(ledger[t])
<1>1. pc[e] = "apply" /\ Knows(e)
  BY DEF ApplyDecision, SerialInv, ExecutionInv, SerialExecutions
<1>2. b \in Batches /\ Submitted = {b}
  BY <1>1 DEF Knows, TypeOK, ExecutionTypes, SerialInv, TableInv,
              AtMostOneSubmitted, Submitted
<1>3. t \in trendIds[b] /\ t \notin AlreadyApplied(b)
  BY <1>1 DEF Knows, ApplyDecision
<1>4. ledger[t] \in Seq(LedgerRow) /\ n \in Nat \ {0}
  BY DEF TypeOK, TableTypes
<1>5. ledger'[t] = Append(ledger[t], new) /\ \A u \in Trends \ {t} : ledger'[u] = ledger[u]
  BY DEF ApplyDecision, TypeOK, TableTypes
<1>6. new.batch = b /\ new.at = clock
  BY DEF AppliedRow
<1>7. ASSUME NEW i \in 1..n PROVE ledger[t][i].batch # b
  <2>1. ~(ledger[t][i].at >= sentAt[b])
    BY <1>3 DEF AlreadyApplied
  <2> QED
    BY <1>2, <2>1, NoBatchAssumption DEF SerialInv, TableInv, LedgerTimes
<1>8. /\ Len(ledger'[t]) = n + 1
      /\ \A i \in 1..n : ledger'[t][i] = ledger[t][i]
      /\ ledger'[t][n+1] = new
  BY <1>4, <1>5
<1> QED
  BY <1>1, <1>2, <1>3, <1>4, <1>5, <1>6, <1>7, <1>8

\* The procedure applies a decision to a trend its batch has not reached yet.
LEMMA ApplySerial ==
  ASSUME TypeOK, SerialInv, NEW e \in Executions, NEW t \in Trends, ApplyDecision(e, t)
  PROVE  SerialInv'
<1> USE DEF SerialInv, ExecutionInv
<1> DEFINE b == held[e]
           new == AppliedRow(t, decided[e][t], b)
           n == Len(ledger[t])
<1>1. /\ b \in Batches /\ Submitted = {b} /\ pc[e] = "apply"
      /\ t \in trendIds[b] /\ t \notin AlreadyApplied(b)
      /\ n \in Nat \ {0} /\ Len(ledger'[t]) = n + 1
      /\ \A i \in 1..n : ledger'[t][i] = ledger[t][i] /\ ledger[t][i].batch # b
      /\ ledger'[t][n+1] = new
      /\ new.batch = b /\ new.at = clock
      /\ \A u \in Trends \ {t} : ledger'[u] = ledger[u]
  BY Applied
<1> HIDE DEF n, new
<1>2. UNCHANGED <<gemini, state, trendIds, sentAt, clock, pc, held, closing>>
  BY DEF ApplyDecision, batchRow
<1>3. Latest(t)' = new /\ \A u \in Trends \ {t} : Latest(u)' = Latest(u)
  BY <1>1 DEF Latest
<1>4. clock \in Nat /\ \A c \in Batches : sentAt[c] \in Nat
  BY DEF TypeOK, TableTypes
<1>5. Submitted' = Submitted
  BY <1>2 DEF Submitted
<1>6. \A c \in Batches : \A u \in Trends \ {t} :
        u \in AlreadyApplied(c)' <=> u \in AlreadyApplied(c)
  BY <1>1, <1>2 DEF AlreadyApplied
<1>7. \A c \in Batches : state[c] # "none" /\ t \in trendIds[c] => t \in AlreadyApplied(c)'
  <2>1. SUFFICES ASSUME NEW c \in Batches, state[c] # "none", t \in trendIds[c]
                 PROVE  \E i \in 1..Len(ledger'[t]) : ledger'[t][i].at >= sentAt'[c]
    BY <1>2 DEF AlreadyApplied
  <2>2. clock >= sentAt[c]
    BY <1>4, <2>1 DEF TableInv, LedgerTimes
  <2>3. n+1 \in 1..Len(ledger'[t]) /\ ledger'[t][n+1].at >= sentAt'[c]
    BY <1>1, <1>2, <2>2
  <2> QED
    BY <2>3
<1>8. t \in due' => new.status # "RETIRED"
  BY DEF ApplyDecision, new
<1>9. \A u \in Trends \ {t} : u \in due' <=> u \in due
  BY DEF ApplyDecision
<1>10. (AtMostOneSubmitted /\ UnusedHaveNoRow)'
  BY <1>2, <1>5 DEF TableInv, AtMostOneSubmitted, UnusedHaveNoRow
<1>11. LedgerTimes'
  <2>1. state[b] = "SUBMITTED" /\ sentAt[b] <= clock
    BY <1>1 DEF Submitted, TableInv, LedgerTimes
  <2>2. ASSUME NEW u \in Trends, NEW i \in 1..Len(ledger'[u])
        PROVE  LET r == ledger'[u][i] IN
               /\ r.at <= clock
               /\ r.batch # NoBatch =>
                    state[r.batch] # "none" /\ u \in trendIds[r.batch] /\ r.at >= sentAt[r.batch]
    <3>1. CASE u # t
      BY <1>1, <3>1 DEF TableInv, LedgerTimes
    <3>2. CASE u = t /\ i \in 1..n
      BY <1>1, <3>2 DEF TableInv, LedgerTimes, n
    <3>3. CASE u = t /\ i = n + 1
      BY <1>1, <1>4, <2>1, <3>3
    <3> QED
      BY <1>1, <3>1, <3>2, <3>3
  <2> QED
    BY <1>2, <2>2 DEF TableInv, LedgerTimes
<1>12. NoRetiredInFlight'
  <2>1. \A u \in due' : u \in Trends
    BY <1>9 DEF ApplyDecision, TypeOK, TableTypes
  <2>2. \A u \in due' : Latest(u)'.status # "RETIRED"
    BY <1>3, <1>8, <1>9, <2>1 DEF TableInv, NoRetiredInFlight
  <2>3. ASSUME NEW c \in Submitted, NEW u \in trendIds[c], u \notin AlreadyApplied(c)'
        PROVE  Latest(u)'.status # "RETIRED"
    <3>1. c \in Batches /\ state[c] # "none" /\ u \in Trends
      BY DEF TypeOK, TableTypes, Submitted
    <3>2. u # t
      BY <1>7, <2>3, <3>1
    <3>3. u \notin AlreadyApplied(c)
      BY <1>6, <2>3, <3>1, <3>2
    <3>4. Latest(u).status # "RETIRED"
      BY <3>3 DEF TableInv, NoRetiredInFlight
    <3> QED
      BY <1>3, <3>1, <3>2, <3>4
  <2> QED
    BY <1>2, <1>5, <2>2, <2>3 DEF NoRetiredInFlight
<1>13. NoTrendLost'
  <2>1. ASSUME NEW c \in Batches, state[c] # "none", NEW u \in trendIds[c]
        PROVE  u \in due' \/ u \in AlreadyApplied(c)'
    <3>1. u \in Trends
      BY DEF TypeOK, TableTypes
    <3> QED
      BY <1>6, <1>7, <1>9, <2>1, <3>1 DEF TableInv, NoTrendLost
  <2> QED
    BY <1>2, <2>1 DEF NoTrendLost
<1>14. OneApplicationPerBatch'
  <2>1. ASSUME NEW u \in Trends, NEW i \in 1..Len(ledger'[u]), NEW j \in 1..Len(ledger'[u]),
               ledger'[u][i].batch # NoBatch, ledger'[u][i].batch = ledger'[u][j].batch
        PROVE  i = j
    <3>1. CASE u # t
      BY <1>1, <2>1, <3>1 DEF TableInv, OneApplicationPerBatch
    <3>2. CASE u = t /\ i \in 1..n /\ j \in 1..n
      BY <1>1, <2>1, <3>2 DEF TableInv, OneApplicationPerBatch, n
    <3>3. CASE u = t /\ (i = n + 1 \/ j = n + 1)
      BY <1>1, <2>1, <3>3
    <3> QED
      BY <1>1, <3>1, <3>2, <3>3
  <2> QED
    BY <2>1 DEF OneApplicationPerBatch
<1>15. TwoCycleRetirement'
  <2>1. ASSUME NEW u \in Trends, NEW i \in 1..Len(ledger'[u]),
               ledger'[u][i].status = "RETIRED"
        PROVE  /\ i > 1 /\ ledger'[u][i].proposal /\ ledger'[u][i-1].proposal
               /\ ledger'[u][i].batch # ledger'[u][i-1].batch
    <3>1. CASE u # t
      BY <1>1, <2>1, <3>1 DEF TableInv, TwoCycleRetirement
    <3>2. CASE u = t /\ i \in 1..n
      <4>1. i > 1 /\ ledger[t][i].proposal /\ ledger[t][i-1].proposal
            /\ ledger[t][i].batch # ledger[t][i-1].batch
        BY <1>1, <2>1, <3>2 DEF TableInv, TwoCycleRetirement, n
      <4>2. i-1 \in 1..n
        BY <1>1, <3>2, <4>1
      <4> QED
        BY <1>1, <3>2, <4>1, <4>2
    <3>3. CASE u = t /\ i = n + 1
      <4>1. new.status = "RETIRED"
        BY <1>1, <2>1, <3>3
      <4>2. new.proposal /\ (ledger[t][n].proposal \/ ledger[t][n].status = "RETIRED")
        BY <4>1 DEF new, AppliedRow, Latest, n
      <4>3. ledger[t][n].status = "RETIRED" => ledger[t][n].proposal
        BY <1>1 DEF TableInv, TwoCycleRetirement, n
      <4> QED
        BY <1>1, <3>3, <4>2, <4>3
    <3> QED
      BY <1>1, <3>1, <3>2, <3>3
  <2> QED
    BY <2>1 DEF TwoCycleRetirement
<1>16. ExecutionInv'
  <2>1. \A u \in Trends : decided'[e][u] # "none" => u # t /\ decided[e][u] # "none"
    BY DEF ApplyDecision, TypeOK, ExecutionTypes
  <2>2. \A f \in Executions \ {e} : pc'[f] = "idle"
    BY <1>1, <1>2 DEF SerialExecutions
  <2>3. Knows(e)'
    BY <1>1, <1>2, <1>5, <1>6, <2>1 DEF Knows
  <2> QED
    BY <1>1, <1>2, <2>2, <2>3, OneRuns
<1> QED
  BY <1>10, <1>11, <1>12, <1>13, <1>14, <1>15, <1>16 DEF TableInv

\* Gemini's progress and the passing of time.
LEMMA WorldSerial ==
  ASSUME TypeOK, SerialInv,
         \/ \E b \in Batches : GeminiEnds(b) \/ BatchAges(b)
         \/ \E t \in Trends : BecomesDue(t)
  PROVE  SerialInv'
<1> USE DEF SerialInv, ExecutionInv
<1>1. UNCHANGED <<state, trendIds, sentAt, ledger, clock, pc, locals>>
  BY DEF GeminiEnds, BatchAges, BecomesDue, tables, batchRow
<1>2. due \subseteq due'
  BY DEF GeminiEnds, BatchAges, BecomesDue, tables
<1>3. \A b \in Batches : gemini'[b] = "unused" => gemini[b] = "unused"
  BY DEF GeminiEnds, BatchAges, BecomesDue, TypeOK, TableTypes
<1>4. \A b \in Batches : gemini[b] # "unused" => gemini'[b] # "unused"
  BY DEF GeminiEnds, BatchAges, BecomesDue, TypeOK, TableTypes
<1>5. Submitted' = Submitted /\ \A b : AlreadyApplied(b)' = AlreadyApplied(b)
  BY <1>1 DEF Submitted, AlreadyApplied
<1>6. TableInv'
  <2>1. CASE due' = due
    BY <1>1, <1>3, <2>1, SameLedger
  <2>2. ASSUME NEW t \in Trends, BecomesDue(t) PROVE TableInv'
    <3>1. due' = due \cup {t} /\ Latest(t).status # "RETIRED"
      BY <2>2 DEF BecomesDue
    <3>2. (AtMostOneSubmitted /\ UnusedHaveNoRow)'
      BY <1>1, <1>3, <1>5 DEF TableInv, AtMostOneSubmitted, UnusedHaveNoRow
    <3>3. (LedgerTimes /\ OneApplicationPerBatch /\ TwoCycleRetirement)'
      BY <1>1 DEF TableInv, LedgerTimes, OneApplicationPerBatch, TwoCycleRetirement
    <3>4. (NoRetiredInFlight /\ NoTrendLost)'
      BY <1>1, <1>5, <3>1 DEF TableInv, NoRetiredInFlight, NoTrendLost, Latest
    <3> QED
      BY <3>2, <3>3, <3>4 DEF TableInv
  <2> QED
    BY <2>1, <2>2 DEF GeminiEnds, BatchAges, tables
<1>7. SerialExecutions'
  BY <1>1 DEF SerialExecutions
<1>8. ASSUME NEW e \in Executions PROVE Knows(e)'
  <2>1. pc[e] # "idle" /\ held[e] # NoBatch => held[e] \in Batches
    BY DEF TypeOK, ExecutionTypes
  <2>2. pc[e] = "insert" => held[e] \in Batches
    BY DEF TypeOK, ExecutionTypes
  <2> QED
    BY <1>1, <1>2, <1>4, <1>5, <2>1, <2>2 DEF Knows, locals
<1> QED
  BY <1>6, <1>7, <1>8

\* A revival appends a row of no batch to the ledger of a retired trend, which
\* no batch in flight has still to evaluate.
LEMMA Revived ==
  ASSUME TypeOK, SerialInv, NEW t \in Trends, MarkResurgent(t)
  PROVE  LET n == Len(ledger[t])
             new == [Seed EXCEPT !.at = clock]
         IN  /\ n \in Nat \ {0} /\ Len(ledger'[t]) = n + 1
             /\ \A i \in 1..n : ledger'[t][i] = ledger[t][i]
             /\ ledger'[t][n+1] = new
             /\ new.batch = NoBatch /\ new.at = clock
             /\ new.status = "ACTIVE" /\ new.proposal = FALSE
             /\ \A u \in Trends \ {t} : ledger'[u] = ledger[u]
             /\ \A b \in Submitted : t \in trendIds[b] => t \in AlreadyApplied(b)
             /\ t \notin due
<1> DEFINE n == Len(ledger[t])
           new == [Seed EXCEPT !.at = clock]
<1>1. ledger[t] \in Seq(LedgerRow) /\ n \in Nat \ {0}
  BY DEF TypeOK, TableTypes
<1>2. ledger'[t] = Append(ledger[t], new) /\ \A u \in Trends \ {t} : ledger'[u] = ledger[u]
  BY DEF MarkResurgent, TypeOK, TableTypes
<1>3. /\ Len(ledger'[t]) = n + 1
      /\ \A i \in 1..n : ledger'[t][i] = ledger[t][i]
      /\ ledger'[t][n+1] = new
  BY <1>1, <1>2
<1>4. new.batch = NoBatch /\ new.at = clock /\ new.status = "ACTIVE" /\ new.proposal = FALSE
  BY DEF Seed
<1>5. /\ \A b \in Submitted : t \in trendIds[b] => t \in AlreadyApplied(b)
      /\ t \notin due
  BY DEF MarkResurgent, SerialInv, TableInv, NoRetiredInFlight
<1> QED
  BY <1>1, <1>2, <1>3, <1>4, <1>5

\* A RESURGENT row belongs to no batch and disturbs no batch in flight.
LEMMA ReviveSerial ==
  ASSUME TypeOK, SerialInv, NEW t \in Trends, MarkResurgent(t)
  PROVE  SerialInv'
<1> USE DEF SerialInv, ExecutionInv
<1> DEFINE n == Len(ledger[t])
           new == [Seed EXCEPT !.at = clock]
<1>1. /\ n \in Nat \ {0} /\ Len(ledger'[t]) = n + 1
      /\ \A i \in 1..n : ledger'[t][i] = ledger[t][i]
      /\ ledger'[t][n+1] = new
      /\ new.batch = NoBatch /\ new.at = clock
      /\ new.status = "ACTIVE" /\ new.proposal = FALSE
      /\ \A u \in Trends \ {t} : ledger'[u] = ledger[u]
      /\ \A b \in Submitted : t \in trendIds[b] => t \in AlreadyApplied(b)
      /\ t \notin due
  BY Revived
<1> HIDE DEF n, new
<1>2. UNCHANGED <<gemini, state, trendIds, sentAt, due, clock, pc, locals>>
  BY DEF MarkResurgent, batchRow
<1>3. Latest(t)' = new /\ \A u \in Trends \ {t} : Latest(u)' = Latest(u)
  BY <1>1 DEF Latest
<1>4. clock \in Nat /\ \A c \in Batches : sentAt[c] \in Nat
  BY DEF TypeOK, TableTypes
<1>5. Submitted' = Submitted
  BY <1>2 DEF Submitted
<1>6. \A c \in Batches : \A u \in Trends \ {t} :
        u \in AlreadyApplied(c)' <=> u \in AlreadyApplied(c)
  BY <1>1, <1>2 DEF AlreadyApplied
<1>7. \A c \in Batches : t \in AlreadyApplied(c) => t \in AlreadyApplied(c)'
  <2>1. \A i \in 1..n : i \in 1..(n+1)
    BY <1>1
  <2> QED
    BY <1>1, <1>2, <2>1 DEF AlreadyApplied, n
<1>8. (AtMostOneSubmitted /\ UnusedHaveNoRow)'
  BY <1>2, <1>5 DEF TableInv, AtMostOneSubmitted, UnusedHaveNoRow
<1>9. LedgerTimes'
  <2>1. ASSUME NEW u \in Trends, NEW i \in 1..Len(ledger'[u])
        PROVE  LET r == ledger'[u][i] IN
               /\ r.at <= clock
               /\ r.batch # NoBatch =>
                    state[r.batch] # "none" /\ u \in trendIds[r.batch] /\ r.at >= sentAt[r.batch]
    <3>1. CASE u # t
      BY <1>1, <3>1 DEF TableInv, LedgerTimes
    <3>2. CASE u = t /\ i \in 1..n
      BY <1>1, <3>2 DEF TableInv, LedgerTimes, n
    <3>3. CASE u = t /\ i = n + 1
      BY <1>1, <1>4, <3>3
    <3> QED
      BY <1>1, <3>1, <3>2, <3>3
  <2> QED
    BY <1>2, <2>1 DEF TableInv, LedgerTimes
<1>10. NoRetiredInFlight'
  <2>1. \A u \in due : u \in Trends /\ Latest(u)'.status # "RETIRED"
    BY <1>1, <1>3 DEF TableInv, NoRetiredInFlight, TypeOK, TableTypes
  <2>2. ASSUME NEW c \in Submitted, NEW u \in trendIds[c], u \notin AlreadyApplied(c)'
        PROVE  Latest(u)'.status # "RETIRED"
    <3>1. c \in Batches /\ u \in Trends
      BY DEF TypeOK, TableTypes, Submitted
    <3>2. u # t /\ u \notin AlreadyApplied(c)
      BY <1>1, <1>6, <1>7, <2>2, <3>1
    <3> QED
      BY <1>3, <3>1, <3>2 DEF TableInv, NoRetiredInFlight
  <2> QED
    BY <1>2, <1>5, <2>1, <2>2 DEF NoRetiredInFlight
<1>11. NoTrendLost'
  <2>1. ASSUME NEW c \in Batches, state[c] # "none", NEW u \in trendIds[c]
        PROVE  u \in due \/ u \in AlreadyApplied(c)'
    <3>1. u \in Trends
      BY DEF TypeOK, TableTypes
    <3> QED
      BY <1>6, <1>7, <2>1, <3>1 DEF TableInv, NoTrendLost
  <2> QED
    BY <1>2, <2>1 DEF NoTrendLost
<1>12. OneApplicationPerBatch'
  <2>1. ASSUME NEW u \in Trends, NEW i \in 1..Len(ledger'[u]), NEW j \in 1..Len(ledger'[u]),
               ledger'[u][i].batch # NoBatch, ledger'[u][i].batch = ledger'[u][j].batch
        PROVE  i = j
    <3>1. CASE u # t
      BY <1>1, <2>1, <3>1 DEF TableInv, OneApplicationPerBatch
    <3>2. CASE u = t /\ i \in 1..n /\ j \in 1..n
      BY <1>1, <2>1, <3>2 DEF TableInv, OneApplicationPerBatch, n
    <3>3. CASE u = t /\ (i = n + 1 \/ j = n + 1)
      BY <1>1, <2>1, <3>3
    <3> QED
      BY <1>1, <3>1, <3>2, <3>3
  <2> QED
    BY <2>1 DEF OneApplicationPerBatch
<1>13. TwoCycleRetirement'
  <2>1. ASSUME NEW u \in Trends, NEW i \in 1..Len(ledger'[u]),
               ledger'[u][i].status = "RETIRED"
        PROVE  /\ i > 1 /\ ledger'[u][i].proposal /\ ledger'[u][i-1].proposal
               /\ ledger'[u][i].batch # ledger'[u][i-1].batch
    <3>1. CASE u # t
      BY <1>1, <2>1, <3>1 DEF TableInv, TwoCycleRetirement
    <3>2. CASE u = t /\ i \in 1..n
      <4>1. i > 1 /\ ledger[t][i].proposal /\ ledger[t][i-1].proposal
            /\ ledger[t][i].batch # ledger[t][i-1].batch
        BY <1>1, <2>1, <3>2 DEF TableInv, TwoCycleRetirement, n
      <4>2. i-1 \in 1..n
        BY <1>1, <3>2, <4>1
      <4> QED
        BY <1>1, <3>2, <4>1, <4>2
    <3>3. CASE u = t /\ i = n + 1
      BY <1>1, <2>1, <3>3
    <3> QED
      BY <1>1, <3>1, <3>2, <3>3
  <2> QED
    BY <2>1 DEF TwoCycleRetirement
<1>14. ASSUME NEW e \in Executions PROVE Knows(e)'
  <2>1. pc[e] = "apply" => held[e] \in Submitted
    BY DEF Knows, Submitted, TypeOK, ExecutionTypes
  <2>2. ASSUME pc[e] = "apply", NEW u \in Trends, decided[e][u] # "none"
        PROVE  u \in trendIds[held[e]] /\ u \notin AlreadyApplied(held[e])'
    <3>1. u \in trendIds[held[e]] /\ u \notin AlreadyApplied(held[e])
      BY <2>2 DEF Knows
    <3>2. u # t /\ held[e] \in Batches
      BY <1>1, <2>1, <2>2, <3>1 DEF Submitted
    <3> QED
      BY <1>1, <1>2, <3>1, <3>2 DEF AlreadyApplied, locals
  <2> QED
    BY <1>2, <1>5, <2>2 DEF Knows, locals
<1>15. SerialExecutions'
  BY <1>2 DEF SerialExecutions
<1> QED
  BY <1>8, <1>9, <1>10, <1>11, <1>12, <1>13, <1>14, <1>15 DEF TableInv

\* The step lemma all the theorems below rest on.
LEMMA StepSerial ==
  ASSUME ~Overlap, ~Detached, TypeOK, SerialInv, [Next]_vars
  PROVE  SerialInv'
<1>1. CASE UNCHANGED vars
  <2>1. TableInv'
    BY <1>1, SameLedger DEF vars, SerialInv
  <2>2. ExecutionInv'
    BY <1>1 DEF vars, SerialInv, ExecutionInv, SerialExecutions, Knows,
                Submitted, AlreadyApplied
  <2> QED
    BY <2>1, <2>2 DEF SerialInv
<1>2. ASSUME NEW e \in Executions, Tick(e) PROVE SerialInv'
  BY <1>2, QuietStepSerial, TableStepSerial, InsertBatchSerial, ApplySerial DEF Tick
<1> QED
  BY <1>1, <1>2, StartSerial, QuietStepSerial, WorldSerial, ReviveSerial DEF Next

\* When executions follow one another (cron and its retry, no run by hand) and
\* a procedure call dies with its client, the invariant of the tick holds.
THEOREM SerialCorrect ==
  ASSUME ~Overlap, ~Detached
  PROVE  Spec => []SerialInv
<1>1. Init => SerialInv
  BY InitSerialInv
<1>2. TypeOK /\ TypeOK' /\ SerialInv /\ [Next]_vars => SerialInv'
  BY StepSerial
<1> QED
  BY <1>1, <1>2, TypeCorrect, PTL DEF Spec

\* No batch reaches a trend's ledger twice.
COROLLARY OneApplicationCorrect ==
  ASSUME ~Overlap, ~Detached
  PROVE  Spec => []OneApplicationPerBatch
<1>1. SerialInv => OneApplicationPerBatch
  BY DEF SerialInv, TableInv
<1> QED
  BY <1>1, SerialCorrect, PTL

\* A retirement takes two proposals of two batches.
COROLLARY TwoCycleCorrect ==
  ASSUME ~Overlap, ~Detached
  PROVE  Spec => []TwoCycleRetirement
<1>1. SerialInv => TwoCycleRetirement
  BY DEF SerialInv, TableInv
<1> QED
  BY <1>1, SerialCorrect, PTL

\* At most one batch row is SUBMITTED.
COROLLARY AtMostOneCorrect ==
  ASSUME ~Overlap, ~Detached
  PROVE  Spec => []AtMostOneSubmitted
<1>1. SerialInv => AtMostOneSubmitted
  BY DEF SerialInv, TableInv
<1> QED
  BY <1>1, SerialCorrect, PTL

\* A closed batch leaves each of its trends evaluated or due.
COROLLARY NoTrendLostCorrect ==
  ASSUME ~Overlap, ~Detached
  PROVE  Spec => []ClosedBatchLosesNoTrend
<1>1. TypeOK /\ SerialInv => ClosedBatchLosesNoTrend
  <2> SUFFICES ASSUME TypeOK, SerialInv, NEW b \in Batches, state[b] \in Closed
               PROVE  trendIds[b] \subseteq due \cup AlreadyApplied(b)
    BY DEF ClosedBatchLosesNoTrend
  <2>1. state[b] # "none"
    BY DEF Closed
  <2> QED
    BY <2>1 DEF SerialInv, TableInv, NoTrendLost
<1> QED
  BY <1>1, TypeCorrect, SerialCorrect, PTL

\* Only an applied decision or a revival changes the ledger.
LEMMA LedgerSteps ==
  ASSUME [Next]_vars, ledger' # ledger
  PROVE  \E t \in Trends : MarkResurgent(t) \/ \E e \in Executions : ApplyDecision(e, t)
BY DEF Next, vars, Start, Tick, Crash, PollWaiting, PollLate, PollEnded, CancelBatch,
       Collect, ApplyReturns, UpdateState, InsertCost, ReadDue, NothingToSubmit,
       SubmitBatch, InsertBatch, DropDecision, GeminiEnds, BatchAges, BecomesDue,
       MarkResurgent, tables, batchRow

\* A decision is only ever applied to a trend that is not retired.
LEMMA AppliesToLiving ==
  ASSUME TypeOK, SerialInv, NEW e \in Executions, NEW t \in Trends, ApplyDecision(e, t)
  PROVE  Latest(t).status # "RETIRED"
<1> DEFINE b == held[e]
<1>1. Submitted = {b} /\ t \in trendIds[b] /\ t \notin AlreadyApplied(b)
  BY Applied
<1> QED
  BY <1>1 DEF SerialInv, TableInv, NoRetiredInFlight

\* No batch evaluates a retired trend.
COROLLARY RetiredIsFinalCorrect ==
  ASSUME ~Overlap, ~Detached
  PROVE  Spec => RetiredIsFinal
<1> DEFINE Final == \A t \in Trends :
             Latest(t).status = "RETIRED" /\ ledger'[t] # ledger[t] =>
               Latest(t)'.batch = NoBatch /\ ~Latest(t)'.proposal
<1>1. TypeOK /\ SerialInv /\ [Next]_vars => [Final]_vars
  <2> SUFFICES ASSUME TypeOK, SerialInv, [Next]_vars, NEW t \in Trends,
                      Latest(t).status = "RETIRED", ledger'[t] # ledger[t]
               PROVE  Latest(t)'.batch = NoBatch /\ ~Latest(t)'.proposal
    OBVIOUS
  <2>1. PICK u \in Trends : MarkResurgent(u) \/ \E e \in Executions : ApplyDecision(e, u)
    BY LedgerSteps
  <2>2. CASE MarkResurgent(u)
    <3>1. u = t
      BY <2>2, Revived
    <3> QED
      BY <2>2, <3>1, Revived DEF Latest
  <2>3. ASSUME NEW e \in Executions, ApplyDecision(e, u) PROVE FALSE
    <3>1. u # t
      BY <2>3, AppliesToLiving
    <3> QED
      BY <2>3, <3>1 DEF ApplyDecision, TypeOK, TableTypes
  <2> QED
    BY <2>1, <2>2, <2>3
<1> QED
  BY <1>1, TypeCorrect, SerialCorrect, PTL DEF Spec, RetiredIsFinal

\* A batch row is closed once and costed once.
COROLLARY ClosesOnceCorrect ==
  ASSUME ~Overlap, ~Detached
  PROVE  Spec => BatchClosesOnce
<1> DEFINE Once == \A b \in Batches :
             /\ state[b] \in Closed => state'[b] = state[b]
             /\ cost'[b] # cost[b] => state[b] \in Closed /\ cost[b] = 0
<1>1. TypeOK /\ SerialInv /\ [Next]_vars => [Once]_vars
  <2> SUFFICES ASSUME TypeOK, SerialInv, [Next]_vars PROVE Once
    OBVIOUS
  <2>1. CASE UNCHANGED <<state, cost>>
    BY <2>1
  <2>2. ASSUME NEW e \in Executions, UpdateState(e) PROVE Once
    <3>1. held[e] \in Batches /\ state[held[e]] \notin Closed
      BY <2>2 DEF UpdateState, SerialInv, ExecutionInv, Knows, Closed, TypeOK, ExecutionTypes
    <3> QED
      BY <2>2, <3>1 DEF UpdateState, TypeOK, TableTypes
  <2>3. ASSUME NEW e \in Executions, InsertBatch(e) PROVE Once
    <3>1. held[e] \in Batches /\ state[held[e]] \notin Closed
      BY <2>3 DEF InsertBatch, SerialInv, ExecutionInv, Knows, Closed, TypeOK, ExecutionTypes
    <3> QED
      BY <2>3, <3>1 DEF InsertBatch, TypeOK, TableTypes
  <2>4. ASSUME NEW e \in Executions, InsertCost(e) PROVE Once
    <3>1. held[e] \in Batches /\ state[held[e]] \in Closed
      BY <2>4 DEF InsertCost, SerialInv, ExecutionInv, Knows, TypeOK, ExecutionTypes
    <3> QED
      BY <2>4, <3>1 DEF InsertCost, batchRow, TypeOK, TableTypes
  <2>5. UNCHANGED <<state, cost>>
        \/ \E e \in Executions : UpdateState(e) \/ InsertBatch(e) \/ InsertCost(e)
    BY DEF Next, vars, Start, Tick, Crash, PollWaiting, PollLate, PollEnded, CancelBatch,
           Collect, ApplyReturns, ReadDue, NothingToSubmit, SubmitBatch, ApplyDecision,
           DropDecision, GeminiEnds, BatchAges, BecomesDue, MarkResurgent, tables, batchRow
  <2> QED
    BY <2>1, <2>2, <2>3, <2>4, <2>5
<1> QED
  BY <1>1, TypeCorrect, SerialCorrect, PTL DEF Spec, BatchClosesOnce

----------------------------------------------------------------------------
(* Refinement of TrendEvaluation. *)

\* Every trend starts unevaluated, with or without an old proposal.
LEMMA InitImplements == Init => Abstract!Init
<1> SUFFICES ASSUME Init PROVE Abstract!Init
  OBVIOUS
<1>1. ASSUME NEW t \in Trends
      PROVE  StandingOf(t) \in {"active", "proposed"} /\ EvaluatedBy(t) = {}
  <2>1. ledger[t] = <<Seed>> \/ ledger[t] = <<Seed, OldProposal>>
    <3>1. ledger \in [Trends -> {<<Seed>>, <<Seed, OldProposal>>}]
      BY DEF Init
    <3> QED
      BY <3>1
  <2>2. CASE ledger[t] = <<Seed>>
    BY <2>2 DEF StandingOf, EvaluatedBy, Latest, Seed
  <2>3. CASE ledger[t] = <<Seed, OldProposal>>
    BY <2>3 DEF StandingOf, EvaluatedBy, Latest, Seed, OldProposal
  <2> QED
    BY <2>1, <2>2, <2>3
<1> QED
  BY <1>1 DEF Abstract!Init

\* An applied decision is one evaluation by the batch its execution holds.
LEMMA ApplyImplements ==
  ASSUME TypeOK, SerialInv, NEW e \in Executions, NEW t \in Trends, ApplyDecision(e, t)
  PROVE  Abstract!Next
<1> DEFINE b == held[e]
           n == Len(ledger[t])
           retire == (decided[e][t] = "retire")
           old == Latest(t)
           new == AppliedRow(t, decided[e][t], b)
<1>1. /\ b \in Batches
      /\ n \in Nat \ {0} /\ Len(ledger'[t]) = n + 1
      /\ \A i \in 1..n : ledger'[t][i] = ledger[t][i] /\ ledger[t][i].batch # b
      /\ ledger'[t][n+1] = new /\ new.batch = b
      /\ \A u \in Trends \ {t} : ledger'[u] = ledger[u]
  BY Applied
<1>2. old.status # "RETIRED"
  BY AppliesToLiving
<1>3. new.proposal = retire
      /\ (new.status = "RETIRED" <=> retire /\ old.proposal)
  BY <1>2 DEF AppliedRow
<1>4. Latest(t)' = new /\ \A u \in Trends \ {t} : Latest(u)' = Latest(u)
  BY <1>1 DEF Latest
<1> HIDE DEF b, retire, old, new, n
<1>5. StandingOf(t) # "retired" /\ (StandingOf(t) = "proposed" <=> old.proposal)
  BY <1>2 DEF StandingOf, old
<1>6. StandingOf(t)' = IF ~retire THEN "active"
                       ELSE IF StandingOf(t) = "proposed" THEN "retired" ELSE "proposed"
  BY <1>3, <1>4, <1>5 DEF StandingOf
<1>7. b \notin EvaluatedBy(t)
  BY <1>1 DEF EvaluatedBy, n
<1>8. EvaluatedBy(t)' = EvaluatedBy(t) \cup {b}
  <2>1. 1..(n+1) = (1..n) \cup {n+1}
    BY <1>1
  <2>2. {ledger'[t][i].batch : i \in 1..(n+1)} = {ledger[t][i].batch : i \in 1..n} \cup {b}
    BY <1>1, <2>1
  <2> QED
    BY <1>1, <2>2, NoBatchAssumption DEF EvaluatedBy, n
<1>9. \A u \in Trends \ {t} :
        StandingOf(u)' = StandingOf(u) /\ EvaluatedBy(u)' = EvaluatedBy(u)
  BY <1>1, <1>4 DEF StandingOf, EvaluatedBy
<1>10. Abstract!Evaluate(t, b, retire)
  BY <1>5, <1>6, <1>7, <1>8, <1>9 DEF Abstract!Evaluate
<1> QED
  BY <1>1, <1>10 DEF Abstract!Next, retire

\* A resurgent row is one revival.
LEMMA ReviveImplements ==
  ASSUME TypeOK, SerialInv, NEW t \in Trends, MarkResurgent(t)
  PROVE  Abstract!Next
<1> DEFINE n == Len(ledger[t])
           new == [Seed EXCEPT !.at = clock]
<1>1. /\ n \in Nat \ {0} /\ Len(ledger'[t]) = n + 1
      /\ \A i \in 1..n : ledger'[t][i] = ledger[t][i]
      /\ ledger'[t][n+1] = new /\ new.batch = NoBatch
      /\ new.status = "ACTIVE" /\ new.proposal = FALSE
      /\ \A u \in Trends \ {t} : ledger'[u] = ledger[u]
  BY Revived
<1>2. Latest(t).status = "RETIRED"
  BY DEF MarkResurgent
<1>3. Latest(t)' = new /\ \A u \in Trends \ {t} : Latest(u)' = Latest(u)
  BY <1>1 DEF Latest
<1> HIDE DEF n, new
<1>4. StandingOf(t) = "retired" /\ StandingOf(t)' = "active"
  BY <1>1, <1>2, <1>3 DEF StandingOf
<1>5. EvaluatedBy(t)' = EvaluatedBy(t)
  <2>1. 1..(n+1) = (1..n) \cup {n+1}
    BY <1>1
  <2>2. {ledger'[t][i].batch : i \in 1..(n+1)} = {ledger[t][i].batch : i \in 1..n} \cup {NoBatch}
    BY <1>1, <2>1
  <2> QED
    BY <1>1, <2>2 DEF EvaluatedBy, n
<1>6. \A u \in Trends \ {t} :
        StandingOf(u)' = StandingOf(u) /\ EvaluatedBy(u)' = EvaluatedBy(u)
  BY <1>1, <1>3 DEF StandingOf, EvaluatedBy
<1>7. Abstract!Revive(t)
  BY <1>4, <1>5, <1>6 DEF Abstract!Revive
<1> QED
  BY <1>7 DEF Abstract!Next

\* The tick implements the abstract evaluation: one evaluation per batch, two
\* cycles to retire, none after a retirement until a revival.
THEOREM Implementation ==
  ASSUME ~Overlap, ~Detached
  PROVE  Spec => ImplementsEvaluation
<1>1. TypeOK /\ SerialInv /\ [Next]_vars => [Abstract!Next]_(Abstract!vars)
  <2> SUFFICES ASSUME TypeOK, SerialInv, [Next]_vars
               PROVE  [Abstract!Next]_(Abstract!vars)
    OBVIOUS
  <2>1. CASE ledger' = ledger
    BY <2>1 DEF Abstract!vars, StandingOf, EvaluatedBy, Latest
  <2>2. CASE ledger' # ledger
    BY <2>2, LedgerSteps, ApplyImplements, ReviveImplements
  <2> QED
    BY <2>1, <2>2
<1> QED
  BY <1>1, InitImplements, TypeCorrect, SerialCorrect, PTL
  DEF Spec, ImplementsEvaluation, Abstract!Spec
=============================================================================

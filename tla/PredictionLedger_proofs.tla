----------------------- MODULE PredictionLedger_proofs -----------------------
(***************************************************************************)
(* Proofs about the verdict ledger of the prediction service, for every    *)
(* number of requests, calls and claims: types and one row per evaluation  *)
(* for every overlap of requests, that a final row stays the last of its   *)
(* call while requests follow one another, and that a chain is minted anew *)
(* only after its call has closed unless requests of different chains      *)
(* overlap.                                                                *)
(***************************************************************************)
EXTENDS PredictionLedger, TLAPS

\* Every call in the ledger has a latest row (the ledger is finite; the fact is
\* carried along as an invariant).
HasLatest ==
  \A p \in Minted : \E i \in Positions :
    /\ ledger[i].prediction = p
    /\ \A j \in Positions : ledger[j].prediction = p => ledger[j].at <= ledger[i].at

\* Latest picks a row of the call whose moment is the latest.
LEMMA LatestRow ==
  ASSUME TypeOK, HasLatest, NEW p \in Minted
  PROVE  /\ \E i \in Positions : Latest(p) = ledger[i]
         /\ Latest(p) \in Row
         /\ Latest(p).prediction = p
         /\ \A j \in Positions : ledger[j].prediction = p => ledger[j].at <= Latest(p).at
<1>1. PICK i \in Positions :
        /\ ledger[i].prediction = p
        /\ \A j \in Positions : ledger[j].prediction = p => ledger[j].at <= ledger[i].at
  BY DEF HasLatest
<1>2. ledger[i] \in RowsOf(p) /\ \A other \in RowsOf(p) : other.at <= ledger[i].at
  BY <1>1 DEF RowsOf, Positions
<1>3. Latest(p) \in RowsOf(p) /\ \A other \in RowsOf(p) : other.at <= Latest(p).at
  BY <1>2 DEF Latest
<1>4. \A row \in RowsOf(p) : row.prediction = p /\ \E k \in Positions : row = ledger[k]
  BY DEF RowsOf, Positions
<1>5. \A k \in Positions : ledger[k] \in Row
  BY DEF TypeOK, Positions
<1>6. \A j \in Positions : ledger[j].prediction = p => ledger[j] \in RowsOf(p)
  BY DEF RowsOf, Positions
<1> QED
  BY <1>3, <1>4, <1>5, <1>6

\* What a restated row carries over, and what is its own.
LEMMA RestateFields ==
  ASSUME NEW r \in Requests, NEW p \in Predictions, NEW phase \in {"sweep", "match"},
         Latest(p) \in Row, chain[r] \in Chains, at[r] \in Nat
  PROVE  /\ Restate(r, p, phase) \in Row
         /\ Restate(r, p, phase).id = <<phase, chain[r], p>>
         /\ Restate(r, p, phase).chain = chain[r]
         /\ Restate(r, p, phase).at = at[r]
         /\ Restate(r, p, phase).prediction = Latest(p).prediction
         /\ Restate(r, p, phase).claim = Latest(p).claim
         /\ Restate(r, p, phase).horizon = Latest(p).horizon
         /\ Restate(r, p, phase).status = Latest(p).status
         /\ Restate(r, p, phase).final = Latest(p).final
         /\ Restate(r, p, phase).reading = Latest(p).reading
<1> DEFINE row == Latest(p)
           new == Restate(r, p, phase)
<1> HIDE DEF row
<1>1. new = [row EXCEPT !.id = <<phase, chain[r], p>>, !.chain = chain[r],
                        !.at = at[r], !.prior = row.at]
  BY DEF row, Restate
<1>2. <<phase, chain[r], p>> \in ({"sweep", "match"} \X Chains \X Predictions)
                                   \cup ({"mint", "run"} \X Chains \X Claims)
  OBVIOUS
<1>3. row \in Row
  BY DEF row
<1>4. row.at \in Nat
  BY <1>3 DEF Row
<1>5. new \in Row
  BY <1>1, <1>2, <1>3, <1>4 DEF Row
<1>6. /\ new.id = <<phase, chain[r], p>>
      /\ new.chain = chain[r]
      /\ new.at = at[r]
      /\ new.prediction = row.prediction
      /\ new.claim = row.claim
      /\ new.horizon = row.horizon
      /\ new.status = row.status
      /\ new.final = row.final
      /\ new.reading = row.reading
  BY <1>1, <1>3 DEF Row
<1> QED
  BY <1>5, <1>6 DEF row

LEMMA SweepFields ==
  ASSUME NEW r \in Requests, NEW p \in Predictions, NEW settled \in BOOLEAN,
         NEW looked \in BOOLEAN,
         Latest(p) \in Row, chain[r] \in Chains, at[r] \in Nat
  PROVE  /\ SweepRow(r, p, settled, looked) \in Row
         /\ SweepRow(r, p, settled, looked).id = <<"sweep", chain[r], p>>
         /\ SweepRow(r, p, settled, looked).chain = chain[r]
         /\ SweepRow(r, p, settled, looked).at = at[r]
         /\ SweepRow(r, p, settled, looked).prediction = Latest(p).prediction
         /\ SweepRow(r, p, settled, looked).claim = Latest(p).claim
         /\ SweepRow(r, p, settled, looked).horizon = Latest(p).horizon
         /\ SweepRow(r, p, settled, looked).status = NextStatus(Latest(p), settled)
         /\ SweepRow(r, p, settled, looked).final = IsFinal(Latest(p), settled)
         /\ Latest(p).reading => SweepRow(r, p, settled, looked).reading
<1> DEFINE row == Latest(p)
           old == Restate(r, p, "sweep")
           new == SweepRow(r, p, settled, looked)
           s == NextStatus(row, settled)
           f == IsFinal(row, settled)
<1>1. /\ old \in Row
      /\ old.id = <<"sweep", chain[r], p>>
      /\ old.chain = chain[r]
      /\ old.at = at[r]
      /\ old.prediction = row.prediction
      /\ old.claim = row.claim
      /\ old.horizon = row.horizon
      /\ old.reading = row.reading
  BY RestateFields
<1>2. new = [old EXCEPT !.status = s, !.final = f, !.reading = old.reading \/ looked]
  BY DEF SweepRow
<1>3. s \in Status /\ f \in BOOLEAN
  BY DEF NextStatus, IsFinal, Status
<1>4. row.reading \in BOOLEAN /\ old.reading \in BOOLEAN /\ (old.reading \/ looked) \in BOOLEAN
  BY <1>1 DEF Row
<1> HIDE DEF row, old, new, s, f
<1>5. new \in Row
  BY <1>1, <1>2, <1>3, <1>4 DEF Row
<1>6. /\ new.id = old.id
      /\ new.chain = old.chain
      /\ new.at = old.at
      /\ new.prediction = old.prediction
      /\ new.claim = old.claim
      /\ new.horizon = old.horizon
      /\ new.status = s
      /\ new.final = f
      /\ new.reading = (old.reading \/ looked)
  BY <1>1, <1>2 DEF Row
<1>7. row.reading => new.reading
  BY <1>1, <1>4, <1>6
<1> QED
  BY <1>1, <1>5, <1>6, <1>7 DEF row, new, s, f

\* A MERGE leaves the ledger alone or adds the row at its end.
LEMMA MergeEffect ==
  ASSUME TypeOK, NEW row \in Row, Merge(row)
  PROVE  \/ Recorded(row.id) /\ ledger' = ledger
         \/ /\ ~Recorded(row.id)
            /\ ledger' \in Seq(Row)
            /\ \E n : /\ n \notin Positions
                      /\ Positions' = Positions \cup {n}
                      /\ ledger'[n] = row
                      /\ \A i \in Positions : ledger'[i] = ledger[i]
<1>1. CASE Recorded(row.id)
  BY <1>1 DEF Merge
<1>2. CASE ~Recorded(row.id)
  <2>1. ledger' = Append(ledger, row) /\ ledger \in Seq(Row)
    BY <1>2 DEF Merge, TypeOK
  <2>2. /\ Len(ledger) \in Nat
        /\ Positions = 1..Len(ledger)
        /\ Positions' = 1..(Len(ledger) + 1)
        /\ ledger' \in Seq(Row)
        /\ ledger'[Len(ledger) + 1] = row
        /\ \A i \in 1..Len(ledger) : ledger'[i] = ledger[i]
    BY <2>1 DEF Positions
  <2>3. Len(ledger) + 1 \notin Positions /\ Positions' = Positions \cup {Len(ledger) + 1}
    BY <2>2
  <2> QED
    BY <1>2, <2>2, <2>3
<1> QED
  BY <1>1, <1>2

----------------------------------------------------------------------------
(* Types. *)

\* The calls a page holds have been minted.
LEMMA PageMinted ==
  /\ \A scope : Selected(scope) \subseteq Minted \cap scope
  /\ \A p \in Page(Live({"ACTIVE"})) : p \in Minted /\ Latest(p).status = "ACTIVE"
  /\ \A scope : \A p \in Selected(scope) : IsReevaluable(Latest(p))
BY DEF Selected, Page, Live

LEMMA MintedPredictions ==
  ASSUME TypeOK
  PROVE  Minted \subseteq Predictions
<1>1. \A i \in DOMAIN ledger : ledger[i] \in Row
  BY DEF TypeOK
<1> QED
  BY <1>1 DEF Minted, Row

\* What the sweep and the compare step compose are rows.
LEMMA SweepType ==
  ASSUME TypeOK, HasLatest, NEW r \in Requests, Sweep(r)
  PROVE  todo'[r] \in SUBSET Row /\ todo' = [todo EXCEPT ![r] = todo'[r]]
<1>1. PICK scope \in IF chain[r] \in Manual THEN SUBSET Predictions \ {{}} ELSE {Predictions} :
      \E settled \in SUBSET Selected(scope) : \E looked \in SUBSET Selected(scope) :
        todo' = [todo EXCEPT ![r] =
                  {SweepRow(r, p, p \in settled, p \in looked) : p \in Selected(scope)}]
  BY DEF Sweep
<1>2. PICK settled \in SUBSET Selected(scope), looked \in SUBSET Selected(scope) :
        todo' = [todo EXCEPT ![r] =
                  {SweepRow(r, p, p \in settled, p \in looked) : p \in Selected(scope)}]
  BY <1>1
<1>3. ASSUME NEW p \in Selected(scope)
      PROVE  SweepRow(r, p, p \in settled, p \in looked) \in Row
  <2>1. p \in Minted /\ p \in Predictions
    BY <1>3, PageMinted, MintedPredictions
  <2>2. Latest(p) \in Row
    BY <2>1, LatestRow
  <2>3. chain[r] \in Chains /\ at[r] \in Nat
    BY DEF TypeOK
  <2> DEFINE s == p \in settled
             l == p \in looked
  <2>4. s \in BOOLEAN /\ l \in BOOLEAN
    OBVIOUS
  <2> HIDE DEF s, l
  <2>5. SweepRow(r, p, s, l) \in Row
    BY <2>1, <2>2, <2>3, <2>4, SweepFields
  <2> QED
    BY <2>5 DEF s, l
<1>4. todo \in [Requests -> SUBSET Row]
  BY DEF TypeOK
<1> QED
  BY <1>2, <1>3, <1>4

LEMMA MatchType ==
  ASSUME TypeOK, HasLatest, NEW r \in Requests, Match(r)
  PROVE  todo'[r] \in SUBSET Row /\ todo' = [todo EXCEPT ![r] = todo'[r]]
<1>1. ASSUME NEW p \in Page(Live({"ACTIVE"}))
      PROVE  Restate(r, p, "match") \in Row
  <2>1. p \in Minted /\ p \in Predictions
    BY <1>1, PageMinted, MintedPredictions
  <2>2. Latest(p) \in Row
    BY <2>1, LatestRow
  <2>3. chain[r] \in Chains /\ at[r] \in Nat
    BY DEF TypeOK
  <2> QED
    BY <2>1, <2>2, <2>3, RestateFields
<1>2. todo \in [Requests -> SUBSET Row]
  BY DEF TypeOK
<1> QED
  BY <1>1, <1>2 DEF Match

LEMMA MintFields ==
  ASSUME TypeOK, NEW r \in Requests, NEW phase \in {"mint", "run"}, NEW c \in Claims,
         NEW p \in Predictions, NEW looked \in BOOLEAN
  PROVE  MintRow(r, phase, c, p, looked) \in Row
<1>1. /\ <<phase, chain[r], c>> \in ({"sweep", "match"} \X Chains \X Predictions)
                                     \cup ({"mint", "run"} \X Chains \X Claims)
      /\ chain[r] \in Chains
      /\ clock + 1 \in Nat
      /\ day + HorizonDays \in Nat
      /\ "ACTIVE" \in Status
  BY HorizonAssumption, BoundsAssumption DEF TypeOK, Status
<1> QED
  BY <1>1 DEF MintRow, Row

LEMMA GenerateType ==
  ASSUME TypeOK, NEW r \in Requests, Generate(r)
  PROVE  todo'[r] \in SUBSET Row /\ todo' = [todo EXCEPT ![r] = todo'[r]]
<1> DEFINE phase == IF job[r] = "run" THEN "run" ELSE "mint"
<1>1. PICK claims \in SUBSET {c \in Claims : job[r] = "run" \/ Subject[c] \notin LiveSubjects} :
        \E ids \in [claims -> Unused], looked \in SUBSET claims :
        todo' = [todo EXCEPT ![r] =
                  {MintRow(r, phase, c, ids[c], c \in looked) : c \in claims}]
  BY DEF Generate
<1>2. PICK ids \in [claims -> Unused], looked \in SUBSET claims :
        todo' = [todo EXCEPT ![r] =
                  {MintRow(r, phase, c, ids[c], c \in looked) : c \in claims}]
  BY <1>1
<1>3. ASSUME NEW c \in claims
      PROVE  MintRow(r, phase, c, ids[c], c \in looked) \in Row
  <2>1. c \in Claims /\ ids[c] \in Predictions /\ phase \in {"mint", "run"}
    BY DEF Unused
  <2> DEFINE l == c \in looked
  <2>2. l \in BOOLEAN
    OBVIOUS
  <2> HIDE DEF l, phase
  <2>3. MintRow(r, phase, c, ids[c], l) \in Row
    BY <2>1, <2>2, MintFields
  <2> QED
    BY <2>3 DEF l
<1>4. todo \in [Requests -> SUBSET Row]
  BY DEF TypeOK
<1> QED
  BY <1>2, <1>3, <1>4

\* A row that is written keeps the types, and every call its latest row.
LEMMA MergeType ==
  ASSUME TypeOK, HasLatest, NEW row \in Row, Merge(row)
  PROVE  ledger' \in Seq(Row) /\ HasLatest'
<1>1. CASE Recorded(row.id) /\ ledger' = ledger
  BY <1>1 DEF TypeOK, HasLatest, Minted, Positions
<1>2. CASE /\ ledger' \in Seq(Row)
           /\ \E n : /\ n \notin Positions
                     /\ Positions' = Positions \cup {n}
                     /\ ledger'[n] = row
                     /\ \A i \in Positions : ledger'[i] = ledger[i]
  <2>1. PICK n : /\ n \notin Positions
                 /\ Positions' = Positions \cup {n}
                 /\ ledger'[n] = row
                 /\ \A i \in Positions : ledger'[i] = ledger[i]
    BY <1>2
  <2>0. \A i \in Positions : ledger[i] \in Row
    BY DEF TypeOK, Positions
  <2>2. \A i \in Positions : ledger[i].at \in Nat
    BY <2>0 DEF Row
  <2>3. row.at \in Nat
    BY DEF Row
  <2>4. ASSUME NEW p \in Minted'
        PROVE  \E i \in Positions' :
                 /\ ledger'[i].prediction = p
                 /\ \A j \in Positions' : ledger'[j].prediction = p => ledger'[j].at <= ledger'[i].at
    <3>1. PICK k \in Positions' : ledger'[k].prediction = p
      BY <2>4 DEF Minted, Positions
    <3>2. CASE p \notin Minted
      <4>1. \A j \in Positions : ledger[j].prediction # p
        BY <3>2 DEF Minted, Positions
      <4>2. row.prediction = p
        BY <2>1, <3>1, <4>1
      <4> QED
        BY <2>1, <2>3, <4>1, <4>2
    <3>3. CASE p \in Minted
      <4>1. PICK i \in Positions :
              /\ ledger[i].prediction = p
              /\ \A j \in Positions : ledger[j].prediction = p => ledger[j].at <= ledger[i].at
        BY <3>3 DEF HasLatest
      <4>2. CASE row.prediction = p /\ row.at > ledger[i].at
        BY <2>1, <2>2, <2>3, <4>1, <4>2
      <4>3. CASE ~(row.prediction = p /\ row.at > ledger[i].at)
        BY <2>1, <2>2, <2>3, <4>1, <4>3
      <4> QED
        BY <4>2, <4>3
    <3> QED
      BY <3>2, <3>3
  <2> QED
    BY <1>2, <2>4 DEF HasLatest
<1> QED
  BY <1>1, <1>2, MergeEffect

LEMMA LedgerKept ==
  ASSUME HasLatest, UNCHANGED ledger
  PROVE  HasLatest'
BY DEF HasLatest, Minted, Positions

LEMMA FireType ==
  ASSUME TypeOK, NEW r \in Requests, NEW route \in {"sweep", "match", "generate", "run"},
         NEW first \in {"sweep", "match", "generate"}, NEW c \in Chains, Fire(r, route, first, c)
  PROVE  /\ ledger' \in Seq(Row)
         /\ pc' \in [Requests -> {"idle", "sweep", "match", "write", "generate", "mint"}]
         /\ job' \in [Requests -> {"sweep", "match", "generate", "run"}]
         /\ chain' \in [Requests -> Chains]
         /\ at' \in [Requests -> Nat]
         /\ todo' \in [Requests -> SUBSET Row]
         /\ day' \in 0..LastDay
         /\ clock' \in Nat
         /\ overlapped' \in BOOLEAN
         /\ UNCHANGED ledger
BY DEF TypeOK, Fire

LEMMA AnswerType ==
  ASSUME TypeOK, NEW r \in Requests, NEW ok \in BOOLEAN, Answer(r, ok)
  PROVE  /\ pc' \in [Requests -> {"idle", "sweep", "match", "write", "generate", "mint"}]
         /\ job' \in [Requests -> {"sweep", "match", "generate", "run"}]
         /\ chain' \in [Requests -> Chains]
         /\ at' \in [Requests -> Nat]
         /\ todo' \in [Requests -> SUBSET Row]
         /\ awaits' \in Requests \cup {"due", "done"}
<1>1. 0 \in Chains
  BY BoundsAssumption DEF Chains
<1> QED
  BY <1>1 DEF TypeOK, Answer

\* All variables have their types, whatever requests overlap.
THEOREM TypeCorrect == Spec => [](TypeOK /\ HasLatest)
<1>1. Init => TypeOK /\ HasLatest
  <2> SUFFICES ASSUME Init PROVE TypeOK /\ HasLatest
    OBVIOUS
  <2>1. 0 \in Chains /\ 0 \in 0..LastDay /\ 0 \in 0..Attempts /\ 0 \in 0..Faults /\ 0 \in 0..ByHand
    BY BoundsAssumption DEF Chains
  <2>2. ledger \in Seq(Row) /\ clock \in Nat /\ at \in [Requests -> Nat]
    BY DEF Init
  <2>4. TypeOK
    BY <2>1, <2>2 DEF Init, TypeOK
  <2>3. HasLatest
    BY DEF Init, HasLatest, Minted, Positions
  <2> QED
    BY <2>4, <2>3
<1>2. TypeOK /\ HasLatest /\ [Next]_vars => TypeOK' /\ HasLatest'
  <2> SUFFICES ASSUME TypeOK, HasLatest, [Next]_vars PROVE TypeOK' /\ HasLatest'
    OBVIOUS
  <2>1. ASSUME NEW r \in Requests, Schedule(r) PROVE TypeOK' /\ HasLatest'
    <3>1. day \in Chains /\ Fire(r, "sweep", "sweep", day)
      BY <2>1 DEF Schedule, TypeOK, Chains
    <3>2. attempts' \in 0..Attempts /\ faults' \in 0..Faults /\ fired' \in 0..ByHand
          /\ awaits' \in Requests \cup {"due", "done"}
      BY <2>1, BoundsAssumption DEF Schedule, TypeOK
    <3> QED
      BY <3>1, <3>2, FireType, LedgerKept DEF TypeOK
  <2>2. ASSUME NEW r \in Requests, FireByHand(r) PROVE TypeOK' /\ HasLatest'
    <3>1. PICK route \in Routes, c \in Manual :
            Fire(r, route, IF route = "run" THEN "generate" ELSE route, c)
      BY <2>2 DEF FireByHand
    <3>2. c \in Chains /\ (IF route = "run" THEN "generate" ELSE route) \in {"sweep", "match", "generate"}
      BY DEF Routes, Chains
    <3>3. fired' \in 0..ByHand
      BY <2>2, BoundsAssumption DEF FireByHand, TypeOK
    <3>4. UNCHANGED <<awaits, attempts, faults>>
      BY <2>2 DEF FireByHand
    <3> QED
      BY <3>1, <3>2, <3>3, <3>4, FireType, LedgerKept DEF TypeOK, Routes
  <2>3. ASSUME NEW r \in Requests, Sweep(r) PROVE TypeOK' /\ HasLatest'
    <3>1. todo' \in [Requests -> SUBSET Row]
      BY <2>3, SweepType DEF TypeOK
    <3> QED
      BY <2>3, <3>1, LedgerKept DEF TypeOK, Sweep
  <2>4. ASSUME NEW r \in Requests, Match(r) PROVE TypeOK' /\ HasLatest'
    <3>1. todo' \in [Requests -> SUBSET Row]
      BY <2>4, MatchType DEF TypeOK
    <3> QED
      BY <2>4, <3>1, LedgerKept DEF TypeOK, Match
  <2>5. ASSUME NEW r \in Requests, Generate(r) PROVE TypeOK' /\ HasLatest'
    <3>1. todo' \in [Requests -> SUBSET Row]
      BY <2>5, GenerateType DEF TypeOK
    <3> QED
      BY <2>5, <3>1, LedgerKept DEF TypeOK, Generate
  <2>6. ASSUME NEW r \in Requests, Write(r) PROVE TypeOK' /\ HasLatest'
    <3>1. PICK row \in First(todo[r]) : Merge(row) /\ todo' = [todo EXCEPT ![r] = @ \ {row}]
      BY <2>6 DEF Write
    <3>2. row \in Row
      BY <3>1 DEF First, TypeOK
    <3>3. ledger' \in Seq(Row) /\ HasLatest'
      BY <3>1, <3>2, MergeType
    <3>4. todo' \in [Requests -> SUBSET Row]
      BY <3>1 DEF TypeOK
    <3> QED
      BY <2>6, <3>3, <3>4 DEF TypeOK, Write
  <2>7. ASSUME NEW r \in Requests, Written(r) PROVE TypeOK' /\ HasLatest'
    <3>1. UNCHANGED <<ledger, day, clock, attempts, faults, fired, overlapped>>
      BY <2>7 DEF Written
    <3>2. CASE pc' = [pc EXCEPT ![r] = "generate"] /\ UNCHANGED <<job, chain, at, todo, awaits>>
      BY <3>1, <3>2, LedgerKept DEF TypeOK
    <3>3. CASE Answer(r, TRUE)
      BY <3>1, <3>3, AnswerType, LedgerKept DEF TypeOK
    <3> QED
      BY <2>7, <3>2, <3>3 DEF Written
  <2>8. ASSUME NEW r \in Requests, LoseResponse(r) PROVE TypeOK' /\ HasLatest'
    <3>1. PICK row \in First(todo[r]) : Merge(row)
      BY <2>8 DEF LoseResponse
    <3>2. row \in Row
      BY <3>1 DEF First, TypeOK
    <3> QED
      BY <2>8, <3>1, <3>2, MergeType DEF TypeOK, LoseResponse, requestVars
  <2>9. ASSUME NEW r \in Requests, GenerationFails(r) PROVE TypeOK' /\ HasLatest'
    <3>1. faults' \in 0..Faults
      BY <2>9, BoundsAssumption DEF GenerationFails, TypeOK
    <3> QED
      BY <2>9, <3>1, AnswerType, LedgerKept DEF TypeOK, GenerationFails
  <2>10. ASSUME NEW r \in Requests, Fail(r) PROVE TypeOK' /\ HasLatest'
    <3>1. faults' \in 0..Faults
      BY <2>10, BoundsAssumption DEF Fail, TypeOK
    <3> QED
      BY <2>10, <3>1, AnswerType, LedgerKept DEF TypeOK, Fail
  <2>11. CASE NextDay
    <3>1. day' \in 0..LastDay /\ attempts' \in 0..Attempts
      BY <2>11, BoundsAssumption DEF NextDay, TypeOK
    <3> QED
      BY <2>11, <3>1, LedgerKept DEF TypeOK, NextDay
  <2>12. CASE UNCHANGED vars
    BY <2>12, LedgerKept DEF TypeOK, vars
  <2> QED
    BY <2>1, <2>2, <2>3, <2>4, <2>5, <2>6, <2>7, <2>8, <2>9, <2>10, <2>11, <2>12 DEF Next, Serve
<1> QED
  BY <1>1, <1>2, PTL DEF Spec

----------------------------------------------------------------------------
(* One row per evaluation. *)

\* One evaluation leaves one row, whatever overlaps, is retried or fails.
THEOREM EvaluatedOnce == Spec => []OneRowPerEvaluation
<1>1. Init => OneRowPerEvaluation
  BY DEF Init, OneRowPerEvaluation, Positions
<1>2. TypeOK /\ OneRowPerEvaluation /\ [Next]_vars => OneRowPerEvaluation'
  <2> SUFFICES ASSUME TypeOK, OneRowPerEvaluation, [Next]_vars PROVE OneRowPerEvaluation'
    OBVIOUS
  <2>1. CASE UNCHANGED ledger
    BY <2>1 DEF OneRowPerEvaluation, Positions
  <2>2. ASSUME NEW row \in Row, Merge(row) PROVE OneRowPerEvaluation'
    <3>1. CASE ledger' = ledger
      BY <2>1, <3>1
    <3>2. ASSUME ~Recorded(row.id),
                 NEW n, n \notin Positions, Positions' = Positions \cup {n}, ledger'[n] = row,
                 \A i \in Positions : ledger'[i] = ledger[i]
          PROVE  OneRowPerEvaluation'
      BY <3>2 DEF OneRowPerEvaluation, Recorded, Positions
    <3> QED
      BY <2>2, <3>1, <3>2, MergeEffect
  <2>3. ASSUME NEW r \in Requests, Write(r) \/ LoseResponse(r) PROVE OneRowPerEvaluation'
    <3>1. PICK row \in First(todo[r]) : Merge(row)
      BY <2>3 DEF Write, LoseResponse
    <3>2. row \in Row
      BY <3>1 DEF First, TypeOK
    <3> QED
      BY <2>2, <3>1, <3>2
  <2> QED
    BY <2>1, <2>3 DEF Next, Serve, vars, Schedule, FireByHand, Fire, Sweep, Match, Generate,
       Written, GenerationFails, Fail, NextDay
<1> QED
  BY <1>1, <1>2, TypeCorrect, PTL DEF Spec

----------------------------------------------------------------------------
(* A final row is the last. *)

\* While requests follow one another, the latest row of a call is not final unless
\* no evaluation is due any more; then none of its rows is.
LEMMA OpenCall ==
  ASSUME TypeOK, HasLatest, ClosedInv, ~overlapped, NEW p \in Minted, IsReevaluable(Latest(p))
  PROVE  \A j \in Positions : ledger[j].prediction = p => ~ledger[j].final
<1>1. PICK k \in Positions : Latest(p) = ledger[k] /\ ledger[k].prediction = p
  BY LatestRow
<1>2. \A j \in Positions : ledger[j].prediction = p => ledger[j].at <= ledger[k].at
  BY <1>1, LatestRow
<1>3. \A i \in Positions : ledger[i] \in Row
  BY DEF TypeOK, Positions
<1>4. ~ledger[k].final
  <2>1. ledger[k].horizon \in Nat /\ day \in Nat /\ HorizonDays \in Nat
    BY <1>1, <1>3, HorizonAssumption, BoundsAssumption DEF Row, TypeOK
  <2>2. ClosedRow(ledger[k])
    BY <1>1 DEF ClosedInv, RowsClosed
  <2>. QED
    BY <1>1, <2>1, <2>2 DEF IsReevaluable, ClosedRow, GraceEnds
<1>5. ASSUME NEW j \in Positions, ledger[j].prediction = p, ledger[j].final
      PROVE  FALSE
  <2>1. j = k \/ ledger[k].at < ledger[j].at
    BY <1>1, <1>5 DEF ClosedInv, FinalIsLast
  <2>2. ledger[j].at \in Nat /\ ledger[k].at \in Nat
    BY <1>1, <1>3 DEF Row
  <2>. QED
    BY <1>2, <1>4, <1>5, <2>1, <2>2
<1>. QED
  BY <1>5

\* What a request composes: rows that may be written after all of their calls.
Composed(r) ==
  /\ \A row \in todo'[r] : ClosedRow(row) /\ row.at <= clock'
  /\ \A row, other \in todo'[r] : other.prediction = row.prediction => other = row
  /\ ~overlapped => \A row \in todo'[r] : \A i \in Positions :
       ledger[i].prediction = row.prediction => ~ledger[i].final /\ ledger[i].at < row.at

LEMMA SweepComposes ==
  ASSUME TypeOK, HasLatest, ClosedInv, NEW r \in Requests, Sweep(r)
  PROVE  Composed(r)
<1>1. PICK scope \in IF chain[r] \in Manual THEN SUBSET Predictions \ {{}} ELSE {Predictions} :
      \E settled \in SUBSET Selected(scope) : \E looked \in SUBSET Selected(scope) :
        todo' = [todo EXCEPT ![r] =
                  {SweepRow(r, p, p \in settled, p \in looked) : p \in Selected(scope)}]
  BY DEF Sweep
<1>2. PICK settled \in SUBSET Selected(scope), looked \in SUBSET Selected(scope) :
        todo' = [todo EXCEPT ![r] =
                  {SweepRow(r, p, p \in settled, p \in looked) : p \in Selected(scope)}]
  BY <1>1
<1>3. pc[r] = "sweep" /\ clock' = clock /\ clock \in Nat /\ at[r] \in Nat /\ chain[r] \in Chains
      /\ day \in Nat /\ HorizonDays \in Nat \ {0}
  BY HorizonAssumption, BoundsAssumption DEF Sweep, TypeOK
<1>4. todo'[r] = {SweepRow(r, p, p \in settled, p \in looked) : p \in Selected(scope)}
  BY <1>2 DEF TypeOK
<1>5. ASSUME NEW p \in Selected(scope), NEW s \in BOOLEAN, NEW l \in BOOLEAN
      PROVE  /\ SweepRow(r, p, s, l).prediction = p /\ SweepRow(r, p, s, l).at = at[r]
             /\ ClosedRow(SweepRow(r, p, s, l))
             /\ ~overlapped => \A i \in Positions : ledger[i].prediction = p =>
                                 ~ledger[i].final /\ ledger[i].at < at[r]
  <2>1. p \in Minted /\ p \in Predictions /\ IsReevaluable(Latest(p))
    BY PageMinted, MintedPredictions
  <2>2. Latest(p) \in Row /\ Latest(p).prediction = p
    BY <2>1, LatestRow
  <2>3. /\ SweepRow(r, p, s, l).prediction = p /\ SweepRow(r, p, s, l).at = at[r]
        /\ SweepRow(r, p, s, l).horizon = Latest(p).horizon
        /\ SweepRow(r, p, s, l).status = NextStatus(Latest(p), s)
        /\ SweepRow(r, p, s, l).final = IsFinal(Latest(p), s)
    BY <1>3, <2>1, <2>2, SweepFields
  <2>4. Latest(p).horizon \in Nat
    BY <2>2 DEF Row
  <2>5. ClosedRow(SweepRow(r, p, s, l))
    BY <1>3, <2>3, <2>4 DEF ClosedRow, NextStatus, IsFinal, GraceEnds
  <2>6. ~overlapped => \A i \in Positions : ledger[i].prediction = p => ~ledger[i].final
    BY <2>1, OpenCall
  <2>7. ~overlapped => \A i \in Positions : ledger[i].at < at[r]
    BY <1>3 DEF ClosedInv, ReadsThePast
  <2>. QED
    BY <2>3, <2>5, <2>6, <2>7
<1>6. at[r] <= clock
  BY DEF ClosedInv, RowsClosed
<1>7. \A row \in todo'[r] : \E p \in Selected(scope) :
        /\ row = SweepRow(r, p, p \in settled, p \in looked)
        /\ row.prediction = p /\ row.at = at[r] /\ ClosedRow(row)
        /\ ~overlapped => \A i \in Positions : ledger[i].prediction = p =>
                            ~ledger[i].final /\ ledger[i].at < at[r]
  <2>. SUFFICES ASSUME NEW row \in todo'[r]
                PROVE  \E p \in Selected(scope) :
                         /\ row = SweepRow(r, p, p \in settled, p \in looked)
                         /\ row.prediction = p /\ row.at = at[r] /\ ClosedRow(row)
                         /\ ~overlapped => \A i \in Positions : ledger[i].prediction = p =>
                                             ~ledger[i].final /\ ledger[i].at < at[r]
    OBVIOUS
  <2>1. PICK p \in Selected(scope) : row = SweepRow(r, p, p \in settled, p \in looked)
    BY <1>4
  <2>. DEFINE s == p \in settled
              l == p \in looked
  <2>2. s \in BOOLEAN /\ l \in BOOLEAN /\ row = SweepRow(r, p, s, l)
    BY <2>1
  <2>. HIDE DEF s, l
  <2>3. /\ row.prediction = p /\ row.at = at[r] /\ ClosedRow(row)
        /\ ~overlapped => \A i \in Positions : ledger[i].prediction = p =>
                            ~ledger[i].final /\ ledger[i].at < at[r]
    BY <1>5, <2>2
  <2>. QED
    BY <2>1, <2>3
<1>. QED
  BY <1>3, <1>6, <1>7 DEF Composed

LEMMA MatchComposes ==
  ASSUME TypeOK, HasLatest, ClosedInv, NEW r \in Requests, Match(r)
  PROVE  Composed(r)
<1>1. /\ todo'[r] = {Restate(r, p, "match") : p \in Page(Live({"ACTIVE"}))}
      /\ pc[r] = "match" /\ clock' = clock /\ at[r] \in Nat /\ chain[r] \in Chains
  BY DEF Match, TypeOK
<1>2. ASSUME NEW p \in Page(Live({"ACTIVE"}))
      PROVE  /\ Restate(r, p, "match").prediction = p /\ Restate(r, p, "match").at = at[r]
             /\ ClosedRow(Restate(r, p, "match"))
             /\ ~overlapped => \A i \in Positions : ledger[i].prediction = p =>
                                 ~ledger[i].final /\ ledger[i].at < at[r]
  <2>1. p \in Minted /\ p \in Predictions /\ Latest(p).status = "ACTIVE"
    BY PageMinted, MintedPredictions
  <2>2. Latest(p) \in Row /\ Latest(p).prediction = p /\ \E i \in Positions : Latest(p) = ledger[i]
    BY <2>1, LatestRow
  <2>3. /\ Restate(r, p, "match").prediction = p /\ Restate(r, p, "match").at = at[r]
        /\ Restate(r, p, "match").status = "ACTIVE"
        /\ Restate(r, p, "match").final = Latest(p).final
    BY <1>1, <2>1, <2>2, RestateFields
  <2>4. ClosedRow(Latest(p))
    BY <2>2 DEF ClosedInv, RowsClosed
  <2>5. ~Latest(p).final
    BY <2>1, <2>4 DEF ClosedRow
  <2>6. ~overlapped => \A i \in Positions : ledger[i].prediction = p => ~ledger[i].final
    BY <2>1, OpenCall DEF IsReevaluable
  <2>7. ~overlapped => \A i \in Positions : ledger[i].at < at[r]
    BY <1>1 DEF ClosedInv, ReadsThePast
  <2>. QED
    BY <2>3, <2>5, <2>6, <2>7 DEF ClosedRow
<1>3. at[r] <= clock
  BY DEF ClosedInv, RowsClosed
<1>. QED
  BY <1>1, <1>2, <1>3 DEF Composed

LEMMA GenerateComposes ==
  ASSUME TypeOK, NEW r \in Requests, Generate(r)
  PROVE  Composed(r)
<1>. DEFINE phase == IF job[r] = "run" THEN "run" ELSE "mint"
<1>1. PICK claims \in SUBSET {c \in Claims : job[r] = "run" \/ Subject[c] \notin LiveSubjects} :
        \E ids \in [claims -> Unused], looked \in SUBSET claims :
        /\ \A c, d \in claims : ids[c] = ids[d] => c = d
        /\ todo' = [todo EXCEPT ![r] =
                     {MintRow(r, phase, c, ids[c], c \in looked) : c \in claims}]
  BY DEF Generate
<1>2. PICK ids \in [claims -> Unused], looked \in SUBSET claims :
        /\ \A c, d \in claims : ids[c] = ids[d] => c = d
        /\ todo' = [todo EXCEPT ![r] =
                     {MintRow(r, phase, c, ids[c], c \in looked) : c \in claims}]
  BY <1>1
<1>3. clock' = clock + 1 /\ clock \in Nat
  BY DEF Generate, TypeOK
<1>4. todo'[r] = {MintRow(r, phase, c, ids[c], c \in looked) : c \in claims}
  BY <1>2 DEF TypeOK
<1>5. \A c \in claims : \A i \in Positions : ledger[i].prediction # ids[c]
  BY DEF Unused, Minted, Positions
<1>6. \A c \in claims :
        LET row == MintRow(r, phase, c, ids[c], c \in looked) IN
        row.prediction = ids[c] /\ row.at = clock + 1 /\ ~row.final
  BY DEF MintRow
<1>7. \A row \in todo'[r] : \E c \in claims :
        /\ row = MintRow(r, phase, c, ids[c], c \in looked)
        /\ row.prediction = ids[c] /\ row.at = clock + 1 /\ ~row.final
  BY <1>4, <1>6
<1>8. \A row \in todo'[r] : ClosedRow(row) /\ row.at <= clock'
  BY <1>3, <1>7 DEF ClosedRow
<1>9. \A row, other \in todo'[r] : other.prediction = row.prediction => other = row
  BY <1>2, <1>7
<1>10. \A row \in todo'[r] : \A i \in Positions : ledger[i].prediction # row.prediction
  BY <1>5, <1>7
<1>. QED
  BY <1>8, <1>9, <1>10 DEF Composed

\* A request that is fired reads no row yet, and is alone if it is to count.
LEMMA FireKeeps ==
  ASSUME TypeOK, ClosedInv, NEW r \in Requests, NEW route,
         NEW first \in {"sweep", "match", "generate"}, NEW c, Fire(r, route, first, c)
  PROVE  ClosedInv'
<1>1. /\ pc[r] = "idle" /\ pc' = [pc EXCEPT ![r] = first]
      /\ at' = [at EXCEPT ![r] = clock + 1] /\ clock' = clock + 1
      /\ overlapped' = (overlapped \/ \E q \in Requests : ~Idle(q))
      /\ ledger' = ledger /\ todo' = todo /\ day' = day
  BY DEF Fire, Idle
<1>2. clock \in Nat /\ pc \in [Requests -> {"idle", "sweep", "match", "write", "generate", "mint"}]
      /\ at \in [Requests -> Nat] /\ \A i \in Positions : ledger[i] \in Row
  BY DEF TypeOK, Positions
<1>3. \A i \in Positions : ledger[i].at \in Nat /\ ledger[i].at <= clock
  BY <1>2 DEF Row, ClosedInv, RowsClosed
<1>4. todo[r] = {}
  BY <1>1 DEF ClosedInv, RowsClosed, Writing
<1>5. ~overlapped' => ~overlapped /\ \A q \in Requests : pc[q] = "idle"
  BY <1>1 DEF Idle
<1>6. RowsClosed'
  <2>1. \A i \in Positions' : ClosedRow(ledger[i])' /\ ledger'[i].at <= clock'
    BY <1>1, <1>2, <1>3 DEF ClosedInv, RowsClosed, ClosedRow, GraceEnds, Positions
  <2>2. ASSUME NEW q \in Requests
        PROVE  /\ at'[q] <= clock'
               /\ todo'[q] # {} => Writing(q)'
               /\ \A row \in todo'[q] : ClosedRow(row)' /\ row.at <= clock'
    <3>1. at'[q] <= clock'
      BY <1>1, <1>2 DEF ClosedInv, RowsClosed
    <3>2. todo'[q] # {} => Writing(q)'
      BY <1>1, <1>2, <1>4 DEF ClosedInv, RowsClosed, Writing
    <3>3. \A row \in todo[q] : row.at \in Nat /\ row.at <= clock /\ ClosedRow(row)
      BY DEF TypeOK, Row, ClosedInv, RowsClosed
    <3>4. \A row \in todo'[q] : ClosedRow(row)' /\ row.at <= clock'
      BY <1>1, <1>2, <3>3 DEF ClosedRow, GraceEnds
    <3>. QED
      BY <3>1, <3>2, <3>4
  <2>. QED
    BY <2>1, <2>2 DEF RowsClosed
<1>7. OneAtWork'
  BY <1>1, <1>2, <1>5 DEF OneAtWork, Idle
<1>8. ReadsThePast'
  BY <1>1, <1>2, <1>3, <1>5 DEF ReadsThePast, Positions
<1>9. TodoFollows' /\ FinalIsLast'
  BY <1>1, <1>5 DEF ClosedInv, TodoFollows, FinalIsLast, Recorded, Positions
<1>. QED
  BY <1>6, <1>7, <1>8, <1>9 DEF ClosedInv

LEMMA ComposeKeeps ==
  ASSUME TypeOK, ClosedInv, NEW r \in Requests, NEW where \in {"write", "mint"},
         pc[r] # "idle", pc' = [pc EXCEPT ![r] = where],
         Composed(r), todo' = [todo EXCEPT ![r] = todo'[r]],
         UNCHANGED <<ledger, day, overlapped>>,
         \/ at' = at /\ clock' = clock
         \/ at' = [at EXCEPT ![r] = clock + 1] /\ clock' = clock + 1
  PROVE  ClosedInv'
<1>1. clock \in Nat /\ pc \in [Requests -> {"idle", "sweep", "match", "write", "generate", "mint"}]
      /\ at \in [Requests -> Nat] /\ todo \in [Requests -> SUBSET Row]
      /\ \A i \in Positions : ledger[i] \in Row
  BY DEF TypeOK, Positions
<1>2. \A q \in Requests : q # r => pc'[q] = pc[q] /\ at'[q] = at[q] /\ todo'[q] = todo[q]
  BY <1>1
<1>3. pc'[r] = where /\ clock <= clock' /\ at'[r] <= clock' /\ clock' \in Nat
  BY <1>1 DEF ClosedInv, RowsClosed
<1>4. RowsClosed'
  <2>1. \A i \in Positions' : ClosedRow(ledger[i])' /\ ledger'[i].at <= clock'
    <3>1. \A i \in Positions : ledger[i].at \in Nat /\ ledger[i].at <= clock /\ ClosedRow(ledger[i])
      BY <1>1 DEF Row, ClosedInv, RowsClosed
    <3>. QED
      BY <1>1, <1>3, <3>1 DEF ClosedRow, GraceEnds, Positions
  <2>2. ASSUME NEW q \in Requests
        PROVE  /\ at'[q] <= clock'
               /\ todo'[q] # {} => Writing(q)'
               /\ \A row \in todo'[q] : ClosedRow(row)' /\ row.at <= clock'
    <3>1. CASE q = r
      BY <1>3, <3>1 DEF Composed, ClosedRow, GraceEnds, Writing
    <3>2. CASE q # r
      <4>1. \A row \in todo[q] : row.at \in Nat /\ row.at <= clock /\ ClosedRow(row)
        BY <1>1 DEF Row, ClosedInv, RowsClosed
      <4>2. \A row \in todo'[q] : ClosedRow(row)' /\ row.at <= clock'
        BY <1>1, <1>2, <1>3, <3>2, <4>1 DEF ClosedRow, GraceEnds
      <4>3. at[q] \in Nat /\ at[q] <= clock /\ (todo[q] # {} => Writing(q))
        BY <1>1 DEF ClosedInv, RowsClosed
      <4>. QED
        BY <1>1, <1>2, <1>3, <3>2, <4>2, <4>3 DEF Writing
    <3>. QED
      BY <3>1, <3>2
  <2>. QED
    BY <2>1, <2>2 DEF RowsClosed
<1>5. OneAtWork'
  <2>1. \A q \in Requests : ~Idle(q)' => ~Idle(q)
    BY <1>2 DEF Idle
  <2>. QED
    BY <2>1 DEF ClosedInv, OneAtWork
<1>6. ReadsThePast'
  BY <1>2, <1>3 DEF ClosedInv, ReadsThePast, Positions
<1>7. TodoFollows'
  BY <1>2 DEF ClosedInv, TodoFollows, Composed, Recorded, Positions
<1>8. FinalIsLast'
  BY DEF ClosedInv, FinalIsLast, Positions
<1>. QED
  BY <1>4, <1>5, <1>6, <1>7, <1>8 DEF ClosedInv

LEMMA MergeKeeps ==
  ASSUME TypeOK, ClosedInv, NEW r \in Requests, Writing(r), NEW row \in todo[r], Merge(row),
         todo' = todo \/ todo' = [todo EXCEPT ![r] = @ \ {row}],
         UNCHANGED <<pc, at, day, clock, overlapped>>
  PROVE  ClosedInv'
<1>1. row \in Row /\ todo \in [Requests -> SUBSET Row] /\ \A i \in Positions : ledger[i] \in Row
  BY DEF TypeOK, Positions
<1>2. \A q \in Requests : todo'[q] \subseteq todo[q]
  BY <1>1
<1>3. ClosedRow(row) /\ row.at <= clock
  BY DEF ClosedInv, RowsClosed
<1>4. CASE Recorded(row.id) /\ ledger' = ledger
  BY <1>2, <1>4 DEF ClosedInv, RowsClosed, ClosedRow, GraceEnds, OneAtWork, Idle, ReadsThePast,
     TodoFollows, FinalIsLast, Recorded, Positions, Writing
<1>5. ASSUME ~Recorded(row.id),
             NEW n, n \notin Positions, Positions' = Positions \cup {n}, ledger'[n] = row,
             \A i \in Positions : ledger'[i] = ledger[i]
      PROVE  ClosedInv'
  <2>1. RowsClosed'
    BY <1>2, <1>3, <1>5 DEF ClosedInv, RowsClosed, ClosedRow, GraceEnds, Writing
  <2>2. OneAtWork'
    BY DEF ClosedInv, OneAtWork, Idle
  <2>3. ~overlapped => \A q \in Requests : q # r => pc[q] = "idle"
    BY DEF ClosedInv, OneAtWork, Idle, Writing
  <2>4. ReadsThePast'
    BY <2>3 DEF ReadsThePast, Writing
  <2>5. ~overlapped => \A q \in Requests : q # r => todo[q] = {}
    BY <2>3 DEF ClosedInv, RowsClosed, Writing
  <2>6. ~overlapped => \A i \in Positions : ledger[i].prediction = row.prediction =>
                         ~ledger[i].final /\ ledger[i].at < row.at
    BY <1>5 DEF ClosedInv, TodoFollows
  <2>7. \A id : Recorded(id)' <=> Recorded(id) \/ id = row.id
    BY <1>5 DEF Recorded, Positions
  <2>8. TodoFollows'
    <3>. SUFFICES ASSUME ~overlapped', NEW q \in Requests, NEW new \in todo'[q]
                  PROVE  /\ \A other \in todo'[q] : other.prediction = new.prediction => other = new
                         /\ \/ Recorded(new.id)'
                            \/ \A i \in Positions' : ledger'[i].prediction = new.prediction =>
                                 ~ledger'[i].final /\ ledger'[i].at < new.at
      BY DEF TodoFollows
    <3>1. q = r /\ new \in todo[r]
      BY <1>2, <2>5
    <3>2. /\ \A other \in todo[r] : other.prediction = new.prediction => other = new
          /\ Recorded(new.id) \/ \A i \in Positions : ledger[i].prediction = new.prediction =>
                                    ~ledger[i].final /\ ledger[i].at < new.at
      BY <3>1 DEF ClosedInv, TodoFollows
    <3>. QED
      BY <1>2, <1>5, <2>7, <3>1, <3>2
  <2>9. FinalIsLast'
    BY <1>5, <2>6 DEF ClosedInv, FinalIsLast
  <2>. QED
    BY <2>1, <2>2, <2>4, <2>8, <2>9 DEF ClosedInv
<1>. QED
  BY <1>1, <1>4, <1>5, MergeEffect

\* A request that ends, or goes on to generate, has nothing left to write.
LEMMA EndKeeps ==
  ASSUME TypeOK, ClosedInv, NEW r \in Requests, pc[r] # "idle",
         NEW where \in {"idle", "generate"}, pc' = [pc EXCEPT ![r] = where],
         todo' = [todo EXCEPT ![r] = {}],
         at' = at \/ at' = [at EXCEPT ![r] = 0],
         UNCHANGED <<ledger, day, clock, overlapped>>
  PROVE  ClosedInv'
<1>1. clock \in Nat /\ pc \in [Requests -> {"idle", "sweep", "match", "write", "generate", "mint"}]
      /\ at \in [Requests -> Nat] /\ todo \in [Requests -> SUBSET Row]
  BY DEF TypeOK
<1>2. \A q \in Requests : q # r => pc'[q] = pc[q] /\ at'[q] = at[q] /\ todo'[q] = todo[q]
  BY <1>1
<1>3. todo'[r] = {} /\ pc'[r] = where /\ at'[r] <= clock
  BY <1>1 DEF ClosedInv, RowsClosed
<1>4. RowsClosed'
  BY <1>2, <1>3 DEF ClosedInv, RowsClosed, ClosedRow, GraceEnds, Writing, Positions
<1>5. OneAtWork'
  <2>1. \A q \in Requests : ~Idle(q)' => ~Idle(q)
    BY <1>2 DEF Idle
  <2>. QED
    BY <2>1 DEF ClosedInv, OneAtWork
<1>6. ReadsThePast'
  BY <1>2, <1>3 DEF ClosedInv, ReadsThePast, Positions
<1>7. TodoFollows'
  BY <1>2, <1>3 DEF ClosedInv, TodoFollows, Recorded, Positions
<1>8. FinalIsLast'
  BY DEF ClosedInv, FinalIsLast, Positions
<1>. QED
  BY <1>4, <1>5, <1>6, <1>7, <1>8 DEF ClosedInv

LEMMA NextDayKeeps ==
  ASSUME TypeOK, ClosedInv, NextDay
  PROVE  ClosedInv'
<1>1. day \in Nat /\ day' = day + 1 /\ HorizonDays \in Nat
      /\ UNCHANGED <<ledger, pc, at, todo, clock, overlapped>>
  BY HorizonAssumption, BoundsAssumption DEF NextDay, TypeOK
<1>2. \A row \in Row : ClosedRow(row) => ClosedRow(row)'
  <2>. SUFFICES ASSUME NEW row \in Row, ClosedRow(row)
                PROVE  ClosedRow(row)'
    OBVIOUS
  <2>1. row.horizon \in Nat
    BY DEF Row
  <2>. QED
    BY <1>1, <2>1 DEF ClosedRow, GraceEnds
<1>3. \A i \in Positions : ledger[i] \in Row
  BY DEF TypeOK, Positions
<1>4. \A r \in Requests : \A row \in todo[r] : row \in Row
  BY DEF TypeOK
<1>5. RowsClosed'
  <2>1. \A i \in Positions' : ClosedRow(ledger[i])' /\ ledger'[i].at <= clock'
    BY <1>1, <1>2, <1>3 DEF ClosedInv, RowsClosed, Positions, ClosedRow, GraceEnds
  <2>2. \A r \in Requests : \A row \in todo'[r] : ClosedRow(row)' /\ row.at <= clock'
    BY <1>1, <1>2, <1>4 DEF ClosedInv, RowsClosed
  <2>. QED
    BY <1>1, <2>1, <2>2 DEF ClosedInv, RowsClosed, Writing
<1>6. OneAtWork' /\ ReadsThePast' /\ TodoFollows' /\ FinalIsLast'
  BY <1>1 DEF ClosedInv, OneAtWork, ReadsThePast, TodoFollows, FinalIsLast, Idle, Recorded,
     Positions
<1>. QED
  BY <1>5, <1>6 DEF ClosedInv

LEMMA AnswerKeeps ==
  ASSUME TypeOK, ClosedInv, NEW r \in Requests, NEW ok \in BOOLEAN, pc[r] # "idle", Answer(r, ok),
         UNCHANGED <<ledger, day, clock, overlapped>>
  PROVE  ClosedInv'
  BY EndKeeps DEF Answer

LEMMA ClosedInvariance == Spec => []ClosedInv
<1>1. Init => ClosedInv
  BY DEF Init, ClosedInv, RowsClosed, OneAtWork, ReadsThePast, TodoFollows, FinalIsLast, Positions,
     Idle, Writing
<1>2. TypeOK /\ HasLatest /\ ClosedInv /\ [Next]_vars => ClosedInv'
  <2>. SUFFICES ASSUME TypeOK, HasLatest, ClosedInv, [Next]_vars
                PROVE  ClosedInv'
    OBVIOUS
  <2>1. ASSUME NEW r \in Requests, Schedule(r)
        PROVE  ClosedInv'
    BY <2>1, FireKeeps DEF Schedule
  <2>2. ASSUME NEW r \in Requests, FireByHand(r)
        PROVE  ClosedInv'
    <3>1. PICK route \in Routes, c \in Manual :
            Fire(r, route, IF route = "run" THEN "generate" ELSE route, c)
      BY <2>2 DEF FireByHand
    <3>2. (IF route = "run" THEN "generate" ELSE route) \in {"sweep", "match", "generate"}
      BY DEF Routes
    <3>. QED
      BY <3>1, <3>2, FireKeeps
  <2>3. ASSUME NEW r \in Requests, Sweep(r)
        PROVE  ClosedInv'
    <3>1. /\ pc[r] # "idle" /\ pc' = [pc EXCEPT ![r] = "write"]
          /\ at' = at /\ clock' = clock /\ UNCHANGED <<ledger, day, overlapped>>
      BY <2>3 DEF Sweep
    <3>2. Composed(r) /\ todo' = [todo EXCEPT ![r] = todo'[r]]
      BY <2>3, SweepComposes, SweepType
    <3>. QED
      BY <3>1, <3>2, ComposeKeeps
  <2>4. ASSUME NEW r \in Requests, Match(r)
        PROVE  ClosedInv'
    <3>1. /\ pc[r] # "idle" /\ pc' = [pc EXCEPT ![r] = "write"]
          /\ at' = at /\ clock' = clock /\ UNCHANGED <<ledger, day, overlapped>>
      BY <2>4 DEF Match
    <3>2. Composed(r) /\ todo' = [todo EXCEPT ![r] = todo'[r]]
      BY <2>4, MatchComposes, MatchType
    <3>. QED
      BY <3>1, <3>2, ComposeKeeps
  <2>5. ASSUME NEW r \in Requests, Generate(r)
        PROVE  ClosedInv'
    <3>1. /\ pc[r] # "idle" /\ pc' = [pc EXCEPT ![r] = "mint"]
          /\ at' = [at EXCEPT ![r] = clock + 1] /\ clock' = clock + 1
          /\ UNCHANGED <<ledger, day, overlapped>>
      BY <2>5, Zenon DEF Generate
    <3>2. Composed(r) /\ todo' = [todo EXCEPT ![r] = todo'[r]]
      BY <2>5, GenerateComposes, GenerateType
    <3>. QED
      BY <3>1, <3>2, ComposeKeeps
  <2>6. ASSUME NEW r \in Requests, Write(r)
        PROVE  ClosedInv'
    <3>1. PICK row \in First(todo[r]) : Merge(row) /\ todo' = [todo EXCEPT ![r] = @ \ {row}]
      BY <2>6 DEF Write
    <3>2. row \in todo[r] /\ Writing(r) /\ UNCHANGED <<pc, at, day, clock, overlapped>>
      BY <2>6, <3>1 DEF First, Write
    <3>. QED
      BY <3>1, <3>2, MergeKeeps
  <2>7. ASSUME NEW r \in Requests, LoseResponse(r)
        PROVE  ClosedInv'
    <3>1. PICK row \in First(todo[r]) : Merge(row)
      BY <2>7 DEF LoseResponse
    <3>2. row \in todo[r] /\ Writing(r) /\ UNCHANGED <<pc, at, todo, day, clock, overlapped>>
      BY <2>7, <3>1 DEF First, LoseResponse, requestVars
    <3>. QED
      BY <3>1, <3>2, MergeKeeps
  <2>8. ASSUME NEW r \in Requests, Written(r)
        PROVE  ClosedInv'
    <3>1. pc[r] # "idle" /\ todo[r] = {} /\ UNCHANGED <<ledger, day, clock, overlapped>>
      BY <2>8 DEF Written, Writing
    <3>2. CASE pc' = [pc EXCEPT ![r] = "generate"] /\ UNCHANGED <<job, chain, at, todo, awaits>>
      <4>1. todo' = [todo EXCEPT ![r] = {}]
        BY <3>1, <3>2 DEF TypeOK
      <4>. QED
        BY <3>1, <3>2, <4>1, EndKeeps
    <3>3. CASE Answer(r, TRUE)
      BY <3>1, <3>3, AnswerKeeps
    <3>. QED
      BY <2>8, <3>2, <3>3 DEF Written
  <2>9. ASSUME NEW r \in Requests, GenerationFails(r) \/ Fail(r)
        PROVE  ClosedInv'
    <3>1. pc[r] # "idle" /\ UNCHANGED <<ledger, day, clock, overlapped>>
      BY <2>9 DEF GenerationFails, Fail, Idle
    <3>2. PICK ok \in BOOLEAN : Answer(r, ok)
      BY <2>9 DEF GenerationFails, Fail
    <3>. QED
      BY <3>1, <3>2, AnswerKeeps
  <2>10. CASE NextDay
    BY <2>10, NextDayKeeps
  <2>11. CASE UNCHANGED vars
    BY <2>11 DEF vars, ClosedInv, RowsClosed, ClosedRow, GraceEnds, OneAtWork, Idle, ReadsThePast,
       TodoFollows, FinalIsLast, Recorded, Positions, Writing
  <2>. QED
    BY <2>1, <2>2, <2>3, <2>4, <2>5, <2>6, <2>7, <2>8, <2>9, <2>10, <2>11 DEF Next, Serve
<1>. QED
  BY <1>1, <1>2, TypeCorrect, PTL DEF Spec

\* A resolved call is not reopened, and a final grade does not move, as long as
\* requests follow one another.
THEOREM ClosedCorrect == Spec => []ClosedStaysClosed
<1>1. TypeOK /\ ClosedInv => ClosedStaysClosed
  <2>. SUFFICES ASSUME TypeOK, ClosedInv, ~overlapped,
                       NEW i \in Positions, NEW j \in Positions,
                       ledger[i].prediction = ledger[j].prediction, ledger[i].final
                PROVE  ledger[j].at <= ledger[i].at
    BY DEF ClosedStaysClosed
  <2>1. i = j \/ ledger[j].at < ledger[i].at
    BY DEF ClosedInv, FinalIsLast
  <2>2. ledger[i] \in Row /\ ledger[j] \in Row
    BY DEF TypeOK, Positions
  <2>3. ledger[i].at \in Nat /\ ledger[j].at \in Nat
    BY <2>2 DEF Row
  <2>. QED
    BY <2>1, <2>3
<1>. QED
  BY <1>1, TypeCorrect, ClosedInvariance, PTL

----------------------------------------------------------------------------
(* RemintedAfterClosing. *)

\* What a request composes: rows under its chain, each of a call there is or of a
\* new one, and none that opens a subject twice.
OfOldCall(new) ==
  \E old \in Rows : /\ old.prediction = new.prediction
                    /\ old.claim = new.claim
                    /\ old.horizon = new.horizon
OfNewCall(new, composed) ==
  /\ \A old \in Rows : old.prediction # new.prediction
  /\ \A other \in composed : other.prediction = new.prediction => other = new
InTurn(r) ==
  \A new \in todo'[r] :
    /\ new.chain = chain[r]
    /\ OfOldCall(new) \/ OfNewCall(new, todo'[r])
    /\ \A i \in Positions : Follows(new, i)

\* The latest row of a call has its claim and its horizon.
LEMMA LatestCall ==
  ASSUME TypeOK, HasLatest, NEW p \in Minted
  PROVE  /\ Latest(p) \in Rows /\ Latest(p).prediction = p
         /\ SameCall => \A i \in Positions : ledger[i].prediction = p =>
              ledger[i].claim = Latest(p).claim /\ ledger[i].horizon = Latest(p).horizon
<1>1. Latest(p).prediction = p /\ \E i \in Positions : Latest(p) = ledger[i]
  BY LatestRow
<1>2. \A i \in Positions : ledger[i] \in Rows
  BY DEF Rows
<1>. QED
  BY <1>1, <1>2 DEF SameCall

LEMMA SweepInTurn ==
  ASSUME TypeOK, HasLatest, NEW r \in Requests, Sweep(r)
  PROVE  InTurn(r)
<1>1. PICK scope \in IF chain[r] \in Manual THEN SUBSET Predictions \ {{}} ELSE {Predictions} :
      \E settled \in SUBSET Selected(scope) : \E looked \in SUBSET Selected(scope) :
        todo' = [todo EXCEPT ![r] =
                  {SweepRow(r, p, p \in settled, p \in looked) : p \in Selected(scope)}]
  BY DEF Sweep
<1>2. PICK settled \in SUBSET Selected(scope), looked \in SUBSET Selected(scope) :
        todo' = [todo EXCEPT ![r] =
                  {SweepRow(r, p, p \in settled, p \in looked) : p \in Selected(scope)}]
  BY <1>1
<1>3. todo'[r] = {SweepRow(r, p, p \in settled, p \in looked) : p \in Selected(scope)}
  BY <1>2 DEF TypeOK
<1>4. ASSUME NEW p \in Selected(scope), NEW s \in BOOLEAN, NEW l \in BOOLEAN
      PROVE  /\ SweepRow(r, p, s, l).chain = chain[r]
             /\ SweepRow(r, p, s, l).id[1] = "sweep"
             /\ OfOldCall(SweepRow(r, p, s, l))
  <2>1. p \in Minted /\ p \in Predictions
    BY <1>4, PageMinted, MintedPredictions
  <2>2. Latest(p) \in Row /\ Latest(p) \in Rows
    BY <2>1, LatestRow, LatestCall
  <2>3. chain[r] \in Chains /\ at[r] \in Nat
    BY DEF TypeOK
  <2>4. /\ SweepRow(r, p, s, l).chain = chain[r]
        /\ SweepRow(r, p, s, l).id = <<"sweep", chain[r], p>>
        /\ SweepRow(r, p, s, l).prediction = Latest(p).prediction
        /\ SweepRow(r, p, s, l).claim = Latest(p).claim
        /\ SweepRow(r, p, s, l).horizon = Latest(p).horizon
    BY <1>4, <2>1, <2>2, <2>3, SweepFields
  <2>. QED
    BY <2>2, <2>4 DEF OfOldCall
<1>5. ASSUME NEW new \in todo'[r]
      PROVE  new.chain = chain[r] /\ new.id[1] = "sweep" /\ OfOldCall(new)
  <2>1. PICK p \in Selected(scope) : new = SweepRow(r, p, p \in settled, p \in looked)
    BY <1>3
  <2>2. (p \in settled) \in BOOLEAN /\ (p \in looked) \in BOOLEAN
    OBVIOUS
  <2>. QED
    BY <1>4, <2>1, <2>2
<1>. QED
  BY <1>5 DEF InTurn, Follows

LEMMA MatchInTurn ==
  ASSUME TypeOK, HasLatest, NEW r \in Requests, Match(r)
  PROVE  InTurn(r)
<1>1. todo'[r] = {Restate(r, p, "match") : p \in Page(Live({"ACTIVE"}))}
  BY DEF Match, TypeOK
<1>2. ASSUME NEW p \in Page(Live({"ACTIVE"}))
      PROVE  /\ Restate(r, p, "match").chain = chain[r]
             /\ Restate(r, p, "match").id[1] = "match"
             /\ OfOldCall(Restate(r, p, "match"))
  <2>1. p \in Minted /\ p \in Predictions
    BY PageMinted, MintedPredictions
  <2>2. Latest(p) \in Row /\ Latest(p) \in Rows
    BY <2>1, LatestRow, LatestCall
  <2>3. chain[r] \in Chains /\ at[r] \in Nat
    BY DEF TypeOK
  <2>4. /\ Restate(r, p, "match").chain = chain[r]
        /\ Restate(r, p, "match").id = <<"match", chain[r], p>>
        /\ Restate(r, p, "match").prediction = Latest(p).prediction
        /\ Restate(r, p, "match").claim = Latest(p).claim
        /\ Restate(r, p, "match").horizon = Latest(p).horizon
    BY <2>1, <2>2, <2>3, RestateFields
  <2>. QED
    BY <2>2, <2>4 DEF OfOldCall
<1>. QED
  BY <1>1, <1>2 DEF InTurn, Follows

\* The row of an open call on the subject would show it live: what is minted repeats
\* none.
LEMMA GenerateInTurn ==
  ASSUME TypeOK, HasLatest, RowsClosed, SameCall, NEW r \in Requests, Generate(r)
  PROVE  InTurn(r)
<1>. DEFINE phase == IF job[r] = "run" THEN "run" ELSE "mint"
<1>1. PICK claims \in SUBSET {c \in Claims : job[r] = "run" \/ Subject[c] \notin LiveSubjects} :
        \E ids \in [claims -> Unused], looked \in SUBSET claims :
        /\ \A c, d \in claims : ids[c] = ids[d] => c = d
        /\ todo' = [todo EXCEPT ![r] =
                     {MintRow(r, phase, c, ids[c], c \in looked) : c \in claims}]
  BY DEF Generate
<1>2. PICK ids \in [claims -> Unused], looked \in SUBSET claims :
        /\ \A c, d \in claims : ids[c] = ids[d] => c = d
        /\ todo' = [todo EXCEPT ![r] =
                     {MintRow(r, phase, c, ids[c], c \in looked) : c \in claims}]
  BY <1>1
<1>3. todo'[r] = {MintRow(r, phase, c, ids[c], c \in looked) : c \in claims}
  BY <1>2 DEF TypeOK
<1>4. \A c \in claims : \A old \in Rows : old.prediction # ids[c]
  BY DEF Unused, Minted, Rows, Positions
<1>5. ASSUME NEW c \in claims, NEW i \in Positions, phase = "mint",
             Subject[ledger[i].claim] = Subject[c]
      PROVE  \/ ledger[i].horizon < day
             \/ \E k \in Positions : /\ ledger[k].prediction = ledger[i].prediction
                                     /\ ledger[k].at < clock + 1
                                     /\ ledger[k].status # "ACTIVE"
  <2>. DEFINE p == ledger[i].prediction
  <2>1. p \in Minted
    BY DEF Minted, Positions
  <2>2. PICK k \in Positions : Latest(p) = ledger[k]
    BY <2>1, LatestRow
  <2>3. /\ Latest(p).prediction = p /\ ledger[i].claim = Latest(p).claim
        /\ ledger[i].horizon = Latest(p).horizon
    BY <2>1, LatestCall
  <2>4. Subject[c] \notin LiveSubjects
    BY <1>5
  <2>5. ~(Latest(p).status = "ACTIVE" /\ Latest(p).horizon >= day)
    BY <1>5, <2>1, <2>3, <2>4 DEF LiveSubjects, Live
  <2>6. ledger[k] \in Row /\ ledger[i] \in Row /\ clock \in Nat /\ day \in Nat
    BY BoundsAssumption DEF TypeOK, Positions
  <2>7. ledger[k].at \in Nat /\ ledger[k].at <= clock /\ ledger[i].horizon \in Nat
    BY <2>6 DEF Row, RowsClosed
  <2>8. ledger[k].at < clock + 1
    BY <2>6, <2>7
  <2>9. ledger[i].horizon < day \/ ledger[k].status # "ACTIVE"
    BY <2>2, <2>3, <2>5, <2>6, <2>7
  <2>. QED
    BY <2>2, <2>3, <2>8, <2>9
<1>6. ASSUME NEW c \in claims
      PROVE  LET row == MintRow(r, phase, c, ids[c], c \in looked) IN
             /\ row.id[1] = phase /\ row.chain = chain[r] /\ row.prediction = ids[c]
             /\ row.claim = c /\ row.at = clock + 1 /\ row.horizon = day + HorizonDays
  BY DEF MintRow
<1>7. \A i \in Positions : ledger[i].at < clock + 1
  <2>1. \A i \in Positions : ledger[i] \in Row
    BY DEF TypeOK, Positions
  <2>2. clock \in Nat /\ \A i \in Positions : ledger[i].at \in Nat /\ ledger[i].at <= clock
    BY <2>1 DEF TypeOK, Row, RowsClosed
  <2>. QED
    BY <2>2
<1>8. ASSUME NEW new \in todo'[r]
      PROVE  \E c \in claims :
               /\ new = MintRow(r, phase, c, ids[c], c \in looked)
               /\ new.id[1] = phase /\ new.chain = chain[r] /\ new.prediction = ids[c]
               /\ new.claim = c /\ new.at = clock + 1 /\ new.horizon = day + HorizonDays
  BY <1>3, <1>6
<1>9. ASSUME NEW new \in todo'[r]
      PROVE  OfNewCall(new, todo'[r])
  BY <1>2, <1>4, <1>8 DEF OfNewCall
<1>10. ASSUME NEW new \in todo'[r], NEW i \in Positions
       PROVE  Follows(new, i)
  <2>1. PICK c \in claims : /\ new.id[1] = phase /\ new.claim = c /\ new.at = clock + 1
                            /\ new.horizon = day + HorizonDays
    BY <1>8
  <2>2. MintDay(new) = day
    BY <2>1, HorizonAssumption, BoundsAssumption DEF MintDay, TypeOK
  <2>. QED
    BY <1>5, <1>7, <2>1, <2>2 DEF Follows
<1>. QED
  BY <1>8, <1>9, <1>10 DEF InTurn

\* A request is fired while others of its chain are at work, or none.
LEMMA FireRemints ==
  ASSUME TypeOK, RemintInv, NEW r \in Requests, NEW route,
         NEW first \in {"sweep", "match", "generate"}, NEW c, Fire(r, route, first, c),
         \A q \in Requests : ~Idle(q) => chain[q] = c
  PROVE  RemintInv'
<1>1. /\ pc[r] = "idle" /\ pc' = [pc EXCEPT ![r] = first] /\ chain' = [chain EXCEPT ![r] = c]
      /\ ledger' = ledger /\ todo' = todo
  BY DEF Fire, Idle
<1>2. pc \in [Requests -> {"idle", "sweep", "match", "write", "generate", "mint"}]
      /\ chain \in [Requests -> Chains]
  BY DEF TypeOK
<1>3. OneChain'
  <2>1. \A q \in Requests : ~Idle(q)' => chain'[q] = c
    BY <1>1, <1>2 DEF Idle
  <2>2. \A q \in Requests : \A row \in todo'[q] : ~Idle(q)' /\ row.chain = chain'[q]
    BY <1>1, <1>2 DEF RemintInv, OneChain, Idle
  <2>. QED
    BY <2>1, <2>2 DEF OneChain
<1>4. SameCall' /\ MintsFollow' /\ RemintedAfterClosing'
  BY <1>1 DEF RemintInv, SameCall, Rows, MintsFollow, Follows, MintDay, RemintedAfterClosing,
     Positions
<1>. QED
  BY <1>3, <1>4 DEF RemintInv

LEMMA ComposeRemints ==
  ASSUME TypeOK, RemintInv, NEW r \in Requests, NEW where \in {"write", "mint"},
         pc[r] # "idle", pc' = [pc EXCEPT ![r] = where],
         InTurn(r), todo' = [todo EXCEPT ![r] = todo'[r]],
         UNCHANGED <<ledger, chain>>
  PROVE  RemintInv'
<1>1. /\ pc \in [Requests -> {"idle", "sweep", "match", "write", "generate", "mint"}]
      /\ todo \in [Requests -> SUBSET Row]
  BY DEF TypeOK
<1>2. \A q \in Requests : q # r => todo'[q] = todo[q]
  BY <1>1
<1>3. \A q \in Requests : Idle(q)' <=> Idle(q)
  BY <1>1 DEF Idle
<1>4. OneChain'
  <2>1. \A q \in Requests : \A row \in todo'[q] : ~Idle(q) /\ row.chain = chain[q]
    BY <1>2 DEF RemintInv, OneChain, InTurn, Idle
  <2>. QED
    BY <1>3, <2>1 DEF RemintInv, OneChain
<1>5. SameCall'
  <2>1. Rows' \subseteq Rows \cup todo'[r]
    BY <1>2 DEF Rows, Positions
  <2>2. \A new \in todo'[r] : OfOldCall(new) \/ OfNewCall(new, todo'[r])
    BY DEF InTurn
  <2>3. \A x \in Rows' : x \in Rows \/ OfOldCall(x) \/ (x \in todo'[r] /\ OfNewCall(x, todo'[r]))
    BY <2>1, <2>2
  <2>4. \A x \in Rows : OfOldCall(x)
    BY DEF OfOldCall
  <2>5. ASSUME NEW x \in Rows', NEW y \in Rows', x.prediction = y.prediction
        PROVE  x.claim = y.claim /\ x.horizon = y.horizon
    <3>1. CASE OfOldCall(x) /\ OfOldCall(y)
      BY <2>5, <3>1 DEF OfOldCall, RemintInv, SameCall
    <3>2. CASE x \in todo'[r] /\ OfNewCall(x, todo'[r])
      <4>1. ~OfOldCall(y)
        BY <2>5, <3>2 DEF OfNewCall, OfOldCall
      <4>2. y \in todo'[r]
        BY <2>3, <2>4, <4>1
      <4>. QED
        BY <2>5, <3>2, <4>2 DEF OfNewCall
    <3>3. CASE y \in todo'[r] /\ OfNewCall(y, todo'[r])
      <4>1. ~OfOldCall(x)
        BY <2>5, <3>3 DEF OfNewCall, OfOldCall
      <4>2. x \in todo'[r]
        BY <2>3, <2>4, <4>1
      <4>. QED
        BY <2>5, <3>3, <4>2 DEF OfNewCall
    <3>. QED
      BY <2>3, <2>4, <3>1, <3>2, <3>3
  <2>. QED
    BY <2>5 DEF SameCall
<1>6. MintsFollow'
  <2>1. \A q \in Requests : \A row \in todo'[q] : \A i \in Positions : Follows(row, i)
    BY <1>2 DEF RemintInv, MintsFollow, InTurn
  <2>. QED
    BY <2>1 DEF MintsFollow, Follows, MintDay, Positions
<1>7. RemintedAfterClosing'
  BY DEF RemintInv, RemintedAfterClosing, MintDay, Positions
<1>. QED
  BY <1>4, <1>5, <1>6, <1>7 DEF RemintInv

\* A row that is written belongs to the one chain at work.
LEMMA MergeRemints ==
  ASSUME TypeOK, RemintInv, NEW r \in Requests, NEW row \in todo[r], Merge(row),
         todo' = todo \/ todo' = [todo EXCEPT ![r] = @ \ {row}],
         UNCHANGED <<pc, chain>>
  PROVE  RemintInv'
<1>1. row \in Row /\ todo \in [Requests -> SUBSET Row] /\ \A i \in Positions : ledger[i] \in Row
  BY DEF TypeOK, Positions
<1>2. \A q \in Requests : todo'[q] \subseteq todo[q]
  BY <1>1
<1>3. OneChain'
  BY <1>2 DEF RemintInv, OneChain, Idle
<1>4. CASE ledger' = ledger
  BY <1>2, <1>3, <1>4 DEF RemintInv, SameCall, Rows, MintsFollow, Follows, MintDay,
     RemintedAfterClosing, Positions
<1>5. ASSUME NEW n, n \notin Positions, Positions' = Positions \cup {n}, ledger'[n] = row,
             \A i \in Positions : ledger'[i] = ledger[i]
      PROVE  RemintInv'
  <2>1. SameCall'
    <3>1. Rows' \subseteq Rows
      BY <1>2, <1>5 DEF Rows
    <3>. QED
      BY <3>1 DEF RemintInv, SameCall
  <2>2. \A q \in Requests : \A x \in todo[q] : x.chain = row.chain
    BY DEF RemintInv, OneChain
  <2>3. MintsFollow'
    <3>. SUFFICES ASSUME NEW q \in Requests, NEW x \in todo'[q], NEW i \in Positions'
                  PROVE  Follows(x, i)'
      BY DEF MintsFollow
    <3>1. x \in todo[q]
      BY <1>2
    <3>2. CASE i \in Positions
      <4>1. Follows(x, i)
        BY <3>1, <3>2 DEF RemintInv, MintsFollow
      <4>. QED
        BY <1>5, <3>2, <4>1 DEF Follows, MintDay
    <3>3. CASE i = n
      BY <1>5, <2>2, <3>1, <3>3 DEF Follows
    <3>. QED
      BY <1>5, <3>2, <3>3
  <2>4. \A i \in Positions : Follows(row, i)
    BY DEF RemintInv, MintsFollow
  <2>5. RemintedAfterClosing'
    <3>. SUFFICES ASSUME NEW i \in Positions', NEW j \in Positions',
                         ledger'[i].id[1] = "mint", ledger'[j].id[1] = "mint",
                         ledger'[i].chain # ledger'[j].chain,
                         ledger'[i].at < ledger'[j].at,
                         Subject[ledger'[i].claim] = Subject[ledger'[j].claim]
                  PROVE  \/ ledger'[i].horizon < MintDay(ledger'[j])
                         \/ \E k \in Positions' :
                              /\ ledger'[k].prediction = ledger'[i].prediction
                              /\ ledger'[k].at < ledger'[j].at
                              /\ ledger'[k].status # "ACTIVE"
      BY DEF RemintedAfterClosing, MintDay
    <3>1. CASE i \in Positions /\ j \in Positions
      <4>1. \/ ledger[i].horizon < MintDay(ledger[j])
            \/ \E k \in Positions : /\ ledger[k].prediction = ledger[i].prediction
                                    /\ ledger[k].at < ledger[j].at
                                    /\ ledger[k].status # "ACTIVE"
        BY <1>5, <3>1 DEF RemintInv, RemintedAfterClosing
      <4>. QED
        BY <1>5, <3>1, <4>1
    <3>2. CASE i \in Positions /\ j = n
      <4>1. \/ ledger[i].horizon < MintDay(row)
            \/ \E k \in Positions : /\ ledger[k].prediction = ledger[i].prediction
                                    /\ ledger[k].at < row.at
                                    /\ ledger[k].status # "ACTIVE"
        BY <1>5, <2>4, <3>2 DEF Follows
      <4>. QED
        BY <1>5, <3>2, <4>1
    <3>3. CASE i = n /\ j \in Positions
      <4>1. ledger[j].at < row.at /\ row.at < ledger[j].at
        BY <1>5, <2>4, <3>3 DEF Follows
      <4>2. ledger[j].at \in Nat /\ row.at \in Nat
        BY <1>1, <3>3 DEF Row
      <4>. QED
        BY <4>1, <4>2
    <3>4. CASE i = n /\ j = n
      BY <3>4
    <3>. QED
      BY <1>5, <3>1, <3>2, <3>3, <3>4
  <2>. QED
    BY <1>3, <2>1, <2>3, <2>5 DEF RemintInv
<1>. QED
  BY <1>1, <1>4, <1>5, MergeEffect

\* A request that ends, or goes on to generate, has nothing left to write.
LEMMA EndRemints ==
  ASSUME TypeOK, RemintInv, NEW r \in Requests,
         NEW where \in {"idle", "generate"}, pc' = [pc EXCEPT ![r] = where],
         todo' = [todo EXCEPT ![r] = {}],
         \/ chain' = chain /\ pc[r] # "idle"
         \/ chain' = [chain EXCEPT ![r] = 0] /\ where = "idle",
         UNCHANGED ledger
  PROVE  RemintInv'
<1>1. /\ pc \in [Requests -> {"idle", "sweep", "match", "write", "generate", "mint"}]
      /\ chain \in [Requests -> Chains] /\ todo \in [Requests -> SUBSET Row]
  BY DEF TypeOK
<1>2. todo'[r] = {} /\ pc'[r] = where
      /\ \A q \in Requests : q # r => pc'[q] = pc[q] /\ chain'[q] = chain[q] /\ todo'[q] = todo[q]
  BY <1>1
<1>3. OneChain'
  <2>1. \A q \in Requests : ~Idle(q)' => ~Idle(q) /\ chain'[q] = chain[q]
    BY <1>1, <1>2 DEF Idle
  <2>2. \A q \in Requests : \A row \in todo'[q] : ~Idle(q)' /\ row.chain = chain'[q]
    BY <1>2 DEF RemintInv, OneChain, Idle
  <2>. QED
    BY <2>1, <2>2 DEF RemintInv, OneChain
<1>4. \A q \in Requests : todo'[q] \subseteq todo[q]
  BY <1>2
<1>5. SameCall' /\ MintsFollow' /\ RemintedAfterClosing'
  BY <1>4 DEF RemintInv, SameCall, Rows, MintsFollow, Follows, MintDay, RemintedAfterClosing,
     Positions
<1>. QED
  BY <1>3, <1>5 DEF RemintInv

LEMMA AnswerRemints ==
  ASSUME TypeOK, RemintInv, NEW r \in Requests, NEW ok \in BOOLEAN, Answer(r, ok),
         UNCHANGED ledger
  PROVE  RemintInv'
  BY EndRemints DEF Answer

LEMMA StepRemints ==
  ASSUME Overlap # "any", TypeOK, HasLatest, RowsClosed, RemintInv, [Next]_vars
  PROVE  RemintInv'
<1>1. ASSUME NEW r \in Requests, Schedule(r)
      PROVE  RemintInv'
  <2>1. Fire(r, "sweep", "sweep", day) /\ \A q \in Requests : ~Idle(q) => chain[q] = day
    BY <1>1 DEF Schedule
  <2>. QED
    BY <2>1, FireRemints
<1>2. ASSUME NEW r \in Requests, FireByHand(r)
      PROVE  RemintInv'
  <2>1. PICK route \in Routes, c \in Manual :
          Fire(r, route, IF route = "run" THEN "generate" ELSE route, c)
    BY <1>2 DEF FireByHand
  <2>2. (IF route = "run" THEN "generate" ELSE route) \in {"sweep", "match", "generate"}
    BY DEF Routes
  <2>3. \A q \in Requests : Idle(q)
    BY <1>2 DEF FireByHand
  <2>. QED
    BY <2>1, <2>2, <2>3, FireRemints
<1>3. ASSUME NEW r \in Requests, Sweep(r)
      PROVE  RemintInv'
  <2>1. pc[r] # "idle" /\ pc' = [pc EXCEPT ![r] = "write"] /\ UNCHANGED <<ledger, chain>>
    BY <1>3 DEF Sweep
  <2>2. InTurn(r) /\ todo' = [todo EXCEPT ![r] = todo'[r]]
    BY <1>3, SweepInTurn, SweepType
  <2>. QED
    BY <2>1, <2>2, ComposeRemints
<1>4. ASSUME NEW r \in Requests, Match(r)
      PROVE  RemintInv'
  <2>1. pc[r] # "idle" /\ pc' = [pc EXCEPT ![r] = "write"] /\ UNCHANGED <<ledger, chain>>
    BY <1>4 DEF Match
  <2>2. InTurn(r) /\ todo' = [todo EXCEPT ![r] = todo'[r]]
    BY <1>4, MatchInTurn, MatchType
  <2>. QED
    BY <2>1, <2>2, ComposeRemints
<1>5. ASSUME NEW r \in Requests, Generate(r)
      PROVE  RemintInv'
  <2>1. pc[r] # "idle" /\ pc' = [pc EXCEPT ![r] = "mint"] /\ UNCHANGED <<ledger, chain>>
    BY <1>5, Zenon DEF Generate
  <2>2. InTurn(r) /\ todo' = [todo EXCEPT ![r] = todo'[r]]
    BY <1>5, GenerateInTurn, GenerateType DEF RemintInv
  <2>. QED
    BY <2>1, <2>2, ComposeRemints
<1>6. ASSUME NEW r \in Requests, Write(r) \/ LoseResponse(r)
      PROVE  RemintInv'
  <2>1. PICK row \in First(todo[r]) :
          Merge(row) /\ (todo' = todo \/ todo' = [todo EXCEPT ![r] = @ \ {row}])
    BY <1>6 DEF Write, LoseResponse, requestVars
  <2>2. row \in todo[r] /\ UNCHANGED <<pc, chain>>
    BY <1>6, <2>1 DEF First, Write, LoseResponse, requestVars
  <2>. QED
    BY <2>1, <2>2, MergeRemints
<1>7. ASSUME NEW r \in Requests, Written(r)
      PROVE  RemintInv'
  <2>1. pc[r] # "idle" /\ todo[r] = {} /\ ledger' = ledger
    BY <1>7 DEF Written, Writing
  <2>2. CASE pc' = [pc EXCEPT ![r] = "generate"] /\ UNCHANGED <<job, chain, at, todo, awaits>>
    <3>1. todo' = [todo EXCEPT ![r] = {}]
      BY <2>1, <2>2 DEF TypeOK
    <3>. QED
      BY <2>1, <2>2, <3>1, EndRemints
  <2>3. CASE Answer(r, TRUE)
    BY <2>1, <2>3, AnswerRemints
  <2>. QED
    BY <1>7, <2>2, <2>3 DEF Written
<1>8. ASSUME NEW r \in Requests, GenerationFails(r) \/ Fail(r)
      PROVE  RemintInv'
  <2>1. ledger' = ledger /\ \E ok \in BOOLEAN : Answer(r, ok)
    BY <1>8 DEF GenerationFails, Fail
  <2>. QED
    BY <2>1, AnswerRemints
<1>9. CASE NextDay \/ UNCHANGED vars
  <2>1. UNCHANGED <<ledger, pc, chain, todo>>
    BY <1>9 DEF NextDay, vars
  <2>. QED
    BY <2>1 DEF RemintInv, OneChain, Idle, SameCall, Rows, MintsFollow, Follows, MintDay,
       RemintedAfterClosing, Positions
<1>. QED
  BY <1>1, <1>2, <1>3, <1>4, <1>5, <1>6, <1>7, <1>8, <1>9 DEF Next, Serve

\* As long as no two chains are at work together, a subject is taken up again only
\* once its call has closed: the read of the live subjects sees what the other
\* chains minted (LIVE_SUBJECTS_QUERY, generation/signals.py).
THEOREM RemintedCorrect ==
  ASSUME Overlap # "any"
  PROVE  Spec => []RemintedAfterClosing
<1>1. Init => RemintInv
  BY DEF Init, RemintInv, OneChain, Idle, SameCall, Rows, MintsFollow, RemintedAfterClosing,
     Positions
<1>2. TypeOK /\ HasLatest /\ ClosedInv /\ RemintInv /\ [Next]_vars => RemintInv'
  BY StepRemints DEF ClosedInv
<1>. QED
  BY <1>1, <1>2, TypeCorrect, ClosedInvariance, PTL DEF Spec, RemintInv
=============================================================================

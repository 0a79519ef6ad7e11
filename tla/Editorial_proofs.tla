-------------------------- MODULE Editorial_proofs --------------------------
(***************************************************************************)
(* Theorems about the editorial service, for any nominations, candidates,  *)
(* trends and attempts, however many responses are lost and whether or not *)
(* attempts overlap.                                                       *)
(***************************************************************************)
EXTENDS Editorial, TLAPS

----------------------------------------------------------------------------
(* What an execution of the procedure does to the tables. *)

Promotes(c) == PromoteRows(c) \/ \E t \in Minted : Merge(c, t)

\* It promotes its candidate and no other, and mints trends of it only: one, if
\* the candidate has one row.
LEMMA PromotesTables ==
  ASSUME NEW c \in Candidates, TableTypes, Promotes(c), UNCHANGED rows
  PROVE /\ TableTypes'
        /\ Minted \subseteq Minted'
        /\ promotedTo'[c] \in Minted' /\ promotedTo'[c] # NoTrend
        /\ \A b \in Candidates : b # c => promotedTo'[b] = promotedTo[b]
        /\ \A t \in Minted : origin'[t] = origin[t]
        /\ \A t \in Minted' \ Minted : origin'[t] = c
        /\ c \notin twice => \A t \in Minted' \ Minted : promotedTo'[c] = t
        /\ UNCHANGED <<rejected, deferred>>
<1> USE NoTrendAssumption, NoCandidateAssumption
<1>1. CASE PromoteNew(c)
  <2>1. PICK t \in Trends \ Minted :
          /\ origin' = [origin EXCEPT ![t] = c]
          /\ promotedTo' = [promotedTo EXCEPT ![c] = t]
          /\ UNCHANGED <<dedupOf, rejected, deferred>>
    BY <1>1 DEF PromoteNew
  <2>2. Minted' = Minted \cup {t}
    BY <2>1 DEF Minted, TableTypes
  <2>3. TableTypes'
    BY <2>1 DEF TableTypes, Minted
  <2> QED
    BY <2>1, <2>2, <2>3 DEF TableTypes, Minted
<1>2. CASE c \in twice /\ PromoteRows(c) /\ ~PromoteNew(c)
  <2>1. PICK t \in Trends \ Minted, u \in Trends \ Minted :
          /\ origin' = [origin EXCEPT ![t] = c, ![u] = c]
          /\ promotedTo' = [promotedTo EXCEPT ![c] = t]
          /\ UNCHANGED <<dedupOf, rejected, deferred>>
    BY <1>2 DEF PromoteRows
  <2>2. Minted' = Minted \cup {t, u}
    BY <2>1 DEF Minted, TableTypes
  <2>3. TableTypes'
    BY <2>1 DEF TableTypes, Minted
  <2> QED
    BY <1>2, <2>1, <2>2, <2>3 DEF TableTypes, Minted
<1>3. CASE \E t \in Minted : Merge(c, t)
  <2>1. PICK t \in Minted : Merge(c, t)
    BY <1>3
  <2>2. Minted' = Minted /\ origin' = origin /\ t \in Trends
    BY <2>1 DEF Merge, Minted
  <2>3. TableTypes'
    BY <2>1, <2>2 DEF TableTypes, Merge
  <2> QED
    BY <2>1, <2>2, <2>3 DEF TableTypes, Merge
<1> QED
  BY <1>1, <1>2, <1>3 DEF Promotes, PromoteRows

\* A decision on a candidate that is undecided, or repeated, keeps what is
\* known of the trends.
LEMMA PromotesAgrees ==
  ASSUME NEW c \in Candidates, TableTypes, PromotedExist, TrendsAgree, Promotes(c),
         c \in rows, UNCHANGED <<rows, repeated>>,
         c \in repeated \/ (promotedTo[c] = NoTrend /\ c \notin twice)
  PROVE PromotedExist' /\ TrendsAgree'
<1>1. PromotedExist'
  BY PromotesTables DEF PromotedExist
<1>2. TrendsAgree'
  <2> SUFFICES ASSUME NEW t \in Minted', origin'[t] \notin repeated
               PROVE promotedTo'[origin'[t]] = t
    BY DEF TrendsAgree
  <2>1. CASE t \in Minted
    <3>1. origin[t] \in Candidates /\ promotedTo[origin[t]] = t /\ t # NoTrend
          /\ origin'[t] = origin[t]
      BY <2>1, PromotesTables, NoTrendAssumption DEF TrendsAgree, TableTypes, Minted
    <3> QED
      BY <3>1, PromotesTables
  <2>2. CASE t \notin Minted
    BY <2>2, PromotesTables
  <2> QED
    BY <2>1, <2>2
<1> QED
  BY <1>1, <1>2

\* Promoting a candidate that is pending, or repeated and not held, is a step
\* of CandidateOutcome.
LEMMA PromotesImplements ==
  ASSUME NEW c \in Candidates, TableTypes, Promotes(c), UNCHANGED <<rows, repeated>>,
         rejected = {}, deferred[c] = "no",
         c \in repeated \/ (promotedTo[c] = NoTrend /\ c \notin twice)
  PROVE Abstract!Next
<1> DEFINE before == [b \in Candidates |-> OutcomeOf(b)]
<1>1. before[c] = "pending" \/ (c \in repeated /\ before[c] = "promoted")
  BY DEF OutcomeOf
<1>2. [b \in Candidates |-> OutcomeOf(b)'] = [before EXCEPT ![c] = "promoted"]
  <2>1. \A b \in Candidates : b # c => OutcomeOf(b)' = OutcomeOf(b)
    BY PromotesTables DEF OutcomeOf
  <2>2. OutcomeOf(c)' = "promoted"
    BY PromotesTables DEF OutcomeOf
  <2> QED
    BY <2>1, <2>2
<1>3. Abstract!Decide(c, "promoted")
  BY <1>1, <1>2 DEF Abstract!Decide
<1>4. CASE PromoteNew(c)
  <2>1. PICK t \in Trends \ Minted :
          /\ origin' = [origin EXCEPT ![t] = c]
          /\ promotedTo' = [promotedTo EXCEPT ![c] = t]
    BY <1>4 DEF PromoteNew
  <2>2. origin' = [u \in Trends |-> IF u \in {t} THEN c ELSE origin[u]]
    BY <2>1 DEF TableTypes
  <2>3. t \in {u \in Trends : origin[u] = NoCandidate}
    BY <2>1 DEF Minted
  <2>4. Abstract!Mint(c, t)
    BY <1>3, <2>1, <2>2, <2>3 DEF Abstract!Mint
  <2> QED
    BY <2>1, <2>4 DEF Abstract!Next
<1>5. CASE c \in twice /\ PromoteRows(c) /\ ~PromoteNew(c)
  <2>1. PICK t \in Trends \ Minted, u \in Trends \ Minted :
          /\ origin' = [origin EXCEPT ![t] = c, ![u] = c]
          /\ promotedTo' = [promotedTo EXCEPT ![c] = t]
    BY <1>5 DEF PromoteRows
  <2>2. origin' = [v \in Trends |-> IF v \in {t, u} THEN c ELSE origin[v]]
    BY <2>1 DEF TableTypes
  <2>3. {t, u} \in SUBSET {v \in Trends : origin[v] = NoCandidate}
    BY <2>1 DEF Minted
  <2>4. Abstract!Mint(c, t)
    BY <1>3, <1>5, <2>1, <2>2, <2>3 DEF Abstract!Mint
  <2> QED
    BY <2>1, <2>4 DEF Abstract!Next
<1>6. CASE \E t \in Minted : Merge(c, t)
  <2>1. PICK t \in Minted : Merge(c, t)
    BY <1>6
  <2>2. Abstract!Merge(c, t)
    BY <1>3, <2>1 DEF Merge, Abstract!Merge, Minted
  <2> QED
    BY <2>1, <2>2 DEF Abstract!Next, Minted
<1> QED
  BY <1>4, <1>5, <1>6 DEF Promotes, PromoteRows

----------------------------------------------------------------------------
(* Types. *)

\* No attempt is live over empty tables.
LEMMA InitTypes == Init => TypeOK
BY BoundsAssumption DEF Init, EmptyTables, TypeOK, TableTypes, Step, Minted

\* An applied decision, of whichever caller, keeps the types of the tables and
\* of the retired trends.
LEMMA DecisionTypes ==
  ASSUME TableTypes, retired \in SUBSET Minted, NEW c \in Candidates,
         Promotes(c), UNCHANGED <<rows, retired>>
  PROVE TableTypes' /\ retired' \in SUBSET Minted'
BY PromotesTables

\* So does an inserted row.
LEMMA InsertTypes ==
  ASSUME TypeOK, NEW n \in Nominations, InsertRow(n), UNCHANGED retired
  PROVE TableTypes' /\ retired' \in SUBSET Minted' /\ twice' \in SUBSET Nominations
BY NominationsAssumption DEF TypeOK, InsertRow, decisions, TableTypes, Minted

\* The statements of an attempt keep the types.
LEMMA AttemptTypes ==
  ASSUME TypeOK, NEW a \in Attempts, Attempt(a) \/ Fail(a)
  PROVE TypeOK'
<1> USE NominationsAssumption, NoCandidateAssumption DEF TypeOK, GoTo, Step
<1>0. /\ pc[a] # "idle" => held[a] \in Nominations /\ held[a] \in Candidates
      /\ held[a] # NoCandidate => held[a] \in Candidates
      /\ [tries EXCEPT ![a] = 0] \in [Attempts -> 0 .. MaxAttempts - 1]
  BY BoundsAssumption
<1>1. CASE Read(a) \/ Judge(a) \/ MergeSignals(a) \/ MarkResurgent(a)
  <2>1. UNCHANGED tables /\ UNCHANGED Minted /\ UNCHANGED <<twice, tries, losses, late, repeated>>
    BY <1>1 DEF Read, Judge, MergeSignals, MarkResurgent, tables, Minted, locals, network
  <2>2. target' \in [Attempts -> Trends \cup {NoTrend}]
    BY <1>0, <1>1 DEF Read, Judge, MergeSignals, MarkResurgent, locals, TableTypes, Minted
  <2>3. /\ retired' \in SUBSET Minted /\ signals' \in SUBSET Nominations
        /\ UNCHANGED <<task, held>>
    BY <1>0, <1>1 DEF Read, Judge, MergeSignals, MarkResurgent, locals
  <2>4. pc[a] # "idle" /\ \E s \in Step \ {"idle"} : pc' = [pc EXCEPT ![a] = s]
    BY <1>1 DEF Read, Judge, MergeSignals, MarkResurgent
  <2>5. TableTypes'
    BY <2>1 DEF TableTypes, tables
  <2> QED
    BY <2>1, <2>2, <2>3, <2>4, <2>5
<1>2. CASE InsertCandidate(a)
  <2>1. TableTypes' /\ retired' \in SUBSET Minted' /\ twice' \in SUBSET Nominations
    BY <1>0, <1>2, InsertTypes DEF InsertCandidate
  <2> QED
    BY <1>0, <1>2, <2>1 DEF InsertCandidate, Settled, network
<1>3. CASE ApplyPromotion(a)
  <2>1. TableTypes' /\ retired' \in SUBSET Minted'
    BY <1>0, <1>3, DecisionTypes DEF ApplyPromotion, MergeIntoExisting, Promotes
  <2> QED
    BY <1>0, <1>3, <2>1 DEF ApplyPromotion, Settled, network
<1>4. CASE Answer(a) \/ Fail(a)
  <2>1. /\ UNCHANGED tables /\ UNCHANGED Minted
        /\ UNCHANGED <<signals, twice, retired, losses, late, repeated>>
        /\ pc' = [pc EXCEPT ![a] = "idle"] /\ held' = [held EXCEPT ![a] = NoCandidate]
        /\ target' = [target EXCEPT ![a] = NoTrend] /\ tries' = [tries EXCEPT ![a] = 0]
    BY <1>4 DEF Answer, Fail, Exit, tables, Minted, network
  <2>2. task' \in [Nominations -> {"none", "queued", "done"}]
    BY <1>0, <1>4 DEF Answer, Fail
  <2>3. TableTypes'
    BY <2>1 DEF TableTypes, tables
  <2> QED
    BY <1>0, <2>1, <2>2, <2>3
<1> QED
  BY <1>1, <1>2, <1>3, <1>4 DEF Attempt

\* So do lost responses and what becomes of their executions.
LEMMA NetworkTypes ==
  ASSUME TypeOK,
         \/ \E a \in Attempts : LoseResponse(a)
         \/ \E x \in late : LateCommit(x) \/ LateEnds(x)
  PROVE TypeOK'
<1> USE NominationsAssumption, NoCandidateAssumption DEF TypeOK, GoTo, Step
<1>1. CASE \E a \in Attempts : LoseResponse(a)
  <2>1. PICK a \in Attempts : LoseResponse(a)
    BY <1>1
  <2>2. held[a] \in Nominations /\ pc[a] \in {"insert", "apply"}
    BY <2>1 DEF LoseResponse
  <2>3. losses + 1 \in 1 .. MaxLosses /\ losses' \in 0 .. MaxLosses
    BY <2>1, BoundsAssumption DEF LoseResponse
  <2>4. late' \in SUBSET Execution
    BY <2>1, <2>2, <2>3 DEF LoseResponse, Execution
  <2>5. tries' \in [Attempts -> 0 .. MaxAttempts - 1]
    BY <2>1, BoundsAssumption DEF LoseResponse, Exit
  <2>6. /\ UNCHANGED tables /\ UNCHANGED Minted /\ UNCHANGED <<task, signals, twice, retired>>
        /\ repeated' \in SUBSET Nominations
    BY <2>1, <2>2 DEF LoseResponse, tables, Minted
  <2>7. TableTypes'
    BY <2>6 DEF TableTypes, tables
  <2>8. /\ pc' \in [Attempts -> Step] /\ held' \in [Attempts -> Nominations \cup {NoCandidate}]
        /\ target' \in [Attempts -> Trends \cup {NoTrend}]
        /\ \A b \in Attempts : held'[b] = NoCandidate <=> pc'[b] = "idle"
    BY <2>1 DEF LoseResponse, Exit
  <2> QED
    BY <2>3, <2>4, <2>5, <2>6, <2>7, <2>8
<1>2. CASE \E x \in late : LateCommit(x)
  <2>1. PICK x \in late : LateCommit(x)
    BY <1>2
  <2>2. x.nomination \in Nominations /\ x.nomination \in Candidates
    BY DEF Execution
  <2>3. TableTypes' /\ retired' \in SUBSET Minted' /\ twice' \in SUBSET Nominations
    <3>1. CASE InsertRow(x.nomination)
      BY <2>1, <2>2, <3>1, InsertTypes DEF LateCommit
    <3>2. CASE ~InsertRow(x.nomination)
      <4>1. Promotes(x.nomination) /\ UNCHANGED <<rows, twice, retired>>
        BY <2>1, <3>2 DEF LateCommit, MergeIntoExisting, Promotes
      <4> QED
        BY <2>2, <4>1, DecisionTypes
    <3> QED
      BY <3>1, <3>2
  <2>4. UNCHANGED <<task, signals, pc, held, target, tries, losses, repeated>>
        /\ late' \in SUBSET Execution
    BY <2>1 DEF LateCommit, locals
  <2> QED
    BY <2>3, <2>4
<1>3. CASE \E x \in late : LateEnds(x)
  BY <1>3 DEF LateEnds, tables, locals, TableTypes, Minted
<1> QED
  BY <1>1, <1>2, <1>3

\* So do the queue, distillation, promotion and the lifecycle job.
LEMMA WorldTypes ==
  ASSUME TypeOK,
         \/ \E n \in Nominations : Accept(n) \/ \E a \in Attempts : Deliver(a, n)
         \/ \E c \in Candidates \ Nominations : NewCandidate(c) \/ PromotionMints(c)
         \/ \E t \in Trends : LifecycleRetires(t)
  PROVE TypeOK'
<1> USE NominationsAssumption, NoCandidateAssumption DEF TypeOK, GoTo, Step
<1>1. CASE \E n \in Nominations : Accept(n) \/ \E a \in Attempts : Deliver(a, n)
  BY <1>1 DEF Accept, Deliver, tables, locals, network, TableTypes, Minted
<1>2. CASE \E c \in Candidates \ Nominations : NewCandidate(c)
  BY <1>2 DEF NewCandidate, decisions, locals, network, TableTypes, Minted
<1>3. CASE \E c \in Candidates \ Nominations : PromotionMints(c)
  BY <1>3, DecisionTypes DEF PromotionMints, locals, network, Promotes, PromoteRows
<1>4. CASE \E t \in Trends : LifecycleRetires(t)
  BY <1>4 DEF LifecycleRetires, tables, locals, network, TableTypes, Minted
<1> QED
  BY <1>1, <1>2, <1>3, <1>4

\* Type correctness: only minted trends are ever RETIRED, an attempt forgets
\* its nomination when it ends, and the client stops after max_attempts.
THEOREM TypeCorrect == Spec => []TypeOK
<1>1. TypeOK /\ [Next]_vars => TypeOK'
  <2> SUFFICES ASSUME TypeOK, [Next]_vars
               PROVE TypeOK'
    OBVIOUS
  <2>1. CASE Next
    BY <2>1, AttemptTypes, NetworkTypes, WorldTypes DEF Next
  <2>2. CASE UNCHANGED vars
    BY <2>2 DEF vars, TypeOK, TableTypes, Minted
  <2> QED
    BY <2>1, <2>2
<1> QED
  BY <1>1, InitTypes, PTL DEF Spec


----------------------------------------------------------------------------
(* The inductive invariant. *)

\* Nothing is decided, attempted or lost initially.
LEMMA InitInv == Init => Inv
<1> SUFFICES ASSUME Init
             PROVE Inv
  OBVIOUS
<1>1. Minted = {}
  BY DEF Init, EmptyTables, Minted
<1>2. \A n \in Nominations : \A a \in Attempts : held[a] # n
  BY NominationsAssumption, NoCandidateAssumption DEF Init
<1> QED
  BY <1>1, <1>2, NominationsAssumption
     DEF Init, EmptyTables, Inv, DoneIsPromoted, PromotedExist, TrendsAgree, Knows, AloneOn, Fresh

\* What the tables say of trends stays true while nothing is decided.
LEMMA UndecidedKept ==
  ASSUME Inv, UNCHANGED decisions, rows \subseteq rows', repeated \subseteq repeated'
  PROVE PromotedExist' /\ TrendsAgree' /\ rejected' = {} /\ \A c \in Candidates : deferred'[c] = "no"
BY DEF Inv, decisions, PromotedExist, TrendsAgree, Minted

\* The steps before and after the two statements.
LEMMA StepsInv ==
  ASSUME TypeOK, Inv, NEW a \in Attempts,
         Read(a) \/ Judge(a) \/ MergeSignals(a) \/ MarkResurgent(a)
  PROVE Inv'
<1>1. /\ held[a] \in Nominations /\ held[a] \in Candidates
      /\ UNCHANGED <<rows, promotedTo, dedupOf, rejected, deferred, origin>>
      /\ UNCHANGED <<task, twice, held, late, repeated>>
      /\ \A b \in Attempts : b # a => pc'[b] = pc[b]
  BY NominationsAssumption
     DEF TypeOK, Read, Judge, MergeSignals, MarkResurgent, GoTo, locals, network, tables
<1>2. /\ pc[a] \in {"read", "judge", "judgeNew", "signals", "mark"}
      /\ pc'[a] \in {"judge", "apply"} => held[a] \in rows
      /\ pc'[a] \in {"mark", "done"} => promotedTo[held[a]] # NoTrend
      /\ pc'[a] \in {"judgeNew", "signals", "insert"} =>
           held[a] \notin rows \/ pc[a] \in {"judgeNew", "signals", "insert"}
      /\ pc'[a] \in {"judge", "judgeNew", "signals", "insert", "apply"} =>
           \/ promotedTo[held[a]] = NoTrend
           \/ pc[a] \in {"judge", "judgeNew", "signals", "insert", "apply"}
  BY <1>1 DEF Read, Judge, MergeSignals, MarkResurgent, GoTo, Inv, Knows, PromotedExist, TypeOK
<1>3. DoneIsPromoted' /\ \A b \in Attempts : Knows(b)'
  BY <1>1, <1>2 DEF Inv, DoneIsPromoted, Knows
<1>4. \A n \in Nominations : n \notin repeated => AloneOn(n)' /\ Fresh(n)'
  BY <1>1, <1>2 DEF Inv, AloneOn, Fresh
<1>5. PromotedExist' /\ TrendsAgree'
  BY <1>1, UndecidedKept DEF decisions
<1> QED
  BY <1>1, <1>3, <1>4, <1>5 DEF Inv

\* A row inserted by the only attempt or execution of its nomination, or for a
\* repeated one.
LEMMA InsertInv ==
  ASSUME TypeOK, Inv, NEW n \in Nominations, InsertRow(n),
         n \notin repeated => n \notin rows,
         UNCHANGED <<task, repeated>>,
         \/ \E a \in Attempts :
              /\ pc[a] = "insert" /\ held[a] = n /\ UNCHANGED <<held, late>>
              /\ pc' = [pc EXCEPT ![a] = "apply"]
         \/ \E x \in late :
              /\ x.nomination = n /\ x.statement = "insert" /\ UNCHANGED <<held, pc>>
              /\ late' = late \ {x}
  PROVE Inv'
<1>1. /\ UNCHANGED <<promotedTo, dedupOf, rejected, deferred, origin>>
      /\ rows' = rows \cup {n} /\ twice \subseteq twice' /\ twice' \subseteq twice \cup {n}
      /\ n \notin repeated => n \notin twice'
      /\ late' \subseteq late /\ held' = held
  BY DEF InsertRow, decisions, Inv, Fresh
<1>2. DoneIsPromoted' /\ PromotedExist' /\ TrendsAgree'
  BY <1>1, UndecidedKept DEF decisions, Inv, DoneIsPromoted
<1>3. \A b \in Attempts : Knows(b)'
  BY <1>1 DEF Inv, Knows, TypeOK
<1>4. ASSUME NEW m \in Nominations, m \notin repeated
      PROVE AloneOn(m)' /\ Fresh(m)'
  <2>1. AloneOn(m) /\ Fresh(m)
    BY <1>4 DEF Inv
  <2>2. AloneOn(m)'
    BY <1>1, <2>1 DEF AloneOn
  <2>3. Fresh(m)'
    <3>1. CASE m # n
      BY <1>1, <2>1, <3>1 DEF Fresh, TypeOK
    <3>2. CASE m = n
      <4>1. /\ \A b \in Attempts : held'[b] = n => pc'[b] = "apply" /\ promotedTo[n] = NoTrend
            /\ \A x \in late' : x.nomination # n
        BY <1>1, <2>1, <3>2 DEF AloneOn, Fresh, TypeOK
      <4> QED
        BY <1>1, <1>4, <3>2, <4>1 DEF Fresh
    <3> QED
      BY <3>1, <3>2
  <2> QED
    BY <2>2, <2>3
<1> QED
  BY <1>1, <1>2, <1>3, <1>4 DEF Inv

\* A decision of the only attempt or execution of its nomination, or on a
\* repeated one.
LEMMA DecisionInv ==
  ASSUME TypeOK, Inv, NEW n \in Nominations, Promotes(n), n \in rows,
         UNCHANGED <<rows, twice, task, repeated>>,
         \/ \E a \in Attempts :
              /\ pc[a] = "apply" /\ held[a] = n /\ UNCHANGED <<held, late>>
              /\ \E s \in {"mark", "done"} : pc' = [pc EXCEPT ![a] = s]
         \/ \E x \in late :
              /\ x.nomination = n /\ x.statement = "apply" /\ UNCHANGED <<held, pc>>
              /\ late' = late \ {x}
  PROVE Inv'
<1>1. n \in Candidates /\ (n \in repeated \/ (promotedTo[n] = NoTrend /\ n \notin twice))
  BY NominationsAssumption DEF Inv, Fresh
<1>2. PromotedExist' /\ TrendsAgree'
  BY <1>1, PromotesAgrees DEF Inv, TypeOK
<1>3. /\ promotedTo'[n] # NoTrend /\ UNCHANGED <<rejected, deferred>>
      /\ \A b \in Candidates : b # n => promotedTo'[b] = promotedTo[b]
  BY <1>1, PromotesTables DEF TypeOK
<1>4. DoneIsPromoted'
  BY <1>3, NominationsAssumption DEF DoneIsPromoted, Inv
<1>5. held' = held /\ late' \subseteq late
  OBVIOUS
<1>6. \A b \in Attempts : Knows(b)'
  BY <1>3, <1>5, NominationsAssumption DEF Inv, Knows, TypeOK
<1>7. ASSUME NEW m \in Nominations, m \notin repeated
      PROVE AloneOn(m)' /\ Fresh(m)'
  <2>1. AloneOn(m) /\ Fresh(m) /\ m \in Candidates
    BY <1>7, NominationsAssumption DEF Inv
  <2>2. AloneOn(m)'
    BY <1>5, <2>1 DEF AloneOn
  <2>3. CASE m # n
    BY <1>3, <1>5, <2>1, <2>2, <2>3 DEF Fresh, TypeOK
  <2>4. CASE m = n
    <3>1. /\ \A b \in Attempts : held'[b] = n => pc'[b] \in {"mark", "done"}
          /\ \A x \in late' : x.nomination # n
      BY <1>5, <2>1, <2>4 DEF AloneOn, TypeOK
    <3> QED
      BY <2>1, <2>2, <2>4, <3>1 DEF Fresh
  <2> QED
    BY <2>3, <2>4
<1> QED
  BY <1>2, <1>3, <1>4, <1>5, <1>6, <1>7 DEF Inv

\* The two statements, their responses received.
LEMMA StatementsInv ==
  ASSUME TypeOK, Inv, NEW a \in Attempts, InsertCandidate(a) \/ ApplyPromotion(a)
  PROVE Inv'
<1>1. held[a] \in Nominations
  BY DEF InsertCandidate, ApplyPromotion, TypeOK
<1>2. CASE InsertCandidate(a)
  <2>1. held[a] \notin repeated => held[a] \notin rows
    BY <1>1, <1>2 DEF Inv, Fresh, InsertCandidate
  <2> QED
    BY <1>1, <1>2, <2>1, InsertInv DEF InsertCandidate, GoTo, network
<1>3. CASE ApplyPromotion(a)
  <2>1. Promotes(held[a]) /\ held[a] \in rows
    BY <1>3 DEF ApplyPromotion, MergeIntoExisting, Promotes, Inv, Knows
  <2> QED
    BY <1>1, <1>3, <2>1, DecisionInv DEF ApplyPromotion, GoTo, network
<1> QED
  BY <1>2, <1>3

\* The statements nobody waits for.
LEMMA LateInv ==
  ASSUME TypeOK, Inv, NEW x \in late, LateCommit(x) \/ LateEnds(x)
  PROVE Inv'
<1>1. x.nomination \in Nominations
  BY DEF TypeOK, Execution
<1>2. CASE LateCommit(x) /\ x.statement = "insert"
  <2>1. x.nomination \notin repeated => x.nomination \notin rows
    BY <1>1, <1>2 DEF Inv, Fresh
  <2> QED
    BY <1>1, <1>2, <2>1, InsertInv DEF LateCommit, locals
<1>3. CASE LateCommit(x) /\ x.statement = "apply"
  <2>1. Promotes(x.nomination) /\ x.nomination \in rows
    BY <1>3 DEF LateCommit, MergeIntoExisting, Promotes, Inv
  <2> QED
    BY <1>1, <1>3, <2>1, DecisionInv DEF LateCommit, locals
<1>4. CASE LateEnds(x)
  <2>1. /\ UNCHANGED <<rows, promotedTo, dedupOf, rejected, deferred, origin>>
        /\ UNCHANGED <<task, twice, pc, held, repeated>> /\ late' \subseteq late
    BY <1>4 DEF LateEnds, tables, locals
  <2>2. PromotedExist' /\ TrendsAgree'
    BY <2>1, UndecidedKept DEF decisions
  <2>3. \A n \in Nominations : n \notin repeated => AloneOn(n)' /\ Fresh(n)'
    BY <2>1 DEF Inv, AloneOn, Fresh
  <2> QED
    BY <2>1, <2>2, <2>3 DEF Inv, DoneIsPromoted, Knows
<1> QED
  BY <1>2, <1>3, <1>4 DEF LateCommit

\* An attempt that ends leaves the others as they are.
LEMMA ExitInv ==
  ASSUME TypeOK, Inv, NEW a \in Attempts, Answer(a) \/ Fail(a)
  PROVE Inv'
<1>1. /\ UNCHANGED <<rows, promotedTo, dedupOf, rejected, deferred, origin>>
      /\ UNCHANGED <<twice, late, repeated>> /\ held[a] \in Nominations
      /\ pc' = [pc EXCEPT ![a] = "idle"] /\ held' = [held EXCEPT ![a] = NoCandidate]
      /\ \/ UNCHANGED task
         \/ promotedTo[held[a]] # NoTrend /\ task' = [task EXCEPT ![held[a]] = "done"]
  BY DEF Answer, Fail, Exit, GoTo, Inv, Knows, TypeOK, tables, network
<1>2. DoneIsPromoted'
  BY <1>1 DEF Inv, DoneIsPromoted, TypeOK
<1>3. \A b \in Attempts : Knows(b)'
  BY <1>1 DEF Inv, Knows, TypeOK
<1>4. \A n \in Nominations : n \notin repeated => AloneOn(n)' /\ Fresh(n)'
  <2>1. \A n \in Nominations : n # NoCandidate
    BY NominationsAssumption, NoCandidateAssumption
  <2> QED
    BY <1>1, <2>1 DEF Inv, AloneOn, Fresh, TypeOK
<1>5. PromotedExist' /\ TrendsAgree'
  BY <1>1, UndecidedKept DEF decisions
<1> QED
  BY <1>1, <1>2, <1>3, <1>4, <1>5 DEF Inv

\* A lost response leaves an execution behind: of a nomination that is repeated
\* from now on, or of one its attempt lets go.
LEMMA LoseInv ==
  ASSUME TypeOK, Inv, NEW a \in Attempts, LoseResponse(a)
  PROVE Inv'
<1> DEFINE n == held[a]
<1>1. /\ UNCHANGED <<rows, promotedTo, dedupOf, rejected, deferred, origin>>
      /\ UNCHANGED <<task, twice>> /\ n \in Nominations /\ pc[a] \in {"insert", "apply"}
      /\ repeated \subseteq repeated' /\ repeated' \subseteq repeated \cup {n}
  BY DEF LoseResponse, tables, TypeOK
<1>2. PICK x : x.nomination = n /\ x.statement = pc[a] /\ late' = late \cup {x}
  BY DEF LoseResponse
<1>3. \/ n \in repeated' /\ UNCHANGED <<pc, held>>
      \/ pc' = [pc EXCEPT ![a] = "idle"] /\ held' = [held EXCEPT ![a] = NoCandidate]
  BY DEF LoseResponse, Exit, GoTo
<1>4. PromotedExist' /\ TrendsAgree'
  BY <1>1, UndecidedKept DEF decisions
<1>5. DoneIsPromoted' /\ \A b \in Attempts : Knows(b)'
  BY <1>1, <1>3 DEF Inv, Knows, TypeOK, DoneIsPromoted
<1>6. \A y \in late' : y.statement = "apply" => y.nomination \in rows'
  BY <1>1, <1>2 DEF Inv, Knows
<1>7. ASSUME NEW m \in Nominations, m \notin repeated'
      PROVE AloneOn(m)' /\ Fresh(m)'
  <2>1. AloneOn(m) /\ Fresh(m) /\ m # NoCandidate
    BY <1>1, <1>7, NominationsAssumption, NoCandidateAssumption DEF Inv
  <2>2. CASE m # n
    BY <1>1, <1>2, <1>3, <2>1, <2>2 DEF AloneOn, Fresh, TypeOK
  <2>3. CASE m = n
    <3>1. \A b \in Attempts : held'[b] # n
      BY <1>3, <1>7, <2>1, <2>3 DEF AloneOn, TypeOK
    <3>2. \A y \in late' : y.nomination = n => y = x
      BY <1>2, <2>1, <2>3 DEF AloneOn
    <3>3. promotedTo[n] = NoTrend /\ (pc[a] = "insert" => n \notin rows)
      BY <1>1, <2>1, <2>3 DEF Fresh
    <3> QED
      BY <1>1, <1>2, <2>1, <2>3, <3>1, <3>2, <3>3 DEF AloneOn, Fresh
  <2> QED
    BY <2>2, <2>3
<1> QED
  BY <1>1, <1>4, <1>5, <1>6, <1>7 DEF Inv

\* A task delivered while its nomination is on the way makes it repeated.
LEMMA QueueInv ==
  ASSUME TypeOK, Inv, NEW n \in Nominations,
         Accept(n) \/ \E a \in Attempts : Deliver(a, n)
  PROVE Inv'
<1>1. CASE Accept(n)
  <2>1. UNCHANGED <<rows, promotedTo, dedupOf, rejected, deferred, origin>>
        /\ UNCHANGED <<twice, pc, held, late, repeated>>
    BY <1>1 DEF Accept, locals, network, tables
  <2>2. DoneIsPromoted'
    BY <1>1, <2>1 DEF Accept, TypeOK, DoneIsPromoted, Inv
  <2>3. PromotedExist' /\ TrendsAgree'
    BY <2>1, UndecidedKept DEF decisions
  <2> QED
    BY <2>1, <2>2, <2>3 DEF Inv, Knows, AloneOn, Fresh
<1>2. CASE \E a \in Attempts : Deliver(a, n)
  <2>1. PICK a \in Attempts : Deliver(a, n)
    BY <1>2
  <2>2. /\ UNCHANGED <<rows, promotedTo, dedupOf, rejected, deferred, origin>>
        /\ UNCHANGED <<task, twice, late>> /\ pc[a] = "idle"
        /\ pc' = [pc EXCEPT ![a] = "read"] /\ held' = [held EXCEPT ![a] = n]
        /\ repeated \subseteq repeated' /\ (OnTheWay(n) => n \in repeated')
    BY <2>1 DEF Deliver, GoTo, tables
  <2>3. PromotedExist' /\ TrendsAgree'
    BY <2>2, UndecidedKept DEF decisions
  <2>4. DoneIsPromoted' /\ \A b \in Attempts : Knows(b)'
    BY <2>2 DEF Inv, Knows, TypeOK, DoneIsPromoted
  <2>5. ASSUME NEW m \in Nominations, m \notin repeated'
        PROVE AloneOn(m)' /\ Fresh(m)'
    <3>1. AloneOn(m) /\ Fresh(m)
      BY <2>2, <2>5 DEF Inv
    <3>2. CASE m # n
      BY <2>2, <3>1, <3>2 DEF AloneOn, Fresh, TypeOK
    <3>3. CASE m = n
      <4>1. (\A b \in Attempts : held[b] # n) /\ \A x \in late : x.nomination # n
        BY <2>2, <2>5, <3>3 DEF OnTheWay
      <4> QED
        BY <2>2, <3>1, <3>3, <4>1 DEF AloneOn, Fresh, TypeOK
    <3> QED
      BY <3>2, <3>3
  <2> QED
    BY <2>2, <2>3, <2>4, <2>5 DEF Inv
<1> QED
  BY <1>1, <1>2

\* Distillation, promotion and the lifecycle job are about other candidates.
LEMMA WorldInv ==
  ASSUME TypeOK, Inv,
         \/ \E c \in Candidates \ Nominations : NewCandidate(c) \/ PromotionMints(c)
         \/ \E t \in Trends : LifecycleRetires(t)
  PROVE Inv'
<1>1. CASE \E c \in Candidates \ Nominations : NewCandidate(c)
  <2>1. /\ UNCHANGED <<promotedTo, dedupOf, rejected, deferred, origin>>
        /\ UNCHANGED <<task, twice, pc, held, late, repeated>>
        /\ rows \subseteq rows' /\ rows' \cap Nominations = rows \cap Nominations
    BY <1>1 DEF NewCandidate, decisions, locals, network
  <2>2. PromotedExist' /\ TrendsAgree'
    BY <2>1, UndecidedKept DEF decisions
  <2> QED
    BY <2>1, <2>2 DEF Inv, DoneIsPromoted, Knows, AloneOn, Fresh
<1>2. CASE \E c \in Candidates \ Nominations : PromotionMints(c)
  <2>1. PICK c \in Candidates \ Nominations : PromotionMints(c)
    BY <1>2
  <2>2. /\ Promotes(c) /\ c \in rows /\ promotedTo[c] = NoTrend /\ c \notin twice
        /\ UNCHANGED <<rows, task, twice, pc, held, late, repeated>>
    BY <2>1 DEF PromotionMints, PromoteNew, PromoteRows, Promotes, locals, network, TypeOK
  <2>3. PromotedExist' /\ TrendsAgree'
    BY <2>2, PromotesAgrees DEF Inv, TypeOK
  <2>4. /\ UNCHANGED <<rejected, deferred>>
        /\ \A n \in Nominations : promotedTo'[n] = promotedTo[n]
    BY <2>2, PromotesTables, NominationsAssumption DEF TypeOK
  <2>5. DoneIsPromoted'
    BY <2>2, <2>4 DEF Inv, DoneIsPromoted
  <2>6. \A b \in Attempts : Knows(b)'
    BY <2>2, <2>4 DEF Inv, Knows, TypeOK
  <2>7. \A n \in Nominations : n \notin repeated => AloneOn(n)' /\ Fresh(n)'
    BY <2>2, <2>4 DEF Inv, AloneOn, Fresh
  <2> QED
    BY <2>2, <2>3, <2>4, <2>5, <2>6, <2>7 DEF Inv
<1>3. CASE \E t \in Trends : LifecycleRetires(t)
  <2>1. UNCHANGED <<rows, promotedTo, dedupOf, rejected, deferred, origin>>
        /\ UNCHANGED <<task, twice, pc, held, late, repeated>>
    BY <1>3 DEF LifecycleRetires, locals, network, tables
  <2>2. PromotedExist' /\ TrendsAgree'
    BY <2>1, UndecidedKept DEF decisions
  <2> QED
    BY <2>1, <2>2 DEF Inv, DoneIsPromoted, Knows, AloneOn, Fresh
<1> QED
  BY <1>1, <1>2, <1>3

\* Whatever is lost and whoever overlaps, an attempt on a nomination that is
\* not repeated decides it while it is undecided.
THEOREM InvCorrect == Spec => []Inv
<1>1. TypeOK /\ Inv /\ [Next]_vars => Inv'
  <2> SUFFICES ASSUME TypeOK, Inv, [Next]_vars
               PROVE Inv'
    OBVIOUS
  <2>1. CASE Next
    BY <2>1, StepsInv, StatementsInv, LateInv, ExitInv, LoseInv, QueueInv, WorldInv
       DEF Next, Attempt
  <2>2. CASE UNCHANGED vars
    BY <2>2 DEF vars, Inv, Knows, AloneOn, Fresh, DoneIsPromoted, PromotedExist, TrendsAgree, Minted
  <2> QED
    BY <2>1, <2>2
<1> QED
  BY <1>1, InitInv, TypeCorrect, PTL DEF Spec

\* "one accepted nomination -> one editorial trend", of every nomination that
\* never had two executions on the way together.
COROLLARY OneTrendCorrect == Spec => []OneTrendUnlessRepeated
<1>1. Inv => OneTrendUnlessRepeated
  BY DEF Inv, TrendsAgree, OneTrendUnlessRepeated
<1> QED
  BY <1>1, InvCorrect, PTL

\* Cloud Tasks drops no nomination that is not promoted.
COROLLARY DoneCorrect == Spec => []DoneIsPromoted
<1>1. Inv => DoneIsPromoted
  BY DEF Inv
<1> QED
  BY <1>1, InvCorrect, PTL

\* The service decides nominations as CandidateOutcome promises.
THEOREM Implementation == Spec => ImplementsOutcome
<1>1. Init => Abstract!Init
  BY DEF Init, EmptyTables, Abstract!Init, OutcomeOf
<1>2. TypeOK /\ Inv /\ [Next]_vars => [Abstract!Next]_(Abstract!vars)
  <2> SUFFICES ASSUME TypeOK, Inv, [Next]_vars
               PROVE [Abstract!Next]_(Abstract!vars)
    OBVIOUS
  <2>1. ASSUME UNCHANGED decisions, UNCHANGED repeated
        PROVE UNCHANGED Abstract!vars
    BY <2>1 DEF decisions, Abstract!vars, OutcomeOf
  <2>2. ASSUME UNCHANGED decisions, NEW n \in Nominations, repeated' \in {repeated, repeated \cup {n}}
        PROVE Abstract!Next
    <3>1. UNCHANGED Abstract!facts
      BY <2>2 DEF decisions, Abstract!facts, OutcomeOf
    <3> QED
      BY <2>2, <3>1, NominationsAssumption DEF Abstract!Next
  <2>3. ASSUME NEW c \in Candidates, Promotes(c), UNCHANGED <<rows, repeated>>,
               c \in repeated \/ (promotedTo[c] = NoTrend /\ c \notin twice)
        PROVE Abstract!Next
    <3>1. TableTypes /\ rejected = {} /\ deferred[c] = "no"
      BY DEF TypeOK, Inv
    <3> QED
      BY <2>3, <3>1, PromotesImplements
  <2>4. ASSUME NEW a \in Attempts, Attempt(a) \/ LoseResponse(a) \/ Fail(a)
        PROVE [Abstract!Next]_(Abstract!vars)
    <3>1. CASE Read(a) \/ Judge(a) \/ MergeSignals(a) \/ InsertCandidate(a)
               \/ MarkResurgent(a) \/ Answer(a) \/ Fail(a)
      BY <2>1, <3>1 DEF Read, Judge, MergeSignals, InsertCandidate, InsertRow, MarkResurgent,
                        Answer, Fail, tables, decisions, network
    <3>2. CASE LoseResponse(a)
      <4>1. held[a] \in Nominations /\ repeated' \in {repeated, repeated \cup {held[a]}}
        BY <3>2 DEF LoseResponse, TypeOK
      <4> QED
        BY <2>2, <3>2, <4>1 DEF LoseResponse, tables, decisions
    <3>3. CASE ApplyPromotion(a)
      <4>1. /\ held[a] \in Candidates /\ Promotes(held[a]) /\ UNCHANGED <<rows, repeated>>
            /\ held[a] \in repeated \/ (promotedTo[held[a]] = NoTrend /\ held[a] \notin twice)
        BY <3>3, NominationsAssumption
           DEF ApplyPromotion, MergeIntoExisting, Promotes, TypeOK, Inv, Fresh, network
      <4> QED
        BY <2>3, <4>1
    <3> QED
      BY <2>4, <3>1, <3>2, <3>3 DEF Attempt
  <2>5. ASSUME NEW x \in late, LateCommit(x) \/ LateEnds(x)
        PROVE [Abstract!Next]_(Abstract!vars)
    <3>1. CASE UNCHANGED decisions
      BY <2>1, <2>5, <3>1 DEF LateCommit, LateEnds
    <3>2. CASE ~UNCHANGED decisions
      <4>1. LateCommit(x) /\ x.statement = "apply"
        BY <2>5, <3>2 DEF LateCommit, LateEnds, InsertRow, tables, decisions
      <4>2. /\ x.nomination \in Candidates /\ Promotes(x.nomination)
            /\ UNCHANGED <<rows, repeated>>
            /\ \/ x.nomination \in repeated
               \/ promotedTo[x.nomination] = NoTrend /\ x.nomination \notin twice
        BY <4>1, NominationsAssumption
           DEF LateCommit, MergeIntoExisting, Promotes, TypeOK, Execution, Inv, Fresh
      <4> QED
        BY <2>3, <4>2
    <3> QED
      BY <3>1, <3>2
  <2>6. ASSUME NEW n \in Nominations, NEW a \in Attempts, Deliver(a, n)
        PROVE Abstract!Next
    BY <2>2, <2>6 DEF Deliver, tables, decisions
  <2>7. ASSUME NEW c \in Candidates \ Nominations, PromotionMints(c)
        PROVE Abstract!Next
    <3>1. Promotes(c) /\ UNCHANGED <<rows, repeated>> /\ promotedTo[c] = NoTrend /\ c \notin twice
      BY <2>7 DEF PromotionMints, PromoteRows, Promotes, network, TypeOK
    <3> QED
      BY <2>3, <3>1
  <2>8. CASE \/ \E n \in Nominations : Accept(n)
             \/ \E c \in Candidates \ Nominations : NewCandidate(c)
             \/ \E t \in Trends : LifecycleRetires(t)
             \/ UNCHANGED vars
    BY <2>1, <2>8 DEF Accept, NewCandidate, LifecycleRetires, vars, tables, decisions, network
  <2> QED
    BY <2>4, <2>5, <2>6, <2>7, <2>8 DEF Next
<1> QED
  BY <1>1, <1>2, TypeCorrect, InvCorrect, PTL DEF Spec, ImplementsOutcome, Abstract!Spec
=============================================================================

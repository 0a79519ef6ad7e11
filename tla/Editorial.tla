------------------------------ MODULE Editorial ------------------------------
(***************************************************************************)
(* The editorial service (src/services/editorial-ingest): the accept route *)
(* queues one Cloud Tasks task per nomination, and each attempt of a task  *)
(* runs handle_nomination, whose statements commit one by one.  Cloud      *)
(* Tasks tries again until an attempt answers 2xx.  A nomination is a      *)
(* candidate with VERDICT NULL, which promotion leaves alone; promotion    *)
(* is here only for the trends it mints, and the lifecycle job only for    *)
(* the trends it retires.                                                  *)
(*                                                                         *)
(* Overlap: an attempt may still be running when the next begins.  The     *)
(* queue's dispatchDeadline and the service's TIMEOUT are both 900 s, but  *)
(* neither ends the thread a request runs on.                              *)
(*                                                                         *)
(* Lost responses: the service's client (RetryingSnowflakeClient) sends a  *)
(* statement again, in place, when its response does not come back; what   *)
(* becomes of the execution nobody waits for is Snowflake's business.  The *)
(* statements are kept apart where that matters, the candidate's INSERT    *)
(* and the procedure's CALL; the other three may be executed any number of *)
(* times to the same effect.                                               *)
(***************************************************************************)
EXTENDS PromotionApply, Naturals

CONSTANTS
  Nominations,  \* nomination ids, which are candidate ids
  Attempts,     \* attempts that may be live
  Overlap,
  MaxAttempts,  \* the client's max_attempts
  MaxLosses     \* bound: responses lost in a behaviour

ASSUME NominationsAssumption == Nominations \subseteq Candidates
ASSUME OverlapAssumption == Overlap \in BOOLEAN
ASSUME BoundsAssumption == MaxAttempts \in Nat \ {0} /\ MaxLosses \in Nat

VARIABLES
  task,      \* per nomination: its task
  signals,   \* nominations whose URLs are merged as signals
  twice,     \* nominations with two candidate rows
  retired,   \* trends whose latest lifecycle row is RETIRED
  pc,        \* per attempt: the step it runs next
  held,      \* per attempt: the nomination it works on
  target,    \* per attempt: the trend it merges into, NoTrend for a new one
  tries,     \* per attempt: responses lost to the statement it waits for
  losses,
  late,      \* executions nobody waits for, which may still commit
  repeated   \* history: nominations two of whose executions were on the way
             \* together, of two attempts or of one that sent a statement again

locals == <<held, target, tries>>
network == <<losses, late, repeated>>
vars == <<rows, promotedTo, dedupOf, rejected, deferred, origin, task, signals, twice,
          retired, pc, held, target, tries, losses, late, repeated>>

Step == {"idle", "read", "judge", "judgeNew", "signals", "insert", "apply", "mark", "done"}

Execution ==
  [no : 1 .. MaxLosses, statement : {"insert", "apply"},
   nomination : Nominations, target : Trends \cup {NoTrend}]

TypeOK ==
  /\ TableTypes
  /\ task \in [Nominations -> {"none", "queued", "done"}]
  /\ signals \in SUBSET Nominations
  /\ twice \in SUBSET Nominations
  /\ retired \in SUBSET Minted
  /\ pc \in [Attempts -> Step]
  /\ held \in [Attempts -> Nominations \cup {NoCandidate}]
  /\ \A a \in Attempts : held[a] = NoCandidate <=> pc[a] = "idle"
  /\ target \in [Attempts -> Trends \cup {NoTrend}]
  /\ tries \in [Attempts -> 0 .. MaxAttempts - 1]
  /\ losses \in 0 .. MaxLosses
  /\ late \in SUBSET Execution
  /\ repeated \in SUBSET Nominations

Init ==
  /\ EmptyTables
  /\ task = [n \in Nominations |-> "none"]
  /\ signals = {}
  /\ twice = {}
  /\ retired = {}
  /\ pc = [a \in Attempts |-> "idle"]
  /\ held = [a \in Attempts |-> NoCandidate]
  /\ target = [a \in Attempts |-> NoTrend]
  /\ tries = [a \in Attempts |-> 0]
  /\ losses = 0
  /\ late = {}
  /\ repeated = {}

----------------------------------------------------------------------------
(* The accept route and Cloud Tasks. *)

\* enqueue: a task whose name exists is left as it is.  Once the name of a
\* finished task is forgotten, a repeat of the nomination queues it again.
Accept(n) ==
  /\ task[n] # "queued"
  /\ task' = [task EXCEPT ![n] = "queued"]
  /\ UNCHANGED <<tables, signals, twice, retired, pc, locals, network>>

GoTo(a, step) == pc' = [pc EXCEPT ![a] = step]

\* Somebody is at work on the nomination, or an execution of it at large.
OnTheWay(n) ==
  \/ \E a \in Attempts : held[a] = n
  \/ \E x \in late : x.nomination = n

Deliver(a, n) ==
  /\ pc[a] = "idle"
  /\ task[n] = "queued"
  /\ Overlap \/ \A b \in Attempts : held[b] # n
  /\ GoTo(a, "read")
  /\ held' = [held EXCEPT ![a] = n]
  /\ repeated' = IF OnTheWay(n) THEN repeated \cup {n} ELSE repeated
  /\ UNCHANGED <<tables, task, signals, twice, retired, target, tries, losses, late>>

----------------------------------------------------------------------------
(* handle_nomination. *)

\* Mutants: a row is taken for an unfinished nomination, or for a finished one;
\* the done path leaves the RESURGENT row to the attempt that promoted.
ReadRowIsUndone(a) ==
  /\ pc[a] = "read"
  /\ GoTo(a, IF held[a] \in rows THEN "judge" ELSE "judgeNew")
  /\ UNCHANGED <<tables, task, signals, twice, retired, locals, network>>

ReadRowIsDone(a) ==
  /\ pc[a] = "read"
  /\ GoTo(a, IF held[a] \in rows THEN "done" ELSE "judgeNew")
  /\ UNCHANGED <<tables, task, signals, twice, retired, locals, network>>

ReadWithoutMark(a) ==
  /\ pc[a] = "read"
  /\ GoTo(a, IF held[a] \notin rows THEN "judgeNew"
             ELSE IF promotedTo[held[a]] # NoTrend THEN "done" ELSE "judge")
  /\ UNCHANGED <<tables, task, signals, twice, retired, locals, network>>

\* read_candidate: the candidate row is the checkpoint.
Read(a) ==
  LET n == held[a] IN
  /\ pc[a] = "read"
  /\ \/ n \notin rows /\ GoTo(a, "judgeNew") /\ UNCHANGED target
     \/ /\ n \in rows
        /\ promotedTo[n] = NoTrend
        /\ GoTo(a, "judge")
        /\ UNCHANGED target
     \/ /\ n \in rows
        /\ promotedTo[n] # NoTrend
        /\ GoTo(a, IF dedupOf[n] # NoTrend THEN "mark" ELSE "done")
        /\ target' = [target EXCEPT ![a] = dedupOf[n]]
  /\ UNCHANGED <<tables, task, signals, twice, retired, held, tries, network>>

\* write_topic and judge_sameness: the judge names a live trend, or none.
Judge(a) ==
  /\ pc[a] \in {"judge", "judgeNew"}
  /\ \E match \in Minted \cup {NoTrend} : target' = [target EXCEPT ![a] = match]
  /\ GoTo(a, IF pc[a] = "judge" THEN "apply" ELSE "signals")
  /\ UNCHANGED <<tables, task, signals, twice, retired, held, tries, network>>

MergeSignals(a) ==
  /\ pc[a] = "signals"
  /\ signals' = signals \cup {held[a]}
  /\ GoTo(a, "insert")
  /\ UNCHANGED <<tables, task, twice, retired, locals, network>>

\* NOT EXISTS guards the row, except against an INSERT that began before the
\* row was committed.
InsertRow(n) ==
  /\ rows' = rows \cup {n}
  /\ \/ UNCHANGED twice
     \/ n \in rows /\ twice' = twice \cup {n}
  /\ UNCHANGED decisions

Settled(a) == tries' = [tries EXCEPT ![a] = 0]

InsertCandidate(a) ==
  /\ pc[a] = "insert"
  /\ InsertRow(held[a])
  /\ GoTo(a, "apply")
  /\ Settled(a)
  /\ UNCHANGED <<task, signals, retired, held, target, network>>

\* PROMOTE_NEW copies every row of the candidate into FCT_TRENDS; the trend it
\* then reads back and marks the candidate with is one of them.
PromoteRows(n) ==
  \/ PromoteNew(n)
  \/ /\ n \in twice
     /\ \E t, u \in Trends \ Minted :
          /\ t # u
          /\ origin' = [origin EXCEPT ![t] = n, ![u] = n]
          /\ promotedTo' = [promotedTo EXCEPT ![n] = t]
     /\ UNCHANGED <<dedupOf, rejected, deferred>>

\* Mutant: the procedure's answer is not looked at.
ApplyPromotionIgnoringErrors(a) ==
  /\ pc[a] = "apply"
  /\ GoTo(a, "done")
  /\ \/ target[a] = NoTrend /\ PromoteRows(held[a])
     \/ target[a] # NoTrend /\ MergeIntoExisting(held[a], target[a])
     \/ UNCHANGED decisions
  /\ Settled(a)
  /\ UNCHANGED <<rows, task, signals, twice, retired, held, target, network>>

\* apply_promotion, its response received; an error the procedure reports
\* raises (Fail).  A new trend is dispatched, which no later step depends on.
ApplyPromotion(a) ==
  /\ pc[a] = "apply"
  /\ \/ target[a] = NoTrend /\ PromoteRows(held[a]) /\ GoTo(a, "done")
     \/ target[a] # NoTrend /\ MergeIntoExisting(held[a], target[a]) /\ GoTo(a, "mark")
  /\ Settled(a)
  /\ UNCHANGED <<rows, task, signals, twice, retired, held, target, network>>

\* mark_resurgent: a RESURGENT row, if the latest row is RETIRED.
MarkResurgent(a) ==
  /\ pc[a] = "mark"
  /\ retired' = retired \ {target[a]}
  /\ GoTo(a, "done")
  /\ UNCHANGED <<tables, task, signals, twice, locals, network>>

\* The attempt is over, and its memory gone.
Exit(a) ==
  /\ GoTo(a, "idle")
  /\ held' = [held EXCEPT ![a] = NoCandidate]
  /\ target' = [target EXCEPT ![a] = NoTrend]
  /\ tries' = [tries EXCEPT ![a] = 0]

\* Mutant: the attempt is not forgotten.
AnswerKeepsHold(a) ==
  /\ pc[a] = "done"
  /\ GoTo(a, "idle")
  /\ task' = [task EXCEPT ![held[a]] = "done"]
  /\ UNCHANGED <<tables, signals, twice, retired, locals, network>>

\* 2xx: Cloud Tasks deletes the task.
Answer(a) ==
  /\ pc[a] = "done"
  /\ Exit(a)
  /\ task' = [task EXCEPT ![held[a]] = "done"]
  /\ UNCHANGED <<tables, signals, twice, retired, network>>

\* A step raises, the instance dies, or the answer is lost.
Fail(a) ==
  /\ pc[a] # "idle"
  /\ Exit(a)
  /\ UNCHANGED <<tables, task, signals, twice, retired, network>>

----------------------------------------------------------------------------
(* The client and the connection. *)

\* _run: a statement whose response is lost, committed or not, is sent again
\* while attempts are left.  After the last, on an error that is not transient
\* (the audit row's, after the commit), or with the instance, the attempt ends.
LoseResponse(a) ==
  LET n == held[a] IN
  /\ pc[a] \in {"insert", "apply"}
  /\ losses < MaxLosses
  /\ losses' = losses + 1
  /\ late' = late \cup
       {[no |-> losses + 1, statement |-> pc[a], nomination |-> n, target |-> target[a]]}
  /\ \/ /\ tries[a] + 1 < MaxAttempts
        /\ tries' = [tries EXCEPT ![a] = @ + 1]
        /\ repeated' = repeated \cup {n}
        /\ UNCHANGED <<pc, held, target>>
     \/ Exit(a) /\ UNCHANGED repeated
  /\ UNCHANGED <<tables, task, signals, twice, retired>>

\* What nobody waits for commits after all...
LateCommit(x) ==
  LET n == x.nomination IN
  /\ x \in late
  /\ \/ x.statement = "insert" /\ InsertRow(n)
     \/ /\ x.statement = "apply"
        /\ \/ x.target = NoTrend /\ PromoteRows(n)
           \/ x.target # NoTrend /\ MergeIntoExisting(n, x.target)
        /\ UNCHANGED <<rows, twice>>
  /\ late' = late \ {x}
  /\ UNCHANGED <<task, signals, retired, pc, locals, losses, repeated>>

\* ...or never ran, or fails.
LateEnds(x) ==
  /\ x \in late
  /\ late' = late \ {x}
  /\ UNCHANGED <<tables, task, signals, twice, retired, pc, locals, losses, repeated>>

----------------------------------------------------------------------------
(* The trends' other owners. *)

\* Distillation writes a candidate...
NewCandidate(c) ==
  /\ c \notin rows
  /\ rows' = rows \cup {c}
  /\ UNCHANGED <<decisions, task, signals, twice, retired, pc, locals, network>>

\* ...and promotion mints a trend from it, as Promotion has it: once.
PromotionMints(c) ==
  /\ promotedTo[c] = NoTrend
  /\ PromoteNew(c)
  /\ UNCHANGED <<rows, task, signals, twice, retired, pc, locals, network>>

\* The lifecycle job retires a trend.
LifecycleRetires(t) ==
  /\ t \in Minted \ retired
  /\ retired' = retired \cup {t}
  /\ UNCHANGED <<tables, task, signals, twice, pc, locals, network>>

Attempt(a) ==
  \/ Read(a) \/ Judge(a) \/ MergeSignals(a) \/ InsertCandidate(a)
  \/ ApplyPromotion(a) \/ MarkResurgent(a) \/ Answer(a)

Next ==
  \/ \E a \in Attempts :
       Attempt(a) \/ LoseResponse(a) \/ Fail(a) \/ \E n \in Nominations : Deliver(a, n)
  \/ \E n \in Nominations : Accept(n)
  \/ \E x \in late : LateCommit(x) \/ LateEnds(x)
  \/ \E c \in Candidates \ Nominations : NewCandidate(c) \/ PromotionMints(c)
  \/ \E t \in Trends : LifecycleRetires(t)

\* Cloud Tasks delivers a queued task again and again, and an attempt that does
\* not fail runs to its end.  Nothing is assumed of the callers, of executions
\* nobody waits for, of promotion or of the lifecycle job.
Fairness ==
  /\ \A n \in Nominations : SF_vars(\E a \in Attempts : Deliver(a, n))
  /\ \A a \in Attempts : WF_vars(Attempt(a))

Spec == Init /\ [][Next]_vars
FairSpec == Spec /\ Fairness

----------------------------------------------------------------------------
(* Properties. *)

\* One nomination, one trend: but for nominations that had two executions on
\* the way together, wherever attempts stop and whatever response is lost.
OneTrendUnlessRepeated ==
  \A t, u \in Minted :
    origin[t] = origin[u] /\ origin[t] \notin repeated => t = u

\* A nomination whose task was answered 2xx is promoted, however many attempts
\* it took and wherever they stopped (the route's whole retry contract).
DoneIsPromoted ==
  \A n \in Nominations : task[n] = "done" => promotedTo[n] # NoTrend

Abstract == INSTANCE CandidateOutcome WITH
  outcome <- [c \in Candidates |-> OutcomeOf(c)],
  trendOf <- promotedTo,
  mintedBy <- origin,
  again <- repeated

\* Candidates are decided as CandidateOutcome promises: once each, and again
\* only those that had two executions on the way together.
ImplementsOutcome == Abstract!Spec

\* Attempts fail for ever: Cloud Tasks' retries come to nothing.
FailsForEver ==
  ~<>[][\A a \in Attempts : Fail(a) \/ LoseResponse(a) => Answer(a)]_vars

\* Cloud Tasks stops retrying only because an attempt got through: unless
\* attempts fail for ever, every accepted nomination is promoted.
NominationSettles ==
  FailsForEver \/
    \A n \in Nominations : task[n] = "queued" ~> promotedTo[n] # NoTrend

\* A merge into a RETIRED trend brings it back, though the merge and the
\* RESURGENT row commit apart and an attempt may die between them.  (It may
\* retire anew once an attempt has written the row and not yet answered; and
\* a merge that commits with nobody waiting for it may name another trend
\* than the row of the attempt that answers.)
RetiredTargetRevived ==
  FailsForEver \/
    \A n \in Nominations, t \in Trends :
      /\ task[n] = "queued" /\ dedupOf[n] = t /\ t \in retired
      /\ \A a \in Attempts : held[a] = n => pc[a] # "done"
      ~> t \notin retired \/ n \in repeated

----------------------------------------------------------------------------
(* Inductive invariant. *)

\* A nomination that is not repeated has one attempt or execution at most...
AloneOn(n) ==
  /\ \A a, b \in Attempts : held[a] = n /\ held[b] = n => a = b
  /\ \A x, y \in late : x.nomination = n /\ y.nomination = n => x = y
  /\ \A a \in Attempts, x \in late : ~(held[a] = n /\ x.nomination = n)

\* ...and no row until that one inserts it, no trend until that one decides.
Fresh(n) ==
  /\ n \notin twice
  /\ \A a \in Attempts :
       held[a] = n =>
         /\ pc[a] \in {"judgeNew", "signals", "insert"} => n \notin rows
         /\ pc[a] \in {"judge", "judgeNew", "signals", "insert", "apply"} =>
              promotedTo[n] = NoTrend
  /\ \A x \in late :
       x.nomination = n =>
         /\ x.statement = "insert" => n \notin rows
         /\ promotedTo[n] = NoTrend

\* What any attempt and any execution may rely on.
Knows(a) ==
  /\ pc[a] \in {"judge", "apply"} => held[a] \in rows
  /\ pc[a] \in {"mark", "done"} => promotedTo[held[a]] # NoTrend

PromotedExist ==
  \A c \in Candidates : promotedTo[c] # NoTrend => promotedTo[c] \in Minted /\ c \in rows

TrendsAgree ==
  \A t \in Minted : origin[t] \notin repeated => promotedTo[origin[t]] = t

Inv ==
  /\ DoneIsPromoted
  /\ PromotedExist
  /\ TrendsAgree
  /\ rejected = {}
  /\ \A c \in Candidates : deferred[c] = "no"
  /\ \A a \in Attempts : Knows(a)
  /\ \A x \in late : x.statement = "apply" => x.nomination \in rows
  /\ \A n \in Nominations : n \notin repeated => AloneOn(n) /\ Fresh(n)
=============================================================================

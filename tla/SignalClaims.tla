---------------------------- MODULE SignalClaims ----------------------------
(***************************************************************************)
(* Distillation (src/distillation-p_mkCBBqb) and its revisit               *)
(* (src/distillation-revisit-p_o7CWWZl): who works on which signal.        *)
(*                                                                         *)
(* Both stamp the signals they take with their session id.  A distillation *)
(* run first releases the stamps of sessions that wrote no candidate, then *)
(* reads free signals, stamps them, asks the cluster agent and writes its  *)
(* candidates.  A revisit chain reads signals that sessions have stamped,  *)
(* queues them in batches, stamps them as its own, and works on one batch  *)
(* per execution; an execution starts the next one with a POST.            *)
(*                                                                         *)
(* Which signals lie in a query's window, under its caps, or support a     *)
(* promoted trend is left open, and so is what the cluster agent answers.  *)
(*                                                                         *)
(* Overlap: runs may be live together (the watchdog and the cron know      *)
(* nothing of a run that has not finished), and so may preparations of     *)
(* revisit chains.  Runs and chains are live together in any case.  Two    *)
(* history variables keep who was: no step reads them.                     *)
(***************************************************************************)
EXTENDS Naturals, FiniteSets

CONSTANTS
  Signals,
  Sessions,    \* 'sess-' ids of distillation runs
  Chains,      \* revisit chains, each with its 'revisit-' session
  MinPool,     \* MIN_POOL
  MaxBatches,  \* batches a chain may have
  Overlap,
  NoSession

ASSUME OwnersAssumption ==
  Sessions \cap Chains = {} /\ NoSession \notin Sessions \cup Chains
ASSUME MinPoolAssumption == MinPool \in Nat \ {0}
ASSUME MaxBatchesAssumption == MaxBatches \in Nat
ASSUME OverlapAssumption == Overlap \in BOOLEAN

Index == 1..MaxBatches

VARIABLES
  stamp,     \* per signal: AGENT_SESSION_ID
  wrote,     \* sessions and chains with candidates in STG_TREND_CANDIDATES
  pc,        \* per session: the step its run executes next
  ids,       \* per session: the signals its run acquired; after the run, those
             \* its candidates were written from
  proposed,  \* per session: its cluster agent proposed candidates
  step,      \* per chain: the step its execution runs next
  pool,      \* per chain: the signals it selected, until it has stamped them
  batch,     \* per chain: its batches
  status,    \* per chain and batch: STATUS of its queue row
  current,   \* per chain: the batch its execution picked, 0 without one
  found,     \* per chain: what the cluster agent made of that batch
  together,  \* history: sessions that were live beside another, while they
             \* are live or have candidates
  prepared   \* history: pairs of chains that were prepared side by side

sessionVars == <<pc, ids, proposed, together>>
chainVars == <<step, pool, batch, status, current, found, prepared>>
vars == <<stamp, wrote, pc, ids, proposed, together,
          step, pool, batch, status, current, found, prepared>>

TypeOK ==
  /\ stamp \in [Signals -> Sessions \cup Chains \cup {NoSession}]
  /\ wrote \in SUBSET (Sessions \cup Chains)
  /\ pc \in [Sessions -> {"idle", "release", "acquire", "claim", "agent", "commit"}]
  /\ ids \in [Sessions -> SUBSET Signals]
  /\ proposed \in [Sessions -> BOOLEAN]
  /\ step \in [Chains -> {"unused", "pool", "queue", "stamp", "pick", "agent", "commit",
                          "close", "next", "ended", "dead"}]
  /\ pool \in [Chains -> SUBSET Signals]
  /\ batch \in [Chains -> [Index -> SUBSET Signals]]
  /\ status \in [Chains -> [Index -> {"none", "PENDING", "DONE", "FAILED"}]]
  /\ current \in [Chains -> Index \cup {0}]
  /\ \A y \in Chains : current[y] # 0 <=> step[y] \in {"agent", "commit", "close"}
  /\ found \in [Chains -> {"none", "some", "error"}]
  /\ together \in SUBSET Sessions /\ prepared \in SUBSET SUBSET Chains

Init ==
  /\ stamp = [s \in Signals |-> NoSession]
  /\ wrote = {}
  /\ pc = [x \in Sessions |-> "idle"]
  /\ ids = [x \in Sessions |-> {}]
  /\ proposed = [x \in Sessions |-> FALSE]
  /\ step = [y \in Chains |-> "unused"]
  /\ pool = [y \in Chains |-> {}]
  /\ batch = [y \in Chains |-> [i \in Index |-> {}]]
  /\ status = [y \in Chains |-> [i \in Index |-> "none"]]
  /\ current = [y \in Chains |-> 0]
  /\ found = [y \in Chains |-> "none"]
  /\ together = {} /\ prepared = {}

----------------------------------------------------------------------------
(* A distillation run. *)

GoTo(x, where) == pc' = [pc EXCEPT ![x] = where]

\* The run ends, and its memory with it.
End(x) ==
  /\ GoTo(x, "idle")
  /\ ids' = [ids EXCEPT ![x] = IF x \in wrote' THEN @ ELSE {}]
  /\ proposed' = [proposed EXCEPT ![x] = FALSE]
  /\ together' = IF x \in wrote' THEN together ELSE together \ {x}

\* An id is minted for every run; one that nothing refers to is as good as new,
\* and one as good as another.
Fresh == {x \in Sessions : pc[x] = "idle" /\ x \notin wrote /\ \A s \in Signals : stamp[s] # x}

Live == {z \in Sessions : pc[z] # "idle"}

Start(x) ==
  /\ x \in Fresh
  /\ x = CHOOSE z \in Fresh : TRUE
  /\ Overlap \/ Live = {}
  /\ GoTo(x, "release")
  /\ together' = IF Live = {} THEN together ELSE together \cup Live \cup {x}
  /\ UNCHANGED <<stamp, wrote, ids, proposed, chainVars>>

\* Mutants: all stamps of sessions are released; none is.
ReleaseAll(x) ==
  /\ pc[x] = "release"
  /\ stamp' = [s \in Signals |-> IF stamp[s] \in Sessions THEN NoSession ELSE stamp[s]]
  /\ GoTo(x, "acquire")
  /\ UNCHANGED <<wrote, ids, proposed, together, chainVars>>

ReleaseNone(x) ==
  /\ pc[x] = "release"
  /\ GoTo(x, "acquire")
  /\ UNCHANGED <<stamp, wrote, ids, proposed, together, chainVars>>

\* PROC_RELEASE_STALE_SIGNAL_CLAIMS.
Release(x) ==
  /\ pc[x] = "release"
  /\ stamp' = [s \in Signals |->
                 IF stamp[s] \in Sessions \ wrote THEN NoSession ELSE stamp[s]]
  /\ GoTo(x, "acquire")
  /\ UNCHANGED <<wrote, ids, proposed, together, chainVars>>

Free == {s \in Signals : stamp[s] = NoSession}

Acquire(x) ==
  /\ pc[x] = "acquire"
  /\ \E window \in SUBSET Free :
       /\ Cardinality(window) >= MinPool
       /\ ids' = [ids EXCEPT ![x] = window]
  /\ GoTo(x, "claim")
  /\ UNCHANGED <<stamp, wrote, proposed, together, chainVars>>

\* Fewer than MIN_POOL in the window.
TooFew(x) ==
  /\ pc[x] = "acquire"
  /\ UNCHANGED <<stamp, wrote, chainVars>>
  /\ End(x)

\* Mutant: all it acquired are stamped, whosever they are by now.
ClaimAll(x) ==
  /\ pc[x] = "claim"
  /\ stamp' = [s \in Signals |-> IF s \in ids[x] THEN x ELSE stamp[s]]
  /\ GoTo(x, "agent")
  /\ UNCHANGED <<wrote, ids, proposed, together, chainVars>>

\* claim_window_signals: of the signals it acquired, those that are still free;
\* the run goes on with all of them.
Claim(x) ==
  /\ pc[x] = "claim"
  /\ stamp' = [s \in Signals |-> IF s \in ids[x] \cap Free THEN x ELSE stamp[s]]
  /\ GoTo(x, "agent")
  /\ UNCHANGED <<wrote, ids, proposed, together, chainVars>>

\* dispatch_to_cluster_agent suspends the run; a timeout, an error and an empty
\* answer come to the same.
AgentAnswers(x) ==
  /\ pc[x] = "agent"
  /\ \E some \in BOOLEAN : proposed' = [proposed EXCEPT ![x] = some]
  /\ GoTo(x, "commit")
  /\ UNCHANGED <<stamp, wrote, ids, together, chainVars>>

\* commit_candidates, and with it the run: what follows writes the cursor only.
Commit(x) ==
  /\ pc[x] = "commit"
  /\ wrote' = IF proposed[x] THEN wrote \cup {x} ELSE wrote
  /\ End(x)
  /\ UNCHANGED <<stamp, chainVars>>

\* A step throws or times out.
Crash(x) ==
  /\ pc[x] # "idle"
  /\ UNCHANGED <<stamp, wrote, chainVars>>
  /\ End(x)

Run(x) ==
  \/ Release(x) \/ Acquire(x) \/ TooFew(x) \/ Claim(x)
  \/ AgentAnswers(x) \/ Commit(x)

----------------------------------------------------------------------------
(* A revisit chain. *)

Leap(y, where) == step' = [step EXCEPT ![y] = where]

Preparing(y) == step[y] \in {"pool", "queue", "stamp"}

Unused == {y \in Chains : step[y] = "unused"}

StartChain(y) ==
  /\ y \in Unused
  /\ y = CHOOSE z \in Unused : TRUE
  /\ Overlap \/ \A z \in Chains : ~Preparing(z)
  /\ Leap(y, "pool")
  /\ prepared' = prepared \cup {{y, z} : z \in {c \in Chains : Preparing(c)}}
  /\ UNCHANGED <<stamp, wrote, sessionVars, pool, batch, status, current, found>>

SessionStamped == {s \in Signals : stamp[s] \in Sessions}

\* binPack numbers the batches from one end and may leave signals out (it cuts
\* a community at MAX_BATCH_SIZE).
Packings(picked) ==
  {pack \in [picked -> Index \cup {0}] :
     \A s \in picked, i \in Index : pack[s] > i => \E z \in picked : pack[z] = i}

\* prepare_chain up to its first INSERT; without a batch the chain is over.
SelectPool(y) ==
  /\ step[y] = "pool"
  /\ \E picked \in SUBSET SessionStamped : \E pack \in Packings(picked) :
       IF \A s \in picked : pack[s] = 0
       THEN Leap(y, "next") /\ UNCHANGED <<pool, batch>>
       ELSE /\ Leap(y, "queue")
            /\ pool' = [pool EXCEPT ![y] = picked]
            /\ batch' = [batch EXCEPT ![y] =
                 [i \in Index |-> {s \in picked : pack[s] = i}]]
  /\ UNCHANGED <<stamp, wrote, sessionVars, status, current, found, prepared>>

ToQueue(y) == {i \in Index : batch[y][i] # {} /\ status[y][i] = "none"}

InsertRow(y) ==
  /\ step[y] = "queue"
  /\ \E i \in ToQueue(y) :
       /\ \A j \in ToQueue(y) : i <= j
       /\ status' = [status EXCEPT ![y][i] = "PENDING"]
       /\ Leap(y, IF ToQueue(y) = {i} THEN "stamp" ELSE "queue")
  /\ UNCHANGED <<stamp, wrote, sessionVars, pool, batch, current, found, prepared>>

\* The UPDATE at the end of prepare_chain: all of the pool, whatever it is
\* stamped with by now.
StampPool(y) ==
  /\ step[y] = "stamp"
  /\ stamp' = [s \in Signals |-> IF s \in pool[y] THEN y ELSE stamp[s]]
  /\ pool' = [pool EXCEPT ![y] = {}]
  /\ Leap(y, "pick")
  /\ UNCHANGED <<wrote, sessionVars, batch, status, current, found, prepared>>

Pending(y) == {i \in Index : status[y][i] = "PENDING"}

\* select_next_batch and dispatch_to_cluster_agent.
PickBatch(y) ==
  /\ step[y] = "pick"
  /\ \E i \in Pending(y) :
       /\ \A j \in Pending(y) : i <= j
       /\ current' = [current EXCEPT ![y] = i]
  /\ Leap(y, "agent")
  /\ UNCHANGED <<stamp, wrote, sessionVars, pool, batch, status, found, prepared>>

AgentReturns(y) ==
  /\ step[y] = "agent"
  /\ \E what \in {"none", "some", "error"} : found' = [found EXCEPT ![y] = what]
  /\ Leap(y, "commit")
  /\ UNCHANGED <<stamp, wrote, sessionVars, pool, batch, status, current, prepared>>

\* commit_batch_result: the candidates first...
CommitBatch(y) ==
  /\ step[y] = "commit"
  /\ wrote' = IF found[y] = "some" THEN wrote \cup {y} ELSE wrote
  /\ Leap(y, "close")
  /\ UNCHANGED <<stamp, sessionVars, pool, batch, status, current, found, prepared>>

\* Mutants: a failed batch stays PENDING; the execution keeps its batch.
CloseDoneBatch(y) ==
  /\ step[y] = "close"
  /\ status' = IF found[y] = "error" THEN status
               ELSE [status EXCEPT ![y][current[y]] = "DONE"]
  /\ current' = [current EXCEPT ![y] = 0]
  /\ found' = [found EXCEPT ![y] = "none"]
  /\ Leap(y, "next")
  /\ UNCHANGED <<stamp, wrote, sessionVars, pool, batch, prepared>>

CloseKeepsBatch(y) ==
  /\ step[y] = "close"
  /\ status' = [status EXCEPT ![y][current[y]] = "DONE"]
  /\ Leap(y, "next")
  /\ UNCHANGED <<stamp, wrote, sessionVars, pool, batch, current, found, prepared>>

\* ...and the queue row second.
CloseBatch(y) ==
  /\ step[y] = "close"
  /\ status' = [status EXCEPT ![y][current[y]] =
                  IF found[y] = "error" THEN "FAILED" ELSE "DONE"]
  /\ current' = [current EXCEPT ![y] = 0]
  /\ found' = [found EXCEPT ![y] = "none"]
  /\ Leap(y, "next")
  /\ UNCHANGED <<stamp, wrote, sessionVars, pool, batch, prepared>>

\* finalize_or_continue: the POST starts the chain's next execution.
Continue(y) ==
  /\ step[y] = "next"
  /\ Pending(y) # {}
  /\ Leap(y, "pick")
  /\ UNCHANGED <<stamp, wrote, sessionVars, pool, batch, status, current, found, prepared>>

Finalize(y) ==
  /\ step[y] = "next"
  /\ Pending(y) = {}
  /\ Leap(y, "ended")
  /\ UNCHANGED <<stamp, wrote, sessionVars, pool, batch, status, current, found, prepared>>

\* A step throws or times out, or the POST is lost; batches without a row are
\* forgotten.
ChainDies(y) ==
  /\ step[y] \notin {"unused", "ended", "dead"}
  /\ Leap(y, "dead")
  /\ pool' = [pool EXCEPT ![y] = {}]
  /\ batch' = [batch EXCEPT ![y] =
                 [i \in Index |-> IF status[y][i] = "none" THEN {} ELSE batch[y][i]]]
  /\ current' = [current EXCEPT ![y] = 0]
  /\ found' = [found EXCEPT ![y] = "none"]
  /\ UNCHANGED <<stamp, wrote, sessionVars, status, prepared>>

Chain(y) ==
  \/ SelectPool(y) \/ InsertRow(y) \/ StampPool(y) \/ PickBatch(y) \/ AgentReturns(y)
  \/ CommitBatch(y) \/ CloseBatch(y) \/ Continue(y) \/ Finalize(y)

Next ==
  \/ \E x \in Sessions : Start(x) \/ Run(x) \/ Crash(x)
  \/ \E y \in Chains : StartChain(y) \/ Chain(y) \/ ChainDies(y)

\* The cron starts a run again and again, and what has started goes on unless
\* it fails.  Nothing starts a revisit chain of necessity.
Fairness ==
  /\ WF_vars(\E x \in Sessions : Start(x))
  /\ \A x \in Sessions : WF_vars(Run(x))
  /\ \A y \in Chains : WF_vars(Chain(y))

Spec == Init /\ [][Next]_vars
FairSpec == Spec /\ Fairness

----------------------------------------------------------------------------
(* Properties. *)

Given(y) == UNION {batch[y][i] : i \in {j \in Index : status[y][j] # "none"}}

\* No two sessions write candidates from the same signal unless one of them ran beside
\* another run (which releases its claims), nor do two revisit chains unless they were
\* prepared side by side: a signal counts once for each, whatever dies on the way.
OneWriterUnlessTogether ==
  /\ \A x, z \in Sessions \cap wrote :
       x # z /\ ids[x] \cap ids[z] # {} => {x, z} \cap together # {}
  /\ \A y, z \in Chains \cap wrote :
       y # z /\ Given(y) \cap Given(z) # {} => {y, z} \in prepared

\* Refinement: what the stamps and the candidates say of a signal.
LifeOf(s) ==
  IF stamp[s] = NoSession THEN "free"
  ELSE IF stamp[s] \in Sessions THEN "claimed" ELSE "revisited"

WritersOf(s) ==
  {x \in Sessions \cap wrote : s \in ids[x]} \cup {y \in Chains \cap wrote : s \in Given(y)}

Abstract == INSTANCE SignalLife WITH
  life <- [s \in Signals |-> LifeOf(s)],
  writers <- [s \in Signals |-> WritersOf(s)]

\* Distillation and revisit treat signals as SignalLife promises.
ImplementsSignalLife == Abstract!Spec

Orphan(s) == stamp[s] \in Sessions \ wrote /\ pc[stamp[s]] = "idle"

\* Signals a run claimed and left behind without a candidate become free again,
\* unless runs fail for ever.  (A failure that leaves what a normal end leaves
\* is none; and ids, of which an instance has few, are never used up.)
OrphansReturn ==
  /\ <>[][\A x \in Sessions : Crash(x) => Run(x)]_vars
  /\ []<>(Fresh # {})
  => \A s \in Signals : Orphan(s) ~> ~Orphan(s)

\* A chain works through its queue, whatever becomes of single batches, unless
\* it dies.
ChainDrains ==
  \A y \in Chains : Pending(y) # {} ~> Pending(y) = {} \/ step[y] = "dead"

----------------------------------------------------------------------------
(* Inductive invariant. *)

\* A run that has claimed, or has written, and was alone: its signals are its own or a
\* chain's.  One that is about to claim: they are free or a chain's.
RunKnows(x) ==
  /\ x \notin together =>
       /\ pc[x] \in {"agent", "commit"} \/ x \in wrote =>
            \A s \in ids[x] : stamp[s] \in {x} \cup Chains
       /\ pc[x] = "claim" => \A s \in ids[x] : stamp[s] \in {NoSession} \cup Chains
  /\ pc[x] # "idle" => x \notin wrote
  /\ pc[x] \in {"idle", "release", "acquire"} /\ x \notin wrote => ids[x] = {}

\* The chain has stamped its pool, or has nothing to stamp.
Working(y) == step[y] \in {"pick", "agent", "commit", "close", "next"} \/ y \in wrote

\* A chain that is being prepared has its batches from its pool.  One that is at work,
\* or has written: its batches are stamped by chains, and the one it works on is PENDING.
ChainKnows(y) ==
  /\ step[y] \in {"unused", "pool"} => \A i \in Index : batch[y][i] = {}
  /\ step[y] \in {"queue", "stamp"} => \A i \in Index : batch[y][i] \subseteq pool[y]
  /\ Working(y) => \A i \in Index : \A s \in batch[y][i] : stamp[s] \in Chains
  /\ y \in wrote => step[y] # "unused" /\ ~Preparing(y)
  /\ current[y] # 0 => status[y][current[y]] = "PENDING"

\* What the chain has selected, while that may still count.
Selected(y) ==
  IF step[y] \in {"queue", "stamp"} THEN pool[y]
  ELSE IF Working(y) THEN UNION {batch[y][i] : i \in Index} ELSE {}

ClaimsInv ==
  /\ \A x, z \in Live : x # z => {x, z} \subseteq together
  /\ \A y, z \in Chains : y # z /\ Preparing(y) /\ Preparing(z) => {y, z} \in prepared
  /\ \A x, z \in Sessions : x # z /\ {x, z} \cap together = {} => ids[x] \cap ids[z] = {}
  /\ \A y, z \in Chains :
       y # z /\ {y, z} \notin prepared => Selected(y) \cap Selected(z) = {}
  /\ \A x \in Sessions : RunKnows(x)
  /\ \A y \in Chains : ChainKnows(y)
=============================================================================

------------------------ MODULE SignalClaims_proofs ------------------------
(***************************************************************************)
(* Type correctness of SignalClaims, its inductive invariant, the single   *)
(* writer of each signal and the refinement of SignalLife, whether runs    *)
(* and preparations overlap or not.                                        *)
(***************************************************************************)
EXTENDS SignalClaims, TLAPS

USE OwnersAssumption, MaxBatchesAssumption, OverlapAssumption

\* What prepare_chain selects: signals that sessions have stamped, and batches of
\* them.
LEMMA PoolSelected ==
  ASSUME NEW y \in Chains, SelectPool(y)
  PROVE  /\ step[y] = "pool"
         /\ UNCHANGED <<stamp, wrote, sessionVars, status, current, found, prepared>>
         /\ \/ Leap(y, "next") /\ UNCHANGED <<pool, batch>>
            \/ \E picked \in SUBSET SessionStamped : \E packed \in [Index -> SUBSET picked] :
                 /\ Leap(y, "queue")
                 /\ pool' = [pool EXCEPT ![y] = picked]
                 /\ batch' = [batch EXCEPT ![y] = packed]
<1> DEFINE Packed(picked, pack) == [i \in Index |-> {s \in picked : pack[s] = i}]
<1>1. ASSUME NEW picked, NEW pack
      PROVE Packed(picked, pack) \in [Index -> SUBSET picked]
  OBVIOUS
<1> QED
  BY <1>1 DEF SelectPool

\* Every state has the types of TypeOK.
THEOREM TypeCorrect == Spec => []TypeOK
<1>1. Init => TypeOK
  BY DEF Init, TypeOK, Index
<1>2. TypeOK /\ [Next]_vars => TypeOK'
  <2> SUFFICES ASSUME TypeOK, [Next]_vars PROVE TypeOK'
    OBVIOUS
  <2> USE DEF TypeOK
  <2>1. ASSUME NEW x \in Sessions, Start(x) PROVE TypeOK'
    BY <2>1 DEF Start, GoTo, Live, chainVars
  <2>2. ASSUME NEW x \in Sessions, Run(x) PROVE TypeOK'
    <3>1. CASE Release(x)
      BY <3>1 DEF Release, GoTo, chainVars
    <3>2. CASE Acquire(x)
      BY <3>2 DEF Acquire, GoTo, Free, chainVars
    <3>3. CASE TooFew(x)
      BY <3>3 DEF TooFew, End, GoTo, chainVars
    <3>4. CASE Claim(x)
      BY <3>4 DEF Claim, GoTo, chainVars
    <3>5. CASE AgentAnswers(x)
      BY <3>5 DEF AgentAnswers, GoTo, chainVars
    <3>6. CASE Commit(x)
      BY <3>6 DEF Commit, End, GoTo, chainVars
    <3> QED
      BY <2>2, <3>1, <3>2, <3>3, <3>4, <3>5, <3>6 DEF Run
  <2>3. ASSUME NEW x \in Sessions, Crash(x) PROVE TypeOK'
    BY <2>3 DEF Crash, End, GoTo, chainVars
  <2>4. ASSUME NEW y \in Chains, StartChain(y) PROVE TypeOK'
    <3>1. prepared' \in SUBSET SUBSET Chains
      <4>1. prepared' = prepared \cup {{y, z} : z \in {c \in Chains : Preparing(c)}}
        BY <2>4 DEF StartChain
      <4>2. ASSUME NEW pair \in prepared' PROVE pair \in SUBSET Chains
        <5>1. CASE pair \in prepared
          BY <5>1
        <5>2. CASE \E z \in Chains : pair = {y, z}
          BY <5>2
        <5> QED
          BY <4>1, <4>2, <5>1, <5>2
      <4> QED
        BY <4>2
    <3> QED
      BY <2>4, <3>1 DEF StartChain, Unused, Leap, sessionVars
  <2>5. ASSUME NEW y \in Chains, Chain(y) PROVE TypeOK'
    <3>1. CASE SelectPool(y)
      <4> /\ step[y] = "pool"
          /\ UNCHANGED <<stamp, wrote, pc, ids, proposed, together, status, current, found, prepared>>
        BY <3>1, PoolSelected DEF sessionVars
      <4>1. CASE Leap(y, "next") /\ UNCHANGED <<pool, batch>>
        BY <4>1 DEF Leap
      <4>2. ASSUME NEW picked \in SUBSET SessionStamped, NEW packed \in [Index -> SUBSET picked],
                   Leap(y, "queue"),
                   pool' = [pool EXCEPT ![y] = picked],
                   batch' = [batch EXCEPT ![y] = packed]
            PROVE TypeOK'
        <5>1. picked \in SUBSET Signals /\ packed \in [Index -> SUBSET Signals]
          BY <4>2 DEF SessionStamped
        <5> QED
          BY <4>2, <5>1 DEF Leap
      <4> QED
        BY <3>1, <4>1, <4>2, PoolSelected
    <3>2. CASE InsertRow(y)
      <4>1. PICK i \in ToQueue(y) :
              /\ status' = [status EXCEPT ![y][i] = "PENDING"]
              /\ Leap(y, IF ToQueue(y) = {i} THEN "stamp" ELSE "queue")
        BY <3>2 DEF InsertRow
      <4>2. i \in Index
        BY DEF ToQueue
      <4>3. status' \in [Chains -> [Index -> {"none", "PENDING", "DONE", "FAILED"}]]
        BY <4>1, <4>2
      <4>4. PICK where \in {"queue", "stamp"} : step' = [step EXCEPT ![y] = where]
        BY <4>1 DEF Leap
      <4>5. step' \in [Chains -> {"unused", "pool", "queue", "stamp", "pick", "agent",
                                 "commit", "close", "next", "ended", "dead"}]
        BY <4>4
      <4>6. /\ step[y] = "queue"
            /\ UNCHANGED <<stamp, wrote, pc, ids, proposed, together, pool, batch, current,
                           found, prepared>>
        BY <3>2 DEF InsertRow, sessionVars
      <4>7. \A z \in Chains :
              current'[z] # 0 <=> step'[z] \in {"agent", "commit", "close"}
        BY <4>4, <4>6
      <4> QED
        BY <4>3, <4>5, <4>6, <4>7
    <3>3. CASE StampPool(y)
      BY <3>3 DEF StampPool, Leap, sessionVars
    <3>4. CASE PickBatch(y)
      BY <3>4 DEF PickBatch, Pending, Leap, sessionVars, Index
    <3>5. CASE AgentReturns(y)
      BY <3>5 DEF AgentReturns, Leap, sessionVars
    <3>6. CASE CommitBatch(y)
      BY <3>6 DEF CommitBatch, Leap, sessionVars
    <3>7. CASE CloseBatch(y)
      BY <3>7 DEF CloseBatch, Leap, sessionVars
    <3>8. CASE Continue(y)
      BY <3>8 DEF Continue, Leap, sessionVars
    <3>9. CASE Finalize(y)
      BY <3>9 DEF Finalize, Leap, sessionVars
    <3> QED
      BY <2>5, <3>1, <3>2, <3>3, <3>4, <3>5, <3>6, <3>7, <3>8, <3>9 DEF Chain
  <2>6. ASSUME NEW y \in Chains, ChainDies(y) PROVE TypeOK'
    BY <2>6 DEF ChainDies, Leap, sessionVars
  <2>7. CASE UNCHANGED vars
    BY <2>7 DEF vars
  <2> QED
    BY <2>1, <2>2, <2>3, <2>4, <2>5, <2>6, <2>7 DEF Next
<1> QED
  BY <1>1, <1>2, PTL DEF Spec

----------------------------------------------------------------------------
(* The inductive invariant. *)

Action(x) == Start(x) \/ Run(x) \/ Crash(x)
ChainAction(y) == StartChain(y) \/ Chain(y) \/ ChainDies(y)

\* What a step of a run changes is nothing to a chain: stamps of chains stay, and
\* none is made.  What has written keeps its mark.
LEMMA RunLeavesChains ==
  ASSUME TypeOK, NEW x \in Sessions, Action(x)
  PROVE  /\ UNCHANGED chainVars
         /\ wrote' \cap Chains = wrote \cap Chains
         /\ \A s \in Signals : /\ stamp[s] \in Chains => stamp'[s] = stamp[s]
                               /\ stamp[s] \notin Chains => stamp'[s] \notin Chains
         /\ \A z \in Sessions \ {x} : /\ pc'[z] = pc[z] /\ ids'[z] = ids[z]
                                      /\ z \in wrote' <=> z \in wrote
                                      /\ z \in together => z \in together'
         /\ x \in together \ together' => x \notin wrote' /\ pc'[x] = "idle" /\ ids'[x] = {}
<1> USE DEF TypeOK
<1>1. CASE Start(x)
  BY <1>1 DEF Start, GoTo
<1>2. CASE Release(x) \/ Acquire(x) \/ Claim(x)
  BY <1>2 DEF Release, Acquire, Claim, GoTo, Free
<1>3. CASE AgentAnswers(x)
  BY <1>3 DEF AgentAnswers, GoTo
<1>4. CASE TooFew(x) \/ Commit(x) \/ Crash(x)
  <2>1. End(x) /\ UNCHANGED <<stamp, chainVars>> /\ (wrote' = wrote \/ wrote' = wrote \cup {x})
    BY <1>4 DEF TooFew, Commit, Crash
  <2> QED
    BY <2>1 DEF End, GoTo
<1> QED
  BY <1>1, <1>2, <1>3, <1>4 DEF Action, Run

\* What a step of a chain changes is little to a run: stamps it makes are its own.
LEMMA ChainLeavesRuns ==
  ASSUME TypeOK, NEW y \in Chains, ChainAction(y)
  PROVE  /\ UNCHANGED sessionVars
         /\ wrote' \cap Sessions = wrote \cap Sessions
         /\ \A s \in Signals : stamp'[s] \in {stamp[s]} \cup Chains
         /\ \A z \in Chains \ {y} : /\ step'[z] = step[z] /\ pool'[z] = pool[z]
                                    /\ batch'[z] = batch[z] /\ status'[z] = status[z]
                                    /\ current'[z] = current[z]
                                    /\ z \in wrote' <=> z \in wrote
         /\ prepared \subseteq prepared'
<1> USE DEF TypeOK
<1>1. CASE StartChain(y) \/ ChainDies(y)
  BY <1>1 DEF StartChain, ChainDies, Leap
<1>2. CASE SelectPool(y)
  <2>1. UNCHANGED <<stamp, wrote, sessionVars, status, current, prepared>>
    BY <1>2 DEF SelectPool
  <2>2. \A z \in Chains \ {y} :
          step'[z] = step[z] /\ pool'[z] = pool[z] /\ batch'[z] = batch[z]
    BY <1>2, PoolSelected DEF Leap
  <2> QED
    BY <2>1, <2>2
<1>3. CASE InsertRow(y) \/ StampPool(y) \/ PickBatch(y) \/ AgentReturns(y)
  BY <1>3 DEF InsertRow, StampPool, PickBatch, AgentReturns, Leap
<1>4. CASE CommitBatch(y) \/ CloseBatch(y) \/ Continue(y) \/ Finalize(y)
  BY <1>4 DEF CommitBatch, CloseBatch, Continue, Finalize, Leap
<1> QED
  BY <1>1, <1>2, <1>3, <1>4 DEF ChainAction, Chain

\* A run that was alone has its signals still, whatever another run releases or
\* claims: the other is not live before this one has written, or has ended.
LEMMA AloneKeeps ==
  ASSUME TypeOK, ClaimsInv, NEW x \in Sessions, Run(x) \/ Crash(x),
         NEW z \in Sessions \ {x}, z \notin together'
  PROVE  /\ RunKnows(z)'
         /\ x \notin together' => ids'[x] \cap ids'[z] = {}
<1> USE DEF TypeOK
<1>0. Action(x) /\ RunKnows(z)
  BY DEF Action, ClaimsInv
<1>1. pc[x] # "idle"
  BY DEF Run, Crash, Release, Acquire, TooFew, Claim, AgentAnswers, Commit
<1>2. /\ z \notin together /\ pc[z] = "idle" /\ pc'[z] = "idle" /\ ids'[z] = ids[z]
      /\ z \in wrote' <=> z \in wrote
  BY <1>0, <1>1, RunLeavesChains DEF ClaimsInv, Live
<1>3. z \in wrote => \A s \in ids[z] : stamp[s] \in {z} \cup Chains
  BY <1>0, <1>2 DEF RunKnows
<1>4. z \notin wrote => ids[z] = {}
  BY <1>0, <1>2 DEF RunKnows
<1>5. z \in wrote => \A s \in ids[z] : stamp'[s] \in {z} \cup Chains
  <2>1. CASE Release(x)
    BY <1>3, <2>1 DEF Release
  <2>2. CASE Claim(x)
    BY <1>3, <2>2 DEF Claim, Free
  <2>3. CASE ~Release(x) /\ ~Claim(x)
    BY <1>3, <2>3 DEF Run, Crash, Acquire, TooFew, AgentAnswers, Commit
  <2> QED
    BY <2>1, <2>2, <2>3
<1>6. ASSUME x \notin together' PROVE ids'[x] \cap ids'[z] = {}
  <2>1. CASE Acquire(x)
    BY <1>2, <1>3, <1>4, <2>1 DEF Acquire, Free
  <2>2. CASE ~Acquire(x)
    <3>1. ids'[x] = {} \/ ids'[x] = ids[x]
      BY <2>2 DEF Run, Crash, Release, TooFew, Claim, AgentAnswers, Commit, End
    <3>2. ids'[x] = {} \/ x \notin together
      BY <1>0, <1>6, RunLeavesChains
    <3>3. x \notin together => ids[x] \cap ids[z] = {}
      BY <1>2 DEF ClaimsInv
    <3> QED
      BY <1>2, <3>1, <3>2, <3>3
  <2> QED
    BY <2>1, <2>2
<1> QED
  BY <1>2, <1>4, <1>5, <1>6 DEF RunKnows

\* A step of a run keeps the invariant.  The signals it acquires are free, so no
\* run that was alone has written from them.
LEMMA RunStep ==
  ASSUME TypeOK, ClaimsInv, NEW x \in Sessions, Action(x)
  PROVE  ClaimsInv'
<1>0. /\ UNCHANGED chainVars
      /\ \A y \in Chains : y \in wrote' <=> y \in wrote
      /\ \A s \in Signals : stamp[s] \in Chains => stamp'[s] = stamp[s]
  BY RunLeavesChains
<1> USE DEF TypeOK
<1>1. \A y, z \in Chains : y # z /\ Preparing(y)' /\ Preparing(z)' => {y, z} \in prepared'
  BY <1>0 DEF chainVars, Preparing, ClaimsInv
<1>2. \A y, z \in Chains :
        y # z /\ {y, z} \notin prepared' => Selected(y)' \cap Selected(z)' = {}
  <2>1. \A y \in Chains : Selected(y)' = Selected(y)
    BY <1>0 DEF chainVars, Selected, Working
  <2> QED
    BY <1>0, <2>1 DEF chainVars, ClaimsInv
<1>3. ASSUME NEW y \in Chains PROVE ChainKnows(y)'
  <2>1. ChainKnows(y) /\ UNCHANGED chainVars /\ (y \in wrote' <=> y \in wrote)
    BY <1>0 DEF ClaimsInv
  <2>2. \A i \in Index : \A s \in batch[y][i] : stamp[s] \in Chains => stamp'[s] \in Chains
    <3>1. batch[y] \in [Index -> SUBSET Signals]
      OBVIOUS
    <3> QED
      BY <1>0, <3>1
  <2> QED
    BY <2>1, <2>2 DEF ChainKnows, chainVars, Preparing, Working
<1>4. \A w, z \in Live' : w # z => {w, z} \subseteq together'
  <2>1. CASE Start(x)
    <3>1. /\ pc' = [pc EXCEPT ![x] = "release"]
          /\ together' = IF Live = {} THEN together ELSE together \cup Live \cup {x}
      BY <2>1 DEF Start, GoTo
    <3>2. Live' \subseteq Live \cup {x}
      BY <3>1 DEF Live
    <3> QED
      BY <3>1, <3>2
  <2>2. CASE Run(x) \/ Crash(x)
    <3>1. pc[x] # "idle"
      BY <2>2 DEF Run, Crash, Release, Acquire, TooFew, Claim, AgentAnswers, Commit
    <3>2. Live' \subseteq Live
      BY <3>1, RunLeavesChains DEF Live
    <3>3. \A z \in Live' : z \in together => z \in together'
      BY RunLeavesChains DEF Live
    <3> QED
      BY <3>2, <3>3 DEF ClaimsInv
  <2> QED
    BY <2>1, <2>2 DEF Action
<1>5. CASE Start(x)
  <2>1. /\ pc[x] = "idle" /\ x \notin wrote /\ pc' = [pc EXCEPT ![x] = "release"]
        /\ together \subseteq together'
        /\ UNCHANGED <<stamp, wrote, ids>>
    BY <1>5 DEF Start, Fresh, GoTo
  <2>2. \A z \in Sessions : RunKnows(z)'
    BY <2>1 DEF ClaimsInv, RunKnows
  <2>3. \A w, z \in Sessions :
          w # z /\ {w, z} \cap together' = {} => ids'[w] \cap ids'[z] = {}
    BY <2>1 DEF ClaimsInv
  <2> QED
    BY <1>1, <1>2, <1>3, <1>4, <2>2, <2>3 DEF ClaimsInv
<1>6. CASE Run(x) \/ Crash(x)
  <2>1. pc[x] # "idle" /\ x \notin wrote
    BY <1>6 DEF Run, Crash, Release, Acquire, TooFew, Claim, AgentAnswers, Commit, ClaimsInv, RunKnows
  <2>2. RunKnows(x)'
    <3>0. RunKnows(x)
      BY DEF ClaimsInv
    <3>1. CASE Release(x)
      BY <2>1, <3>0, <3>1 DEF Release, GoTo, RunKnows
    <3>2. CASE Acquire(x)
      BY <2>1, <3>2 DEF Acquire, Free, GoTo, RunKnows
    <3>3. CASE Claim(x)
      BY <2>1, <3>0, <3>3 DEF Claim, Free, GoTo, RunKnows
    <3>4. CASE AgentAnswers(x)
      BY <2>1, <3>0, <3>4 DEF AgentAnswers, GoTo, RunKnows
    <3>5. CASE Commit(x)
      BY <2>1, <3>0, <3>5 DEF Commit, End, GoTo, RunKnows
    <3>6. CASE TooFew(x) \/ Crash(x)
      BY <2>1, <3>0, <3>6 DEF TooFew, Crash, End, GoTo, RunKnows
    <3> QED
      BY <1>6, <3>1, <3>2, <3>3, <3>4, <3>5, <3>6 DEF Run
  <2>3. ASSUME NEW z \in Sessions \ {x} PROVE RunKnows(z)'
    <3>1. CASE z \in together'
      <4>1. /\ RunKnows(z) /\ pc'[z] = pc[z] /\ ids'[z] = ids[z]
            /\ z \in wrote' <=> z \in wrote
        BY RunLeavesChains DEF ClaimsInv
      <4> QED
        BY <3>1, <4>1 DEF RunKnows
    <3> QED
      BY <1>6, <3>1, AloneKeeps
  <2>4. ASSUME NEW w \in Sessions, NEW z \in Sessions, w # z, {w, z} \cap together' = {}
        PROVE  ids'[w] \cap ids'[z] = {}
    <3>1. CASE w = x
      BY <1>6, <2>4, <3>1, AloneKeeps
    <3>2. CASE z = x
      BY <1>6, <2>4, <3>2, AloneKeeps
    <3>3. CASE w # x /\ z # x
      BY <2>4, <3>3, RunLeavesChains DEF ClaimsInv
    <3> QED
      BY <3>1, <3>2, <3>3
  <2> QED
    BY <1>1, <1>2, <1>3, <1>4, <2>2, <2>3, <2>4 DEF ClaimsInv
<1> QED
  BY <1>5, <1>6 DEF Action

\* A step of a chain keeps the invariant.  What chains have stamped is in no later pool,
\* and another chain that is preparing is marked.
LEMMA ChainStep ==
  ASSUME TypeOK, ClaimsInv, NEW y \in Chains, ChainAction(y)
  PROVE  ClaimsInv'
<1> USE DEF TypeOK
<1>1. /\ \A x, z \in Live' : x # z => {x, z} \subseteq together'
      /\ \A x, z \in Sessions :
           x # z /\ {x, z} \cap together' = {} => ids'[x] \cap ids'[z] = {}
  BY ChainLeavesRuns DEF sessionVars, Live, ClaimsInv
<1>2. ASSUME NEW x \in Sessions PROVE RunKnows(x)'
  <2>1. /\ RunKnows(x) /\ UNCHANGED sessionVars /\ ids[x] \subseteq Signals
        /\ x \in wrote' <=> x \in wrote
    BY ChainLeavesRuns DEF ClaimsInv
  <2>2. \A s \in ids[x] : stamp'[s] \in {stamp[s]} \cup Chains
    BY <2>1, ChainLeavesRuns
  <2> QED
    BY <2>1, <2>2 DEF RunKnows, sessionVars
<1>3. ChainKnows(y) /\ \A z \in Chains \ {y} : ChainKnows(z)
  BY DEF ClaimsInv
<1>4. \A s \in Signals : stamp[s] \in Chains => stamp'[s] \in Chains
  BY ChainLeavesRuns
<1>0. ASSUME NEW w \in Chains, NEW z \in Chains, w # z, {w, z} \notin prepared'
      PROVE  {w, z} \notin prepared /\ Selected(w) \cap Selected(z) = {}
  <2>1. {w, z} \notin prepared
    BY <1>0, ChainLeavesRuns
  <2> QED
    BY <1>0, <2>1 DEF ClaimsInv
<1>5. ASSUME NEW z \in Chains \ {y}
      PROVE  /\ ChainKnows(z)' /\ Selected(z)' = Selected(z)
             /\ Preparing(z)' <=> Preparing(z)
  <2>1. /\ step'[z] = step[z] /\ pool'[z] = pool[z] /\ batch'[z] = batch[z]
        /\ status'[z] = status[z] /\ current'[z] = current[z]
        /\ z \in wrote' <=> z \in wrote
        /\ ChainKnows(z)
    BY <1>3, ChainLeavesRuns
  <2>2. \A i \in Index : \A s \in batch[z][i] : stamp[s] \in Chains => stamp'[s] \in Chains
    <3>1. batch[z] \in [Index -> SUBSET Signals]
      OBVIOUS
    <3> QED
      BY <1>4, <3>1
  <2> QED
    BY <2>1, <2>2 DEF ChainKnows, Preparing, Working, Selected
<1>6. ASSUME NEW w \in Chains, NEW z \in Chains, w # z, Preparing(w)', Preparing(z)'
      PROVE  {w, z} \in prepared'
  <2>1. Preparing(y)' => Preparing(y) \/ StartChain(y)
    <3>1. CASE SelectPool(y)
      BY <3>1 DEF SelectPool, Preparing
    <3>2. CASE InsertRow(y) \/ StampPool(y)
      BY <3>2 DEF InsertRow, StampPool, Preparing
    <3>3. CASE PickBatch(y) \/ AgentReturns(y) \/ CommitBatch(y) \/ CloseBatch(y)
      BY <3>3 DEF PickBatch, AgentReturns, CommitBatch, CloseBatch, Leap, Preparing
    <3>4. CASE Continue(y) \/ Finalize(y) \/ ChainDies(y)
      BY <3>4 DEF Continue, Finalize, ChainDies, Leap, Preparing
    <3> QED
      BY <3>1, <3>2, <3>3, <3>4 DEF ChainAction, Chain
  <2>2. StartChain(y) => \A z1 \in Chains : Preparing(z1) => {y, z1} \in prepared'
    BY DEF StartChain
  <2>3. \A w1, z1 \in Chains :
          w1 # z1 /\ Preparing(w1) /\ Preparing(z1) => {w1, z1} \in prepared'
    BY ChainLeavesRuns DEF ClaimsInv
  <2>4. CASE w # y /\ z # y
    BY <1>5, <1>6, <2>3, <2>4
  <2>5. CASE w = y
    BY <1>5, <1>6, <2>1, <2>2, <2>3, <2>5
  <2>6. CASE z = y
    <3>1. {w, z} = {z, w}
      OBVIOUS
    <3> QED
      BY <1>5, <1>6, <2>1, <2>2, <2>3, <2>6, <3>1
  <2> QED
    BY <2>4, <2>5, <2>6
<1>7. ASSUME NEW z \in Chains \ {y}, {y, z} \notin prepared'
      PROVE  Selected(y)' \cap Selected(z)' = {}
  <2>1. {y, z} \notin prepared /\ Selected(y) \cap Selected(z) = {}
    BY <1>0, <1>7
  <2>2. CASE SelectPool(y)
    <3>1. step[y] = "pool" /\ y \notin wrote /\ y \notin wrote'
      BY <1>3, <2>2 DEF SelectPool, ChainKnows, Preparing
    <3>2. CASE Leap(y, "next") /\ UNCHANGED <<pool, batch>>
      <4>1. step'[y] = "next" /\ \A i \in Index : batch'[y][i] = {}
        BY <1>3, <3>1, <3>2 DEF Leap, ChainKnows
      <4> QED
        BY <4>1 DEF Selected
    <3>3. CASE step'[y] = "queue" /\ pool'[y] \in SUBSET SessionStamped
      <4>1. ~Preparing(z)
        BY <2>1, <3>1 DEF ClaimsInv, Preparing
      <4>2. \A s \in Selected(z) : stamp[s] \in Chains
        BY <1>3, <4>1 DEF Selected, ChainKnows, Preparing
      <4>3. Selected(y)' \subseteq SessionStamped
        BY <3>3 DEF Selected
      <4> QED
        BY <1>5, <4>2, <4>3 DEF SessionStamped
    <3> QED
      BY <2>2, <3>2, <3>3, PoolSelected DEF Leap
  <2>3. CASE ~SelectPool(y)
    <3>1. Selected(y)' \subseteq Selected(y)
      <4>1. CASE StartChain(y)
        BY <1>3, <4>1 DEF StartChain, Unused, Leap, Selected, Working, ChainKnows
      <4>2. CASE InsertRow(y)
        BY <4>2 DEF InsertRow, Leap, Selected
      <4>3. CASE StampPool(y)
        BY <1>3, <4>3 DEF StampPool, Leap, Selected, ChainKnows
      <4>4. CASE PickBatch(y) \/ AgentReturns(y) \/ CommitBatch(y) \/ CloseBatch(y)
        BY <4>4 DEF PickBatch, AgentReturns, CommitBatch, CloseBatch, Leap, Selected, Working
      <4>5. CASE Continue(y)
        BY <4>5 DEF Continue, Leap, Selected, Working
      <4>6. CASE Finalize(y)
        BY <4>6 DEF Finalize, Leap, Selected, Working
      <4>7. CASE ChainDies(y)
        <5>1. /\ step'[y] = "dead" /\ wrote' = wrote
              /\ \A i \in Index : batch'[y][i] \subseteq batch[y][i]
          BY <4>7 DEF ChainDies, Leap
        <5> QED
          BY <1>3, <5>1 DEF Selected, Working, ChainKnows, Preparing
      <4> QED
        BY <2>3, <4>1, <4>2, <4>3, <4>4, <4>5, <4>6, <4>7 DEF ChainAction, Chain
    <3> QED
      BY <1>5, <2>1, <3>1
  <2> QED
    BY <2>2, <2>3
<1>8. ASSUME NEW w \in Chains, NEW z \in Chains, w # z, {w, z} \notin prepared'
      PROVE  Selected(w)' \cap Selected(z)' = {}
  <2>1. CASE w = y
    BY <1>7, <1>8, <2>1
  <2>2. CASE z = y
    <3>1. {w, z} = {z, w}
      OBVIOUS
    <3> QED
      BY <1>7, <1>8, <2>2, <3>1
  <2>3. CASE w # y /\ z # y
    BY <1>0, <1>5, <1>8, <2>3
  <2> QED
    BY <2>1, <2>2, <2>3
<1>9. ChainKnows(y)'
  <2> USE DEF Working
  <2>0. \A i \in Index : \A s \in batch[y][i] : stamp[s] \in Chains => stamp'[s] \in Chains
    <3>1. batch[y] \in [Index -> SUBSET Signals]
      OBVIOUS
    <3> QED
      BY <1>4, <3>1
  <2>1. CASE StartChain(y)
    BY <1>3, <2>1 DEF StartChain, Unused, Leap, ChainKnows, Preparing
  <2>2. CASE SelectPool(y)
    <3>1. /\ step[y] = "pool" /\ y \notin wrote /\ current[y] = 0
          /\ UNCHANGED <<stamp, wrote, current>>
          /\ \A i \in Index : batch[y][i] = {}
      BY <1>3, <2>2, PoolSelected DEF ChainKnows, Preparing
    <3>2. CASE Leap(y, "next") /\ UNCHANGED <<pool, batch>>
      BY <3>1, <3>2 DEF Leap, ChainKnows, Preparing
    <3>3. ASSUME NEW picked \in SUBSET SessionStamped, NEW packed \in [Index -> SUBSET picked],
                 Leap(y, "queue"),
                 pool' = [pool EXCEPT ![y] = picked],
                 batch' = [batch EXCEPT ![y] = packed]
          PROVE ChainKnows(y)'
      BY <3>1, <3>3 DEF SessionStamped, Leap, ChainKnows, Preparing
    <3> QED
      BY <2>2, <3>2, <3>3, PoolSelected
  <2>3. CASE InsertRow(y)
    <3>1. /\ step[y] = "queue" /\ step'[y] \in {"queue", "stamp"} /\ current[y] = 0
          /\ UNCHANGED <<stamp, wrote, pool, batch, current>>
      BY <2>3 DEF InsertRow, Leap
    <3> QED
      BY <1>3, <3>1 DEF ChainKnows, Preparing
  <2>4. CASE StampPool(y)
    <3>1. \A i \in Index : \A s \in batch[y][i] : s \in pool[y] /\ s \in Signals
      BY <1>3, <2>4 DEF StampPool, ChainKnows
    <3> QED
      BY <1>3, <2>4, <3>1 DEF StampPool, Leap, ChainKnows, Preparing
  <2>5. CASE PickBatch(y) \/ AgentReturns(y) \/ CommitBatch(y) \/ CloseBatch(y)
    <3>1. CASE PickBatch(y)
      BY <1>3, <3>1 DEF PickBatch, Pending, Leap, ChainKnows, Preparing
    <3>2. CASE AgentReturns(y) \/ CommitBatch(y)
      BY <1>3, <3>2 DEF AgentReturns, CommitBatch, Leap, ChainKnows, Preparing
    <3>3. CASE CloseBatch(y)
      BY <1>3, <3>3 DEF CloseBatch, Leap, ChainKnows, Preparing
    <3> QED
      BY <2>5, <3>1, <3>2, <3>3
  <2>6. CASE Continue(y) \/ Finalize(y)
    BY <1>3, <2>6 DEF Continue, Finalize, Leap, ChainKnows, Preparing
  <2>7. CASE ChainDies(y)
    <3>1. /\ step'[y] = "dead" /\ current'[y] = 0 /\ UNCHANGED <<stamp, wrote>>
          /\ \A i \in Index : batch'[y][i] \subseteq batch[y][i]
      BY <2>7 DEF ChainDies, Leap
    <3> QED
      BY <1>3, <3>1 DEF ChainKnows, Preparing
  <2> QED
    BY <2>1, <2>2, <2>3, <2>4, <2>5, <2>6, <2>7 DEF ChainAction, Chain
<1> QED
  BY <1>1, <1>2, <1>5, <1>6, <1>8, <1>9 DEF ClaimsInv

\* Each run and each chain may rely on what ClaimsInv says of its signals.
THEOREM InvCorrect == Spec => []ClaimsInv
<1>1. Init => ClaimsInv
  BY DEF Init, ClaimsInv, RunKnows, ChainKnows, Preparing, Working, Selected, Live
<1>2. TypeOK /\ ClaimsInv /\ [Next]_vars => ClaimsInv'
  <2>1. CASE UNCHANGED vars
    BY <2>1 DEF vars, ClaimsInv, RunKnows, ChainKnows, Preparing, Working, Selected, Live
  <2> QED
    BY <2>1, RunStep, ChainStep DEF Next, Action, ChainAction
<1> QED
  BY <1>1, <1>2, TypeCorrect, PTL DEF Spec

\* A signal makes candidates of one session at most and of one chain at most, unless
\* they were at work, or prepared, together.
COROLLARY OneWriterCorrect == Spec => []OneWriterUnlessTogether
<1>1. TypeOK /\ ClaimsInv => OneWriterUnlessTogether
  <2> SUFFICES ASSUME TypeOK, ClaimsInv PROVE OneWriterUnlessTogether
    OBVIOUS
  <2>1. \A y \in Chains \cap wrote : Given(y) \subseteq Selected(y)
    BY DEF ClaimsInv, ChainKnows, Given, Selected, Working, Preparing
  <2> QED
    BY <2>1 DEF OneWriterUnlessTogether, ClaimsInv
<1> QED
  BY <1>1, TypeCorrect, InvCorrect, PTL

----------------------------------------------------------------------------
(* Refinement. *)

\* What SignalLife sees of a step that writes no candidates.
LEMMA NothingWritten ==
  ASSUME UNCHANGED wrote, \A z \in Sessions \cap wrote : ids'[z] = ids[z],
         \A z \in Chains \cap wrote : Given(z)' = Given(z)
  PROVE  [s \in Signals |-> WritersOf(s)]' = [s \in Signals |-> WritersOf(s)]
<1>1. ASSUME NEW s \in Signals PROVE WritersOf(s)' = WritersOf(s)
  BY DEF WritersOf
<1> QED
  BY <1>1

\* What a run does to a signal, SignalLife allows.
LEMMA RunImplements ==
  ASSUME TypeOK, TypeOK', ClaimsInv, NEW x \in Sessions, Action(x)
  PROVE  [Abstract!Next]_(Abstract!vars)
<1> DEFINE life == [s \in Signals |-> LifeOf(s)]
           writers == [s \in Signals |-> WritersOf(s)]
<1>0. (\A z \in Chains : Given(z)' = Given(z)) /\ UNCHANGED prepared
  BY RunLeavesChains DEF chainVars, Given
<1>1. \A z \in Sessions \ {x} : ids'[z] = ids[z]
  BY RunLeavesChains
<1>2. ASSUME UNCHANGED wrote, x \in wrote => ids'[x] = ids[x] PROVE writers' = writers
  BY <1>0, <1>1, <1>2, NothingWritten
<1>3. ASSUME UNCHANGED stamp PROVE life' = life
  BY <1>3 DEF LifeOf
<1>4. CASE Start(x) \/ Acquire(x) \/ AgentAnswers(x) \/ TooFew(x) \/ Crash(x)
             \/ (Commit(x) /\ ~proposed[x])
  <2>1. UNCHANGED <<stamp, wrote>> /\ (x \in wrote => ids'[x] = ids[x])
    <3>1. CASE Start(x) \/ Acquire(x) \/ AgentAnswers(x)
      BY <3>1 DEF Start, Acquire, AgentAnswers, ClaimsInv, RunKnows
    <3>2. CASE TooFew(x) \/ Crash(x) \/ (Commit(x) /\ ~proposed[x])
      BY <3>2 DEF TooFew, Crash, Commit, End, TypeOK
    <3> QED
      BY <1>4, <3>1, <3>2
  <2>2. \A s \in Signals : together \cap WritersOf(s) \subseteq together'
    BY <2>1, RunLeavesChains DEF WritersOf, TypeOK
  <2>3. together' \in SUBSET Sessions /\ prepared' \in SUBSET SUBSET Chains
    BY DEF TypeOK
  <2>4. Abstract!Meet
    BY <1>0, <1>2, <1>3, <2>1, <2>2, <2>3 DEF Abstract!Meet
  <2> QED
    BY <2>4 DEF Abstract!Next
<1>5. CASE Release(x)
  <2> DEFINE S == {s \in Signals : stamp[s] \in Sessions \ wrote}
  <2>1. writers' = writers /\ UNCHANGED together
    BY <1>2, <1>5 DEF Release
  <2>2. \A s \in S : LifeOf(s) = "claimed" /\ WritersOf(s) \cap Sessions \subseteq together
    BY DEF LifeOf, WritersOf, ClaimsInv, RunKnows, TypeOK
  <2>3. \A s \in Signals : LifeOf(s)' = IF s \in S THEN "free" ELSE LifeOf(s)
    BY <1>5 DEF Release, LifeOf
  <2>4. Abstract!Release(S)
    BY <1>0, <2>1, <2>2, <2>3 DEF Abstract!Release, Abstract!Become
  <2> QED
    BY <2>4 DEF Abstract!Next
<1>6. CASE Claim(x)
  <2> DEFINE S == ids[x] \cap Free
  <2>1. writers' = writers /\ UNCHANGED together
    BY <1>2, <1>6 DEF Claim
  <2>2. S \in SUBSET Signals /\ \A s \in S : LifeOf(s) = "free"
    BY DEF LifeOf, Free
  <2>3. \A s \in Signals : LifeOf(s)' = IF s \in S THEN "claimed" ELSE LifeOf(s)
    BY <1>6 DEF Claim, LifeOf
  <2>4. Abstract!Claim(S)
    BY <1>0, <2>1, <2>2, <2>3 DEF Abstract!Claim, Abstract!Become
  <2> QED
    BY <2>2, <2>4 DEF Abstract!Next
<1>7. CASE Commit(x) /\ proposed[x]
  <2>1. wrote' = wrote \cup {x} /\ UNCHANGED <<stamp, ids, together>>
    BY <1>7 DEF Commit, End, TypeOK
  <2>2. ids[x] \in SUBSET Signals /\ Sessions # Chains
    BY DEF TypeOK
  <2>3. \A s \in ids[x] : LifeOf(s) = "free" => x \in together
    BY <1>7 DEF Commit, LifeOf, ClaimsInv, RunKnows
  <2>4. \A s \in ids[x] : \A v \in WritersOf(s) \cap Sessions :
          v # x => {v, x} \cap together # {}
    BY DEF WritersOf, ClaimsInv
  <2>5. \A s \in Signals : WritersOf(s)' =
          IF s \in ids[x] THEN WritersOf(s) \cup {x} ELSE WritersOf(s)
    <3> SUFFICES ASSUME NEW s \in Signals
                 PROVE  WritersOf(s)' =
                          IF s \in ids[x] THEN WritersOf(s) \cup {x} ELSE WritersOf(s)
      OBVIOUS
    <3>1. {z \in Chains \cap wrote : s \in Given(z)}' = {z \in Chains \cap wrote : s \in Given(z)}
      BY <1>0, <2>1
    <3> QED
      BY <2>1, <3>1 DEF WritersOf
  <2>6. Abstract!Write(x, ids[x], Sessions)
    BY <1>0, <1>3, <2>1, <2>2, <2>3, <2>4, <2>5 DEF Abstract!Write
  <2> QED
    BY <2>2, <2>6 DEF Abstract!Next
<1> QED
  BY <1>4, <1>5, <1>6, <1>7 DEF Action, Run

\* What a chain has given to the agent changes in no step once it has written.
LEMMA GivenStays ==
  ASSUME TypeOK, ClaimsInv, NEW y \in Chains, ChainAction(y)
  PROVE  \A z \in Chains : z \in wrote \/ step[y] = "commit" => Given(z)' = Given(z)
<1>1. ASSUME NEW z \in Chains \ {y} PROVE Given(z)' = Given(z)
  BY ChainLeavesRuns DEF Given
<1>2. ASSUME ~Preparing(y), step[y] # "unused" PROVE Given(y)' = Given(y)
  <2>1. ASSUME NEW i \in Index
        PROVE  /\ status[y][i] # "none" => batch'[y][i] = batch[y][i]
               /\ status'[y][i] # "none" <=> status[y][i] # "none"
    <3> USE <1>2, <2>1 DEF TypeOK
    <3>1. CASE ChainDies(y)
      BY <3>1 DEF ChainDies
    <3>2. CASE PickBatch(y) \/ AgentReturns(y) \/ CommitBatch(y) \/ Continue(y) \/ Finalize(y)
      BY <3>2 DEF PickBatch, AgentReturns, CommitBatch, Continue, Finalize
    <3>3. CASE CloseBatch(y)
      <4>1. current[y] \in Index /\ status[y][current[y]] # "none"
        BY <3>3 DEF CloseBatch, ClaimsInv, ChainKnows
      <4> QED
        BY <3>3, <4>1 DEF CloseBatch
    <3> QED
      BY <3>1, <3>2, <3>3, PoolSelected DEF ChainAction, Chain, StartChain, Unused, InsertRow, StampPool, Preparing
  <2> QED
    BY <2>1 DEF Given
<1> QED
  BY <1>1, <1>2 DEF ClaimsInv, ChainKnows, Preparing

\* What a chain does to a signal, SignalLife allows.
LEMMA ChainImplements ==
  ASSUME TypeOK, TypeOK', ClaimsInv, NEW y \in Chains, ChainAction(y)
  PROVE  [Abstract!Next]_(Abstract!vars)
<1> DEFINE life == [s \in Signals |-> LifeOf(s)]
           writers == [s \in Signals |-> WritersOf(s)]
<1>1. UNCHANGED <<ids, together>> /\ wrote' \cap Sessions = wrote \cap Sessions
  BY ChainLeavesRuns DEF sessionVars
<1>2. \A z \in Chains : z \in wrote \/ step[y] = "commit" => Given(z)' = Given(z)
  BY GivenStays
<1>3. ASSUME UNCHANGED wrote PROVE writers' = writers
  BY <1>1, <1>2, <1>3, NothingWritten
<1>4. ASSUME UNCHANGED stamp PROVE life' = life
  BY <1>4 DEF LifeOf
<1>5. CASE StampPool(y)
  <2> DEFINE S == {s \in pool[y] : stamp[s] \notin Chains}
  <2>1. pool[y] \in SUBSET Signals /\ \A s \in S : LifeOf(s) # "revisited"
    BY DEF LifeOf, TypeOK
  <2>2. \A s \in Signals : LifeOf(s)' = IF s \in S THEN "revisited" ELSE LifeOf(s)
    BY <1>5 DEF StampPool, LifeOf, TypeOK
  <2>3. writers' = writers /\ UNCHANGED prepared
    BY <1>3, <1>5 DEF StampPool
  <2>4. Abstract!Revisit(S)
    BY <1>1, <2>1, <2>2, <2>3 DEF Abstract!Revisit, Abstract!Become
  <2>5. S \in SUBSET Signals
    BY <2>1
  <2> QED
    BY <2>4, <2>5 DEF Abstract!Next
<1>6. CASE CommitBatch(y) /\ found[y] = "some"
  <2>1. step[y] = "commit" /\ wrote' = wrote \cup {y} /\ UNCHANGED <<stamp, prepared>>
    BY <1>6 DEF CommitBatch
  <2>2. \A z \in Chains : z \in wrote \/ z = y => Given(z) \subseteq Selected(z)
    BY <2>1 DEF ClaimsInv, ChainKnows, Given, Selected, Working, Preparing
  <2>3. Given(y) \in SUBSET Signals
    BY DEF Given, TypeOK
  <2>4. \A s \in Given(y) : LifeOf(s) = "revisited"
    BY <2>1 DEF LifeOf, Given, ClaimsInv, ChainKnows, Working
  <2>5. \A s \in Given(y) : \A v \in WritersOf(s) \cap Chains : v # y => {v, y} \in prepared
    BY <2>2 DEF WritersOf, ClaimsInv
  <2>6. \A s \in Signals : WritersOf(s)' =
          IF s \in Given(y) THEN WritersOf(s) \cup {y} ELSE WritersOf(s)
    <3> SUFFICES ASSUME NEW s \in Signals
                 PROVE  WritersOf(s)' =
                          IF s \in Given(y) THEN WritersOf(s) \cup {y} ELSE WritersOf(s)
      OBVIOUS
    <3>1. {x \in Sessions \cap wrote : s \in ids[x]}' = {x \in Sessions \cap wrote : s \in ids[x]}
      BY <1>1
    <3>2. {z \in Chains \cap wrote : s \in Given(z)}' =
            {z \in Chains \cap wrote : s \in Given(z)} \cup (IF s \in Given(y) THEN {y} ELSE {})
      BY <1>2, <2>1
    <3> QED
      BY <3>1, <3>2 DEF WritersOf
  <2>7. Abstract!Write(y, Given(y), Chains)
    BY <1>1, <1>4, <2>1, <2>3, <2>4, <2>5, <2>6 DEF Abstract!Write
  <2> QED
    BY <2>3, <2>7 DEF Abstract!Next
<1>7. CASE ~StampPool(y) /\ ~(CommitBatch(y) /\ found[y] = "some")
  <2>1. UNCHANGED <<stamp, wrote>>
    BY <1>7, PoolSelected DEF ChainAction, Chain, StartChain, ChainDies, InsertRow, PickBatch,
           AgentReturns, CommitBatch, CloseBatch, Continue, Finalize
  <2>2. together' \in SUBSET Sessions /\ prepared' \in SUBSET SUBSET Chains
    BY DEF TypeOK
  <2>3. prepared \subseteq prepared'
    BY ChainLeavesRuns
  <2>4. Abstract!Meet
    BY <1>1, <1>3, <1>4, <2>1, <2>2, <2>3 DEF Abstract!Meet
  <2> QED
    BY <2>4 DEF Abstract!Next
<1> QED
  BY <1>5, <1>6, <1>7

\* Distillation and revisit treat each signal as SignalLife promises.
THEOREM Implementation == Spec => ImplementsSignalLife
<1>1. Init => Abstract!Init
  BY DEF Init, Abstract!Init, LifeOf, WritersOf
<1>2. TypeOK /\ TypeOK' /\ ClaimsInv /\ [Next]_vars => [Abstract!Next]_(Abstract!vars)
  <2> SUFFICES ASSUME TypeOK, TypeOK', ClaimsInv, [Next]_vars
               PROVE  [Abstract!Next]_(Abstract!vars)
    OBVIOUS
  <2>1. CASE UNCHANGED vars
    BY <2>1 DEF vars, Abstract!vars, LifeOf, WritersOf, Given
  <2> QED
    BY <2>1, RunImplements, ChainImplements DEF Next, Action, ChainAction
<1> QED
  BY <1>1, <1>2, TypeCorrect, InvCorrect, PTL DEF Spec, ImplementsSignalLife, Abstract!Spec
=============================================================================

----------------------- MODULE EnrichmentChain_proofs -----------------------
(***************************************************************************)
(* Proofs about EnrichmentChain: type correctness, that the name and the   *)
(* category of a trend are recorded and frozen and its coverage kept, and  *)
(* that its retries are bounded, for any number of trends, passes, chains, *)
(* sources and failures.                                                   *)
(***************************************************************************)
EXTENDS EnrichmentChain, FiniteSetTheorems, TLAPS

\* An idle pass and an idle chain have the types of their records.
LEMMA IdleTypes == NoPass \in PassState /\ NoChain \in ChainState
  BY LimitsAssumption DEF NoPass, NoChain, PassState, ChainState

\* A pass that has just started.
LEMMA StartedTypes ==
  \A dry \in BOOLEAN :
    /\ [NoPass EXCEPT !.at = "apply", !.iteration = 1] \in PassState
    /\ [NoPass EXCEPT !.at = "apply", !.iteration = 1, !.dry = dry] \in PassState
<1>1. 1 \in 0..MaxIterations
  BY LimitsAssumption
<1>. QED
  BY <1>1 DEF NoPass, PassState

LEMMA LastSlotType == LastSlot \in Nat /\ FirstSlot + Period \in 0..LastSlot
  BY SlotsAssumption DEF LastSlot

\* The tables a pass does not touch.
PassOnly == UNCHANGED <<chain, tables>>

LEMMA PassTypes ==
  ASSUME TypeOK, NEW p \in Passes,
         StartByTimer \/ StartByHand(p) \/ Apply(p) \/ Query(p) \/ Retrigger(p) \/ PassDies(p)
           \/ \E t \in Trends : FireFails(p, t)
  PROVE  TypeOK' /\ PassOnly
<1>. USE IdleTypes, LimitsAssumption, PassesAssumption DEF TypeOK, PassOnly, tables, slot
<1>1. CASE StartByTimer
  <2>1. pass' \in [Passes -> PassState]
    BY <1>1, StartedTypes DEF StartByTimer
  <2>2. started' \in 0..(1 + ByHand)
    BY <1>1 DEF StartByTimer
  <2>. QED
    BY <1>1, <2>1, <2>2 DEF StartByTimer
<1>2. CASE StartByHand(p)
  <2>0. PICK dry \in BOOLEAN :
          pass' = [pass EXCEPT ![p] = [NoPass EXCEPT !.at = "apply", !.iteration = 1, !.dry = dry]]
    BY <1>2 DEF StartByHand
  <2>1. pass' \in [Passes -> PassState]
    BY <2>0, StartedTypes
  <2>2. started' \in 0..(1 + ByHand)
    <3>1. started \in 1..ByHand /\ started' = started + 1
      BY <1>2, Zenon DEF StartByHand
    <3>2. ByHand \in Nat
      BY LimitsAssumption
    <3>. HIDE DEF TypeOK
    <3>. QED
      BY <3>1, <3>2
  <2>3. UNCHANGED <<promoted, chain, tables, age, fired, failures>>
    BY <1>2, Zenon DEF StartByHand
  <2>. QED
    BY <2>1, <2>2, <2>3
<1>3. CASE Apply(p)
  <2>1. PICK t \in {None} \cup (IF pass[p].dry THEN {} ELSE Trends \ Promoted) :
          /\ promoted' = IF t = None THEN promoted ELSE Append(promoted, t)
          /\ pass' = [pass EXCEPT ![p].at = "query", ![p].todo = extractPromotedTrendIds(t)]
    BY <1>3 DEF Apply
  <2>2. extractPromotedTrendIds(t) \in SUBSET Trends /\ promoted' \in Seq(Trends)
    BY <2>1 DEF extractPromotedTrendIds
  <2>3. pass' \in [Passes -> PassState]
    BY <2>1, <2>2 DEF PassState
  <2>. QED
    BY <1>3, <2>2, <2>3 DEF Apply
<1>4. CASE Query(p)
  <2>1. Promoted \subseteq Trends
    BY DEF Promoted
  <2>2. selectRetryTrendIds(p) \subseteq Trends
    BY <2>1 DEF selectRetryTrendIds, Unenriched, Youngest
  <2>. QED
    BY <1>4, <2>2 DEF Query, PassState
<1>5. CASE Retrigger(p)
  <2>1. CASE pass' = [pass EXCEPT ![p] = NoPass]
    BY <1>5, <2>1 DEF Retrigger
  <2>2. CASE /\ pass[p].iteration < MaxIterations
             /\ pass' = [pass EXCEPT ![p].at = "apply", ![p].iteration = @ + 1]
    <3>1. pass[p].iteration + 1 \in 0..MaxIterations
      BY <2>2 DEF PassState
    <3>2. pass' \in [Passes -> PassState]
      BY <2>2, <3>1 DEF PassState
    <3>. QED
      BY <1>5, <3>2 DEF Retrigger
  <2>. QED
    BY <1>5, <2>1, <2>2 DEF Retrigger
<1>6. CASE PassDies(p)
  BY <1>6 DEF PassDies, Fault, PassState
<1>7. CASE \E t \in Trends : FireFails(p, t)
  <2>1. PICK t \in Trends : FireFails(p, t)
    BY <1>7
  <2>2. pass' \in [Passes -> PassState]
    BY <2>1 DEF FireFails, PassState
  <2>3. failures' \in 0..MaxFailures
    BY <2>1 DEF FireFails, Fault
  <2>. QED
    BY <2>1, <2>2, <2>3 DEF FireFails
<1>. QED
  BY <1>1, <1>2, <1>3, <1>4, <1>5, <1>6, <1>7

\* A fire starts a chain for its trend.
LEMMA FireTypes ==
  ASSUME TypeOK, NEW p \in Passes, NEW t \in Trends, NEW c \in Chains, Fire(p, t, c)
  PROVE  TypeOK' /\ UNCHANGED tables
<1>. USE IdleTypes DEF TypeOK, tables
<1>1. pass' \in [Passes -> PassState]
  BY DEF Fire, PassState
<1>2. chain' \in [Chains -> ChainState]
  BY DEF Fire, ChainState, Stages
<1>3. fired' \in [Trends -> Nat]
  BY DEF Fire
<1>. QED
  BY <1>1, <1>2, <1>3 DEF Fire

\* Three hours more: at most the last slot.
LEMMA TickTypes ==
  ASSUME TypeOK, Tick
  PROVE  TypeOK' /\ PassOnly
<1>. USE DEF TypeOK, tables, PassOnly
<1>1. \A t \in Trends : age[t] \in 0..LastSlot /\ (age[t] # LastSlot => age[t] + 1 \in 0..LastSlot)
  BY LastSlotType
<1>2. age' \in [Trends -> 0..LastSlot]
  BY <1>1, LastSlotType DEF Tick
<1>3. 0 \in 0..(1 + ByHand)
  BY LimitsAssumption
<1>. QED
  BY <1>2, <1>3 DEF Tick

\* The steps of a chain that leave the tables alone, but for metrics and terms.
Gathering(c) ==
  \/ generate_search_terms(c) \/ fetch_external(c) \/ merge_fct_metrics(c) \/ merge_gsc_terms(c)
  \/ Propose(c) \/ run_name_reviewer(c) \/ compute_scores(c)
  \/ GiveUp(c) \/ WorkflowFails(c) \/ ProposeNothing(c)

\* What compute_scores sends to the procedure is a payload.
LEMMA ScoredType ==
  ASSUME TypeOK, NEW c \in Chains, compute_scores(c)
  PROVE  /\ chain' \in [Chains -> ChainState]
         /\ chain'[c].at # "idle" => chain'[c].at = "apply" /\ chain'[c].output \in Payload
<1>. USE IdleTypes DEF TypeOK, At, End
<1>0. chain[c] \in ChainState
  OBVIOUS
<1>1. CASE chain[c].output = None
  <2>1. chain' = [chain EXCEPT ![c] = NoChain]
    BY <1>1 DEF compute_scores
  <2>2. chain'[c].at = "idle"
    BY <2>1 DEF NoChain
  <2>. QED
    BY <2>1, <2>2
<1>2. CASE chain[c].output # None
  <2>. DEFINE out == chain[c].output
              nm == finalTrendName(out, chain[c].review)
  <2>1. out \in Payload
    BY <1>0, <1>2 DEF ChainState
  <2>2. chain[c].review # None => chain[c].review \in Reviews
    BY <1>0 DEF ChainState
  <2>3. nm \in Names \cup {None}
    BY <2>1, <2>2 DEF finalTrendName, Payload, Reviews
  <2>4. [out EXCEPT !.name = nm] \in Payload
    BY <2>1, <2>3 DEF Payload
  <2>5. chain' = [chain EXCEPT ![c] =
                    [chain[c] EXCEPT !.at = "apply", !.review = None,
                                     !.output = [out EXCEPT !.name = nm]]]
    BY <1>2 DEF compute_scores
  <2>6. [chain[c] EXCEPT !.at = "apply", !.review = None, !.output = [out EXCEPT !.name = nm]]
          \in ChainState
    <3>. HIDE DEF nm
    <3>. QED
      BY <1>0, <2>4 DEF ChainState, Stages
  <2>. QED
    BY <2>4, <2>5, <2>6 DEF ChainState
<1>. QED
  BY <1>1, <1>2

LEMMA GatheringTypes ==
  ASSUME IdentityInv, NEW c \in Chains, Gathering(c)
  PROVE  TypeOK' /\ UNCHANGED <<ledger, name, category>>
<1>. USE IdleTypes, LimitsAssumption DEF TypeOK, IdentityInv, WritesRecorded, tables, slot, At, To, End, Hop
<1>0. chain[c] \in ChainState
  OBVIOUS
<1>1. CASE generate_search_terms(c)
  BY <1>1 DEF generate_search_terms, ChainState, Stages
<1>2. CASE fetch_external(c)
  <2>1. PICK found \in SUBSET Sources :
          chain' = [chain EXCEPT ![c] = [@ EXCEPT !.at = "metrics", !.found = found]]
    BY <1>2 DEF fetch_external
  <2>2. chain' \in [Chains -> ChainState]
    BY <2>1 DEF ChainState, Stages
  <2>. QED
    BY <1>2, <2>2 DEF fetch_external
<1>3. CASE merge_fct_metrics(c)
  <2>1. chain[c].trend \in Trends /\ aggregate(c) \in [Sources -> {"none", "found"}]
    BY <1>3 DEF merge_fct_metrics, aggregate
  <2>2. metrics' \in [Trends -> [Sources -> {"none", "found"}]]
    BY <1>3, <2>1 DEF merge_fct_metrics
  <2>3. chain' \in [Chains -> ChainState]
    BY <1>3 DEF merge_fct_metrics, ChainState, Stages
  <2>. QED
    BY <1>3, <2>2, <2>3 DEF merge_fct_metrics
<1>4. CASE merge_gsc_terms(c)
  <2>1. chain[c].trend \in Trends
    BY <1>4 DEF merge_gsc_terms
  <2>2. [chain[c] EXCEPT !.at = "agent"] \in ChainState
    BY <1>0 DEF ChainState, Stages
  <2>3. chain' \in [Chains -> ChainState]
    BY <1>4, <2>2 DEF merge_gsc_terms
  <2>. QED
    BY <1>4, <2>1, <2>3 DEF merge_gsc_terms
<1>5. CASE Propose(c)
  <2>1. Outputs \subseteq Payload
    BY OutputsAssumption DEF Payload
  <2>2. PICK o \in Outputs :
          chain' = [chain EXCEPT ![c] = [@ EXCEPT !.at = "review", !.output = o]]
    BY <1>5 DEF Propose
  <2>3. chain' \in [Chains -> ChainState]
    BY <2>1, <2>2 DEF ChainState, Stages
  <2>. QED
    BY <1>5, <2>3 DEF Propose
<1>6. CASE run_name_reviewer(c)
  <2>1. PICK r \in Reviewed(chain[c].output) : Hop(c, "compute", [chain[c] EXCEPT !.review = r])
    BY <1>6 DEF run_name_reviewer
  <2>2. r \in Reviews \cup {None}
    BY <2>1 DEF Reviewed
  <2>3. [[chain[c] EXCEPT !.review = r] EXCEPT !.at = "compute"] \in ChainState
    BY <1>0, <2>2 DEF ChainState, Stages
  <2>4. chain' \in [Chains -> ChainState]
    BY <2>1, <2>3
  <2>. QED
    BY <1>6, <2>4 DEF run_name_reviewer
<1>7. CASE compute_scores(c)
  BY <1>7, ScoredType DEF compute_scores
<1>8. CASE GiveUp(c)
  <2>1. chain' \in [Chains -> ChainState]
    BY <1>0, <1>8 DEF GiveUp, ChainState
  <2>2. failures' \in 0..MaxFailures
    BY <1>8 DEF GiveUp, Fault
  <2>. QED
    BY <1>8, <2>1, <2>2 DEF GiveUp
<1>9. CASE WorkflowFails(c)
  <2>1. chain' \in [Chains -> ChainState]
    BY <1>9 DEF WorkflowFails, ChainState, Stages
  <2>2. failures' \in 0..MaxFailures
    BY <1>9 DEF WorkflowFails, Fault
  <2>. QED
    BY <1>9, <2>1, <2>2 DEF WorkflowFails
<1>10. CASE ProposeNothing(c)
  <2>1. chain' \in [Chains -> ChainState]
    BY <1>10 DEF ProposeNothing, ChainState, Stages
  <2>2. failures' \in 0..MaxFailures
    BY <1>10 DEF ProposeNothing, Fault
  <2>. QED
    BY <1>10, <2>1, <2>2 DEF ProposeNothing
<1>. QED
  BY <1>1, <1>2, <1>3, <1>4, <1>5, <1>6, <1>7, <1>8, <1>9, <1>10 DEF Gathering

\* The statements of the procedure.
Applying(c) == AppendLedger(c) \/ SetName(c) \/ SetCategory(c)

LEMMA ApplyingTypes ==
  ASSUME IdentityInv, NEW c \in Chains, Applying(c)
  PROVE  TypeOK' /\ UNCHANGED metrics
<1>. USE IdleTypes DEF TypeOK, IdentityInv, WritesRecorded, slot, At, To, End
<1>0. chain[c] \in ChainState
  OBVIOUS
<1>1. CASE AppendLedger(c)
  <2>1. chain[c].trend \in Trends /\ chain[c].output \in Payload
    BY <1>1 DEF AppendLedger
  <2>2. ledger' \in [Trends -> SUBSET Payload]
    BY <1>1, <2>1 DEF AppendLedger
  <2>3. chain' \in [Chains -> ChainState]
    BY <1>0, <1>1 DEF AppendLedger, ChainState, Stages
  <2>. QED
    BY <1>1, <2>2, <2>3 DEF AppendLedger
<1>2. CASE SetName(c)
  <2>1. chain[c].trend \in Trends /\ chain[c].output.name \in Names \cup {None}
    BY <1>2 DEF SetName, Payload
  <2>2. name' \in [Trends -> Names \cup {None}]
    BY <1>2, <2>1 DEF SetName
  <2>3. chain' \in [Chains -> ChainState]
    BY <1>0, <1>2 DEF SetName, ChainState, Stages
  <2>. QED
    BY <1>2, <2>2, <2>3 DEF SetName
<1>3. CASE SetCategory(c)
  <2>1. chain[c].trend \in Trends /\ chain[c].output.category \in {o.category : o \in Outputs}
    BY <1>3 DEF SetCategory, Payload
  <2>2. category' \in [Trends -> {o.category : o \in Outputs} \cup {"none"}]
    BY <1>3, <2>1 DEF SetCategory
  <2>3. chain' \in [Chains -> ChainState]
    BY <1>3 DEF SetCategory
  <2>. QED
    BY <1>3, <2>2, <2>3 DEF SetCategory
<1>. QED
  BY <1>1, <1>2, <1>3 DEF Applying

----------------------------------------------------------------------------
(* What the other chains know outlasts a step of one. *)

\* One chain of WritesRecorded.
Recorded(c) ==
  /\ ~At(c, "idle") => chain[c].trend \in Trends
  /\ chain[c].at \in {"apply", "name", "category"} => chain[c].output \in Payload
  /\ chain[c].at \in {"name", "category"} => chain[c].output \in ledger[chain[c].trend]

\* A chain whose ledger has lost nothing still knows it.
LEMMA OthersRecorded ==
  ASSUME IdentityInv, NEW d \in Chains, chain'[d] = chain[d],
         \A t \in Trends : ledger[t] \subseteq ledger'[t]
  PROVE  Recorded(d)'
  BY DEF IdentityInv, WritesRecorded, Recorded, At

LEMMA GatheringRecords ==
  ASSUME IdentityInv, NEW c \in Chains, Gathering(c)
  PROVE  Recorded(c)' /\ \A d \in Chains \ {c} : chain'[d] = chain[d]
<1>. USE DEF IdentityInv, TypeOK, WritesRecorded, Recorded, At, To, End, Hop, NoChain
<1>1. CASE generate_search_terms(c)
  BY <1>1 DEF generate_search_terms
<1>2. CASE fetch_external(c)
  BY <1>2 DEF fetch_external
<1>3. CASE merge_fct_metrics(c)
  BY <1>3 DEF merge_fct_metrics
<1>4. CASE merge_gsc_terms(c)
  BY <1>4 DEF merge_gsc_terms
<1>5. CASE Propose(c)
  BY <1>5 DEF Propose
<1>6. CASE run_name_reviewer(c)
  BY <1>6 DEF run_name_reviewer
<1>7. CASE compute_scores(c)
  <2>1. \A d \in Chains \ {c} : chain'[d] = chain[d]
    BY <1>7 DEF compute_scores
  <2>2. chain'[c].trend = chain[c].trend \/ chain'[c].at = "idle"
    <3>1. CASE chain[c].output = None
      BY <1>7, <3>1 DEF compute_scores
    <3>2. CASE chain[c].output # None
      <4>0. chain[c] \in ChainState
        OBVIOUS
      <4>. DEFINE scored == [chain[c] EXCEPT !.at = "apply", !.review = None,
                      !.output.name = finalTrendName(chain[c].output, chain[c].review)]
      <4>1. chain'[c] = scored
        BY <1>7, <3>2 DEF compute_scores
      <4>2. scored.trend = chain[c].trend
        BY <4>0 DEF ChainState
      <4>. QED
        BY <4>1, <4>2
    <3>. QED
      BY <3>1, <3>2
  <2>3. chain[c].trend \in Trends
    BY <1>7 DEF compute_scores
  <2>4. chain'[c].at # "idle" => chain'[c].at = "apply" /\ chain'[c].output \in Payload
    BY <1>7, ScoredType
  <2>. QED
    BY <2>1, <2>2, <2>3, <2>4
<1>8. CASE GiveUp(c)
  BY <1>8 DEF GiveUp, tables
<1>9. CASE WorkflowFails(c)
  BY <1>9 DEF WorkflowFails
<1>10. CASE ProposeNothing(c)
  BY <1>10 DEF ProposeNothing
<1>. QED
  BY <1>1, <1>2, <1>3, <1>4, <1>5, <1>6, <1>7, <1>8, <1>9, <1>10 DEF Gathering

LEMMA ApplyingRecords ==
  ASSUME IdentityInv, NEW c \in Chains, Applying(c)
  PROVE  /\ Recorded(c)'
         /\ \A d \in Chains \ {c} : chain'[d] = chain[d]
         /\ \A t \in Trends : ledger[t] \subseteq ledger'[t]
<1>. USE DEF IdentityInv, TypeOK, WritesRecorded, Recorded, At, To, End, NoChain
<1>1. CASE AppendLedger(c)
  <2>1. chain[c].trend \in Trends /\ chain[c].output \in Payload
    BY <1>1 DEF AppendLedger
  <2>2. \A t \in Trends : ledger[t] \subseteq ledger'[t]
    BY <1>1 DEF AppendLedger
  <2>3. chain[c].output \in ledger'[chain[c].trend]
    BY <1>1, <2>1 DEF AppendLedger
  <2>4. /\ chain'[c].trend = chain[c].trend /\ chain'[c].output = chain[c].output
        /\ \A d \in Chains \ {c} : chain'[d] = chain[d]
    BY <1>1 DEF AppendLedger
  <2>. QED
    BY <2>1, <2>2, <2>3, <2>4
<1>2. CASE SetName(c)
  BY <1>2 DEF SetName
<1>3. CASE SetCategory(c)
  BY <1>3 DEF SetCategory
<1>. QED
  BY <1>1, <1>2, <1>3 DEF Applying

\* An identity that was recorded stays so while the ledger grows.
LEMMA IdentityKept ==
  ASSUME IdentityInv, UNCHANGED <<name, category>>,
         \A t \in Trends : ledger[t] \subseteq ledger'[t]
  PROVE  IdentityRecorded'
  BY DEF IdentityInv, IdentityRecorded

LEMMA ApplyingIdentity ==
  ASSUME IdentityInv, NEW c \in Chains, Applying(c)
  PROVE  IdentityRecorded'
<1>1. CASE AppendLedger(c)
  BY <1>1, ApplyingRecords, IdentityKept DEF AppendLedger
<1>2. CASE SetName(c)
  BY <1>2 DEF SetName, At, IdentityInv, TypeOK, WritesRecorded, IdentityRecorded
<1>3. CASE SetCategory(c)
  BY <1>3 DEF SetCategory, At, IdentityInv, TypeOK, WritesRecorded, IdentityRecorded
<1>. QED
  BY <1>1, <1>2, <1>3 DEF Applying

----------------------------------------------------------------------------
(* The steps of the specification, sorted by what they change. *)

PassMoves ==
  \E p \in Passes :
    StartByTimer \/ StartByHand(p) \/ Apply(p) \/ Query(p) \/ Retrigger(p) \/ PassDies(p)
      \/ \E t \in Trends : FireFails(p, t)

LEMMA StepKinds ==
  ASSUME Next
  PROVE  \/ PassMoves \/ Tick
         \/ \E p \in Passes : \E t \in Trends : \E c \in Chains : Fire(p, t, c)
         \/ \E c \in Chains : Gathering(c) \/ Applying(c)
<1>1. CASE StartByTimer
  BY <1>1, PassesAssumption DEF PassMoves
<1>2. CASE Tick
  BY <1>2
<1>3. CASE Failure
  BY <1>3 DEF Failure, PassMoves, Gathering
<1>4. CASE \E p \in Passes : StartByHand(p) \/ PassStep(p)
  BY <1>4 DEF PassStep, PassMoves
<1>5. CASE \E c \in Chains : ChainStep(c)
  BY <1>5 DEF ChainStep, Gathering, Applying
<1>. QED
  BY <1>1, <1>2, <1>3, <1>4, <1>5 DEF Next

LEMMA Initially == Init => IdentityInv
<1>1. Init => TypeOK
  BY IdleTypes, LimitsAssumption, LastSlotType DEF Init, TypeOK
<1>2. Init => WritesRecorded /\ IdentityRecorded
  BY DEF Init, WritesRecorded, IdentityRecorded, NoChain, At
<1>. QED
  BY <1>1, <1>2 DEF IdentityInv

LEMMA Step == IdentityInv /\ [Next]_vars => IdentityInv'
<1>. SUFFICES ASSUME IdentityInv, [Next]_vars PROVE IdentityInv'
  OBVIOUS
<1>1. CASE UNCHANGED vars
  BY <1>1 DEF vars, tables, slot, IdentityInv, TypeOK, WritesRecorded, IdentityRecorded, At
<1>2. CASE PassMoves \/ Tick
  <2>1. TypeOK' /\ PassOnly
    BY <1>2, PassTypes, TickTypes DEF PassMoves, IdentityInv
  <2>. QED
    BY <2>1 DEF PassOnly, tables, IdentityInv, WritesRecorded, IdentityRecorded, At
<1>3. ASSUME NEW p \in Passes, NEW t \in Trends, NEW c \in Chains, Fire(p, t, c)
      PROVE  IdentityInv'
  <2>1. TypeOK' /\ UNCHANGED tables
    BY <1>3, FireTypes DEF IdentityInv
  <2>2. Recorded(c)' /\ \A d \in Chains \ {c} : chain'[d] = chain[d]
    BY <1>3 DEF Fire, Recorded, At, NoChain, IdentityInv, TypeOK
  <2>3. WritesRecorded'
    BY <2>1, <2>2, OthersRecorded DEF WritesRecorded, Recorded, tables
  <2>. QED
    BY <2>1, <2>3, IdentityKept DEF IdentityInv, tables
<1>4. ASSUME NEW c \in Chains, Gathering(c)
      PROVE  IdentityInv'
  <2>1. TypeOK' /\ UNCHANGED <<ledger, name, category>>
    BY <1>4, GatheringTypes
  <2>2. WritesRecorded'
    BY <1>4, <2>1, GatheringRecords, OthersRecorded DEF WritesRecorded, Recorded
  <2>. QED
    BY <2>1, <2>2, IdentityKept DEF IdentityInv
<1>5. ASSUME NEW c \in Chains, Applying(c)
      PROVE  IdentityInv'
  <2>1. TypeOK'
    BY <1>5, ApplyingTypes
  <2>2. WritesRecorded'
    BY <1>5, ApplyingRecords, OthersRecorded DEF WritesRecorded, Recorded
  <2>. QED
    BY <1>5, <2>1, <2>2, ApplyingIdentity DEF IdentityInv
<1>. QED
  BY <1>1, <1>2, <1>3, <1>4, <1>5, StepKinds

LEMMA Invariance == Spec => []IdentityInv
<1>. QED
  BY Initially, Step, PTL DEF Spec

----------------------------------------------------------------------------
\* The types of the promotion passes, the chains and the tables.
THEOREM TypeCorrect == Spec => []TypeOK
<1>1. IdentityInv => TypeOK
  BY DEF IdentityInv
<1>. QED
  BY <1>1, Invariance, PTL

\* Name and category are those of an enrichment the ledger records
\* (PROC_ENRICHMENT_APPLY appends first).
THEOREM RecordedCorrect == Spec => []IdentityRecorded
<1>1. IdentityInv => IdentityRecorded
  BY DEF IdentityInv
<1>. QED
  BY <1>1, Invariance, PTL

\* Name and category, once set, are frozen (WHERE TREND_NAME IS NULL).
THEOREM FrozenCorrect == Spec => IdentityFrozen
<1>. DEFINE Frozen == \A t \in Trends :
                        /\ name[t] # None => name'[t] = name[t]
                        /\ category[t] # "none" => category'[t] = category[t]
<1>1. ASSUME IdentityInv, [Next]_vars PROVE Frozen
  <2>1. CASE UNCHANGED vars
    BY <2>1 DEF vars, tables
  <2>2. CASE PassMoves \/ Tick
    BY <1>1, <2>2, PassTypes, TickTypes DEF PassMoves, PassOnly, tables, IdentityInv
  <2>3. CASE \E p \in Passes : \E t \in Trends : \E c \in Chains : Fire(p, t, c)
    BY <2>3 DEF Fire, tables
  <2>4. CASE \E c \in Chains : Gathering(c)
    BY <1>1, <2>4, GatheringTypes
  <2>5. ASSUME NEW c \in Chains, Applying(c) PROVE Frozen
    BY <1>1, <2>5 DEF Applying, AppendLedger, SetName, SetCategory, IdentityInv, TypeOK
  <2>. QED
    BY <1>1, <2>1, <2>2, <2>3, <2>4, <2>5, StepKinds
<1>2. IdentityInv /\ [Next]_vars => [Frozen]_vars
  BY <1>1
<1>. QED
  BY <1>2, Invariance, PTL DEF Spec, IdentityFrozen

\* A source's data is never set back to none (aggregate leaves out records without).
THEOREM CoverageCorrect == Spec => CoverageKept
<1>. DEFINE Kept == \A t \in Trends, s \in Sources :
                      metrics[t][s] = "found" => metrics'[t][s] = "found"
<1>1. ASSUME IdentityInv, [Next]_vars PROVE Kept
  <2>1. CASE UNCHANGED vars
    BY <2>1 DEF vars, tables
  <2>2. CASE PassMoves \/ Tick
    BY <1>1, <2>2, PassTypes, TickTypes DEF PassMoves, PassOnly, tables, IdentityInv
  <2>3. CASE \E p \in Passes : \E t \in Trends : \E c \in Chains : Fire(p, t, c)
    BY <2>3 DEF Fire, tables
  <2>4. ASSUME NEW c \in Chains, Gathering(c) PROVE Kept
    <3>1. CASE merge_fct_metrics(c)
      <4>1. chain[c].trend \in Trends
        BY <1>1, <3>1 DEF merge_fct_metrics, IdentityInv, WritesRecorded, At
      <4>. QED
        BY <1>1, <3>1, <4>1 DEF merge_fct_metrics, aggregate, IdentityInv, TypeOK
    <3>2. CASE ~merge_fct_metrics(c)
      BY <2>4, <3>2 DEF Gathering, generate_search_terms, fetch_external, merge_gsc_terms, Propose,
        run_name_reviewer, compute_scores, GiveUp, WorkflowFails, ProposeNothing, tables
    <3>. QED
      BY <3>1, <3>2
  <2>5. CASE \E c \in Chains : Applying(c)
    BY <1>1, <2>5, ApplyingTypes
  <2>. QED
    BY <1>1, <2>1, <2>2, <2>3, <2>4, <2>5, StepKinds
<1>2. IdentityInv /\ [Next]_vars => [Kept]_vars
  BY <1>1
<1>. QED
  BY <1>2, Invariance, PTL DEF Spec, CoverageKept

----------------------------------------------------------------------------
(* Retries. *)

\* A step after which no more passes live, and owe no more.
LEMMA NoMoreOwed ==
  ASSUME RetryInv, TypeOK,
         Live' \subseteq Live, \A t \in Trends : Owing(t)' \subseteq Owing(t),
         \A p \in Passes : pass'[p].todo \subseteq Promoted',
         \A p \in Live' : pass'[p].iteration > 0,
         UNCHANGED <<started, fired>>
  PROVE  RetryInv'
<1>1. IsFiniteSet(Live') /\ (started' = 0 => Live' = {})
  BY FS_Subset DEF RetryInv
<1>2. ASSUME NEW t \in Trends
      PROVE  fired'[t] + Cardinality(Owing(t)') <= started'
  <2>1. Owing(t) \subseteq Live
    BY DEF Owing
  <2>2. IsFiniteSet(Owing(t))
    BY <2>1, FS_Subset DEF RetryInv
  <2>3. /\ Owing(t)' \in SUBSET Owing(t)
        /\ fired[t] + Cardinality(Owing(t)) <= started
    BY DEF RetryInv
  <2>4. /\ Cardinality(Owing(t)') <= Cardinality(Owing(t)) /\ Cardinality(Owing(t)) \in Nat
        /\ Cardinality(Owing(t)') \in Nat
    BY <2>2, <2>3, FS_Subset, FS_CardinalityType
  <2>5. fired'[t] = fired[t] /\ fired[t] \in Nat /\ started' = started /\ started \in Nat
    BY DEF TypeOK
  <2>. QED
    BY <2>3, <2>4, <2>5
<1>. QED
  BY <1>1, <1>2 DEF RetryInv

\* A pass that starts owes every trend one chain at most, and is counted.
LEMMA StartOwes ==
  ASSUME RetryInv, TypeOK, NEW p \in Passes, pass[p].at = "idle",
         NEW new \in PassState, new.todo = {}, new.iteration = 1,
         pass' = [pass EXCEPT ![p] = new],
         started' = started + 1, UNCHANGED <<promoted, fired>>
  PROVE  RetryInv'
<1>1. Live' \subseteq Live \cup {p} /\ p \notin Live
  BY DEF Live, TypeOK
<1>2. IsFiniteSet(Live')
  <2>1. IsFiniteSet(Live \cup {p})
    BY FS_AddElement DEF RetryInv
  <2>. QED
    BY <1>1, <2>1, FS_Subset
<1>3. \A q \in Passes : pass'[q].todo \subseteq Promoted'
  BY DEF RetryInv, TypeOK, Promoted
<1>4. ASSUME NEW t \in Trends
      PROVE  fired'[t] + Cardinality(Owing(t)') <= started'
  <2>1. Owing(t) \subseteq Live /\ Owing(t)' \subseteq Owing(t) \cup {p}
    BY <1>1 DEF Owing, Live, TypeOK, Promoted
  <2>2. IsFiniteSet(Owing(t))
    BY <2>1, FS_Subset DEF RetryInv
  <2>3. /\ IsFiniteSet(Owing(t) \cup {p})
        /\ Cardinality(Owing(t) \cup {p}) <= Cardinality(Owing(t)) + 1
        /\ Cardinality(Owing(t)) \in Nat
    <3>1. Cardinality(Owing(t)) \in Nat
      BY <2>2, FS_CardinalityType
    <3>2. /\ IsFiniteSet(Owing(t) \cup {p})
          /\ Cardinality(Owing(t) \cup {p}) =
               IF p \in Owing(t) THEN Cardinality(Owing(t)) ELSE Cardinality(Owing(t)) + 1
      BY <2>2, FS_AddElement
    <3>. QED
      BY <3>1, <3>2
  <2>4. Cardinality(Owing(t)') <= Cardinality(Owing(t) \cup {p})
        /\ Cardinality(Owing(t)') \in Nat /\ Cardinality(Owing(t) \cup {p}) \in Nat
    BY <2>1, <2>3, FS_Subset, FS_CardinalityType
  <2>5. /\ fired'[t] = fired[t] /\ fired[t] \in Nat /\ started \in Nat
        /\ fired[t] + Cardinality(Owing(t)) <= started
    BY DEF RetryInv, TypeOK
  <2>. QED
    BY <2>3, <2>4, <2>5
<1>5. started' # 0
  BY DEF TypeOK
<1>6. \A q \in Live' : pass'[q].iteration > 0
  <2>1. \A q \in Passes : q # p => pass'[q] = pass[q]
    BY DEF TypeOK
  <2>2. pass'[p] = new
    BY DEF TypeOK
  <2>. QED
    BY <2>1, <2>2 DEF RetryInv, Live
<1>. QED
  BY <1>2, <1>3, <1>4, <1>5, <1>6 DEF RetryInv

\* A pass that fires a trend does not owe it any more.
LEMMA FireOwes ==
  ASSUME RetryInv, TypeOK, NEW p \in Passes, NEW t \in Trends, NEW c \in Chains, Fire(p, t, c)
  PROVE  RetryInv'
<1>1. /\ p \in Live /\ t \in pass[p].todo /\ pass[p].at = "fire"
      /\ pass' = [pass EXCEPT ![p].todo = @ \ {t}]
      /\ UNCHANGED <<promoted, started>>
      /\ fired' = [fired EXCEPT ![t] = @ + 1]
  BY DEF Fire, Live
<1>2. /\ \A q \in Passes : pass'[q].at = pass[q].at /\ pass'[q].iteration = pass[q].iteration
      /\ \A q \in Passes : pass'[q].todo \subseteq pass[q].todo
      /\ t \notin pass'[p].todo
  BY <1>1 DEF TypeOK, PassState
<1>3. Live' = Live /\ Promoted' = Promoted
  BY <1>1, <1>2 DEF Live, Promoted
<1>4. \A q \in Passes : pass'[q].todo \subseteq Promoted'
  BY <1>2, <1>3 DEF RetryInv
<1>5. ASSUME NEW u \in Trends
      PROVE  fired'[u] + Cardinality(Owing(u)') <= started'
  <2>1. Owing(u) \subseteq Live /\ Owing(u)' \subseteq Owing(u)
    BY <1>2, <1>3 DEF Owing, Live
  <2>2. IsFiniteSet(Owing(u))
    BY <2>1, FS_Subset DEF RetryInv
  <2>3. /\ Cardinality(Owing(u)') <= Cardinality(Owing(u))
        /\ Cardinality(Owing(u)) \in Nat /\ Cardinality(Owing(u)') \in Nat
    BY <2>1, <2>2, FS_Subset, FS_CardinalityType
  <2>4. /\ fired[u] \in Nat /\ started \in Nat /\ started' = started
        /\ fired[u] + Cardinality(Owing(u)) <= started
    BY <1>1 DEF RetryInv, TypeOK
  <2>5. CASE u # t
    <3>1. fired'[u] = fired[u]
      BY <1>1, <2>5 DEF TypeOK
    <3>. QED
      BY <2>3, <2>4, <3>1
  <2>6. CASE u = t
    <3>1. p \in Owing(t) /\ t \in Promoted
      BY <1>1 DEF Owing, RetryInv
    <3>2. Owing(t)' \subseteq Owing(t) \ {p}
      BY <1>1, <1>2, <1>3, <2>1, <2>6, <3>1 DEF Owing
    <3>3. /\ IsFiniteSet(Owing(t) \ {p})
          /\ Cardinality(Owing(t) \ {p}) = Cardinality(Owing(t)) - 1
      BY <2>2, <2>6, <3>1, FS_RemoveElement
    <3>4. Cardinality(Owing(t)') <= Cardinality(Owing(t)) - 1
      BY <3>2, <3>3, FS_Subset
    <3>5. fired'[t] = fired[t] + 1
      BY <1>1 DEF TypeOK
    <3>. QED
      BY <2>3, <2>4, <2>6, <3>4, <3>5
  <2>. QED
    BY <2>5, <2>6
<1>6. \A q \in Live' : pass'[q].iteration > 0
  BY <1>2, <1>3 DEF RetryInv, Live
<1>. QED
  BY <1>1, <1>3, <1>4, <1>5, <1>6 DEF RetryInv

\* The steps of a pass that neither start it nor fire.
LEMMA PassOwes ==
  ASSUME RetryInv, TypeOK, NEW p \in Passes,
         Apply(p) \/ Query(p) \/ Retrigger(p) \/ PassDies(p) \/ \E t \in Trends : FireFails(p, t)
  PROVE  RetryInv'
<1>1. UNCHANGED <<started, fired>>
  BY DEF Apply, Query, Retrigger, PassDies, FireFails, slot
<1>2. \A q \in Passes \ {p} : pass'[q] = pass[q]
  BY DEF Apply, Query, Retrigger, PassDies, FireFails, TypeOK
<1>3. p \in Live
  BY DEF Apply, Query, Retrigger, PassDies, FireFails, Live
<1>4. Live' \subseteq Live
  BY <1>2, <1>3 DEF Live
<1>5. Promoted \subseteq Promoted'
  <2>1. CASE UNCHANGED promoted
    BY <2>1 DEF Promoted
  <2>2. CASE \E t \in Trends : promoted' = Append(promoted, t)
    <3>1. PICK t \in Trends : promoted' = Append(promoted, t)
      BY <2>2
    <3>2. promoted \in Seq(Trends)
      BY DEF TypeOK
    <3>3. \A i \in DOMAIN promoted : i \in DOMAIN promoted' /\ promoted'[i] = promoted[i]
      BY <3>1, <3>2
    <3>. QED
      BY <3>3 DEF Promoted
  <2>. QED
    BY <2>1, <2>2 DEF Apply, Query, Retrigger, PassDies, FireFails
<1>6. ASSUME pass'[p].todo \subseteq Promoted', p \in Live' => pass'[p].iteration > 0,
             \A t \in Trends : p \in Owing(t)' => p \in Owing(t),
             \A t \in Trends : t \in Promoted' \ Promoted =>
               \A q \in Passes \ {p} : q \in Owing(t)' => q \in Owing(t)
      PROVE  RetryInv'
  <2>1. \A q \in Passes : pass'[q].todo \subseteq Promoted'
    BY <1>2, <1>5, <1>6 DEF RetryInv
  <2>2. ASSUME NEW t \in Trends, NEW q \in Owing(t)'
        PROVE  q \in Owing(t)
    BY <1>2, <1>4, <1>5, <1>6, <2>2 DEF Owing, Live
  <2>3. \A q \in Live' : pass'[q].iteration > 0
    BY <1>2, <1>4, <1>6 DEF RetryInv, Live
  <2>. QED
    BY <1>1, <1>4, <2>1, <2>2, <2>3, NoMoreOwed
<1>7. \A t \in Trends : t \notin Promoted => Owing(t) = Live
  BY DEF Owing
<1>8. \A t \in Trends : t \in Promoted' \ Promoted =>
        \A q \in Passes : q \in Owing(t)' => q \in Owing(t)
  BY <1>4, <1>7 DEF Owing
<1>9. CASE Apply(p)
  <2>1. PICK t \in {None} \cup (IF pass[p].dry THEN {} ELSE Trends \ Promoted) :
          /\ promoted' = IF t = None THEN promoted ELSE Append(promoted, t)
          /\ pass' = [pass EXCEPT ![p].at = "query", ![p].todo = extractPromotedTrendIds(t)]
    BY <1>9 DEF Apply
  <2>2. /\ pass'[p].at = "query" /\ pass'[p].todo = extractPromotedTrendIds(t)
        /\ pass'[p].iteration = pass[p].iteration
    BY <2>1 DEF TypeOK, PassState
  <2>3. t # None => t \in Trends \ Promoted /\ t \in Promoted'
    <3>. SUFFICES ASSUME t # None
                  PROVE  t \in Trends \ Promoted /\ t \in Promoted'
      OBVIOUS
    <3>1. t \in Trends \ Promoted /\ promoted' = Append(promoted, t)
      BY <2>1
    <3>2. promoted \in Seq(Trends)
      BY DEF TypeOK
    <3>3. Len(promoted) + 1 \in DOMAIN promoted' /\ promoted'[Len(promoted) + 1] = t
      BY <3>1, <3>2
    <3>. QED
      BY <3>1, <3>3 DEF Promoted
  <2>4. pass'[p].todo \subseteq Promoted'
    BY <2>2, <2>3 DEF extractPromotedTrendIds
  <2>5. \A u \in Trends : p \in Owing(u)' => p \in Owing(u)
    BY <1>3, <1>5, <1>9, <2>2, <2>3 DEF Owing, extractPromotedTrendIds, Apply
  <2>. QED
    BY <1>3, <1>6, <1>8, <2>2, <2>4, <2>5 DEF RetryInv
<1>10. CASE Query(p)
  <2>1. selectRetryTrendIds(p) \subseteq Promoted
        /\ (pass[p].iteration # 1 => selectRetryTrendIds(p) = {})
    <3>1. pass[p].iteration \in Nat /\ pass[p].iteration > 0
      BY <1>3 DEF TypeOK, PassState, RetryInv
    <3>2. pass[p].iteration # 1 => selectRetryTrendIds(p) = {}
      BY <3>1 DEF selectRetryTrendIds
    <3>. QED
      BY <3>2 DEF selectRetryTrendIds, Unenriched, Youngest
  <2>2. /\ pass'[p].at = "fire" /\ pass'[p].todo = pass[p].todo \cup selectRetryTrendIds(p)
        /\ pass'[p].iteration = pass[p].iteration
        /\ UNCHANGED promoted
    BY <1>10 DEF Query, TypeOK, PassState
  <2>3. pass'[p].todo \subseteq Promoted'
    BY <2>1, <2>2, <1>5 DEF RetryInv
  <2>4. \A u \in Trends : p \in Owing(u)' => p \in Owing(u)
    BY <1>3, <1>5, <1>10, <2>1, <2>2 DEF Owing, Query
  <2>. QED
    BY <1>3, <1>6, <1>8, <2>2, <2>3, <2>4 DEF RetryInv
<1>11. CASE Retrigger(p) \/ PassDies(p) \/ \E t \in Trends : FireFails(p, t)
  <2>1. UNCHANGED promoted /\ Promoted' = Promoted
    BY <1>11 DEF Retrigger, PassDies, FireFails, Promoted
  <2>2. \/ pass'[p] = NoPass
        \/ /\ pass'[p].todo = {} /\ pass'[p].iteration = pass[p].iteration + 1
           /\ pass[p].at = "fire"
        \/ /\ pass'[p].todo \subseteq pass[p].todo /\ pass'[p].iteration = pass[p].iteration
           /\ pass'[p].at = pass[p].at
    BY <1>11 DEF Retrigger, PassDies, FireFails, TypeOK, PassState
  <2>3. pass[p].iteration \in Nat /\ pass[p].iteration > 0
    BY <1>3 DEF TypeOK, PassState, RetryInv
  <2>4. pass'[p].todo \subseteq Promoted' /\ (p \in Live' => pass'[p].iteration > 0)
    BY <1>3, <2>1, <2>2, <2>3 DEF NoPass, RetryInv, Live
  <2>5. \A t \in Trends : p \in Owing(t)' => p \in Owing(t)
    BY <1>3, <2>1, <2>2, <2>3 DEF Owing, NoPass, Live
  <2>. QED
    BY <1>6, <1>8, <2>4, <2>5
<1>. QED
  BY <1>9, <1>10, <1>11

LEMMA RetryStep == TypeOK /\ RetryInv /\ [Next]_vars => RetryInv'
<1>. SUFFICES ASSUME TypeOK, RetryInv, [Next]_vars PROVE RetryInv'
  OBVIOUS
<1>1. CASE UNCHANGED <<promoted, pass, started, fired>>
  BY <1>1 DEF RetryInv, Owing, Live, Promoted
<1>2. CASE StartByTimer
  <2>1. pass[Timer].at = "idle" /\ Timer \in Passes
    BY <1>2, PassesAssumption DEF StartByTimer, RetryInv, Live
  <2>2. [NoPass EXCEPT !.at = "apply", !.iteration = 1] \in PassState
    BY StartedTypes
  <2>3. /\ [NoPass EXCEPT !.at = "apply", !.iteration = 1].todo = {}
        /\ [NoPass EXCEPT !.at = "apply", !.iteration = 1].iteration = 1
    BY DEF NoPass
  <2>4. started' = started + 1
    BY <1>2 DEF StartByTimer
  <2>. QED
    BY <1>2, <2>1, <2>2, <2>3, <2>4, StartOwes DEF StartByTimer
<1>3. ASSUME NEW p \in Passes, StartByHand(p) PROVE RetryInv'
  <2>1. PICK dry \in BOOLEAN :
          pass' = [pass EXCEPT ![p] = [NoPass EXCEPT !.at = "apply", !.iteration = 1, !.dry = dry]]
    BY <1>3 DEF StartByHand
  <2>2. [NoPass EXCEPT !.at = "apply", !.iteration = 1, !.dry = dry] \in PassState
    BY StartedTypes
  <2>3. /\ [NoPass EXCEPT !.at = "apply", !.iteration = 1, !.dry = dry].todo = {}
        /\ [NoPass EXCEPT !.at = "apply", !.iteration = 1, !.dry = dry].iteration = 1
    BY DEF NoPass
  <2>. QED
    BY <1>3, <2>1, <2>2, <2>3, StartOwes DEF StartByHand
<1>4. ASSUME NEW p \in Passes, NEW t \in Trends, NEW c \in Chains, Fire(p, t, c)
      PROVE  RetryInv'
  BY <1>4, FireOwes
<1>5. ASSUME NEW p \in Passes,
             Apply(p) \/ Query(p) \/ Retrigger(p) \/ PassDies(p) \/ \E t \in Trends : FireFails(p, t)
      PROVE  RetryInv'
  BY <1>5, PassOwes
<1>6. CASE Tick
  <2>1. Live' = {} /\ \A t \in Trends : Owing(t)' = {}
    BY <1>6 DEF Tick, Live, Owing
  <2>2. started' = 0 /\ \A t \in Trends : fired'[t] = 0
    BY <1>6 DEF Tick
  <2>3. \A p \in Passes : pass'[p].todo \subseteq Promoted'
    BY <1>6 DEF Tick, RetryInv, Promoted
  <2>. QED
    BY <2>1, <2>2, <2>3, FS_EmptySet DEF RetryInv
<1>7. ASSUME NEW c \in Chains, Gathering(c) \/ Applying(c)
      PROVE  UNCHANGED <<promoted, pass, started, fired>>
  BY <1>7 DEF Gathering, Applying, generate_search_terms, fetch_external, merge_fct_metrics,
     merge_gsc_terms, Propose, run_name_reviewer, compute_scores, GiveUp, WorkflowFails,
     ProposeNothing, AppendLedger, SetName, SetCategory, slot
<1>8. CASE UNCHANGED vars
  BY <1>1, <1>8 DEF vars, slot
<1>. QED
  BY <1>1, <1>2, <1>3, <1>4, <1>5, <1>6, <1>7, <1>8, StepKinds DEF PassMoves

\* In one slot a trend has no more chains than passes began, whatever is fired by
\* hand, retriggered or lost.
THEOREM RetriesCorrect == Spec => []RetriesBounded
<1>1. Init => RetryInv
  <2>. SUFFICES ASSUME Init PROVE RetryInv
    OBVIOUS
  <2>1. Live = {} /\ \A t \in Trends : Owing(t) = {}
    BY DEF Init, Live, Owing, NoPass
  <2>2. started = 0 /\ \A t \in Trends : fired[t] = 0
    BY DEF Init
  <2>3. \A p \in Passes : pass[p].todo \subseteq Promoted
    BY DEF Init, NoPass
  <2>. QED
    BY <2>1, <2>2, <2>3, FS_EmptySet DEF RetryInv
<1>2. TypeOK /\ RetryInv /\ [Next]_vars => RetryInv'
  BY RetryStep
<1>3. TypeOK /\ RetryInv => RetriesBounded
  <2>. SUFFICES ASSUME TypeOK, RetryInv, NEW t \in Trends PROVE fired[t] <= started
    BY DEF RetriesBounded
  <2>1. Owing(t) \in SUBSET Live
    BY DEF Owing
  <2>2. Cardinality(Owing(t)) \in Nat
    BY <2>1, FS_Subset, FS_CardinalityType DEF RetryInv
  <2>. QED
    BY <2>2 DEF RetryInv, TypeOK
<1>. QED
  BY <1>1, <1>2, <1>3, TypeCorrect, PTL DEF Spec
=============================================================================

------------------------- MODULE AgentRuns_proofs --------------------------
(***************************************************************************)
(* Proofs about AgentRuns: type correctness, that an answer stays with its *)
(* dispatch, that a candidate gets one decision, its own agent's, and that *)
(* an audit is silent only when all is well, and that each copy of the     *)
(* loop implements ToolLoop, for any width, concurrency, limits, signals   *)
(* and tiers.                                                              *)
(*                                                                         *)
(* The many handlers take steps of few kinds: a run goes on in its loop    *)
(* (LoopStep), a run answers (AnswerStep), the lead dispatches             *)
(* (DispatchStep), the fan-out of a lead moves (FanoutStep); promotion's   *)
(* collection and the steps after the audit's loop are of their own kinds. *)
(***************************************************************************)
EXTENDS AgentRuns, FiniteSetTheorems, TLAPS

----------------------------------------------------------------------------
(* The audit's report. *)

\* The order of the statuses.
LEMMA Ranks == STATUS_RANK["GREEN"] = 0 /\ STATUS_RANK["YELLOW"] = 1 /\ STATUS_RANK["RED"] = 2
  BY DEF STATUS_RANK

\* Folding a grade in gives a status no better than either.
LEMMA Escalates ==
  ASSUME NEW a \in Statuses, NEW b \in Statuses
  PROVE  /\ escalateStatus(a, b) \in Statuses
         /\ STATUS_RANK[escalateStatus(a, b)] >= STATUS_RANK[a]
         /\ STATUS_RANK[escalateStatus(a, b)] >= STATUS_RANK[b]
  BY Ranks DEF escalateStatus, Statuses

\* Every area has a grade.
LEMMA GradesAreStatuses ==
  ASSUME NEW r \in Readings
  PROVE  /\ gradeCatalogFreshness(r.catalog) \in Statuses
         /\ gradeTiktokFreshness(r.tiktok) \in {"GREEN", "RED"}
         /\ gradeEditorialCounts(r.stuck) \in {"GREEN", "RED"}
         /\ gradeLifecycleOverdue(r.overdue) \in {"GREEN", "YELLOW"}
  BY DEF gradeCatalogFreshness, gradeTiktokFreshness, gradeEditorialCounts,
         gradeLifecycleOverdue, Statuses

\* What each step of the report does to its status and lines.
Carries(before, after, area, grade) ==
  /\ after.overall \in Statuses
  /\ STATUS_RANK[after.overall] >= STATUS_RANK[before.overall]
  /\ STATUS_RANK[after.overall] >= STATUS_RANK[grade]
  /\ after.lines = IF grade = "GREEN" THEN before.lines ELSE before.lines \cup {area}
  /\ after = [overall |-> after.overall, lines |-> after.lines]

LEMMA FindingsCarry ==
  ASSUME NEW r \in Readings, NEW rep, rep.overall \in Statuses
  PROVE  /\ Carries(rep, applyCatalogFinding(rep, r.catalog), "catalog",
                    gradeCatalogFreshness(r.catalog))
         /\ Carries(rep, applyTiktokFinding(rep, r.tiktok), "tiktok",
                    gradeTiktokFreshness(r.tiktok))
         /\ Carries(rep, applyEditorialFinding(rep, r.stuck), "editorial",
                    gradeEditorialCounts(r.stuck))
         /\ Carries(rep, applyLifecycleOverdueFinding(rep, r.overdue), "lifecycle",
                    gradeLifecycleOverdue(r.overdue))
<1>. DEFINE c == gradeCatalogFreshness(r.catalog)
            t == gradeTiktokFreshness(r.tiktok)
            e == gradeEditorialCounts(r.stuck)
            l == gradeLifecycleOverdue(r.overdue)
<1>1. c \in Statuses /\ t \in {"GREEN", "RED"} /\ e \in {"GREEN", "RED"}
      /\ l \in {"GREEN", "YELLOW"}
  BY GradesAreStatuses
<1>. HIDE DEF c, t, e, l
<1>2. Carries(rep, [overall |-> escalateStatus(rep.overall, c), lines |-> Line(rep, "catalog", c)],
              "catalog", c)
  BY <1>1, Escalates DEF Carries, Line
<1>3. \A area \in Areas, g \in {"GREEN", "RED"} :
        Carries(rep, [overall |-> IF g = "GREEN" THEN rep.overall ELSE "RED",
                      lines |-> Line(rep, area, g)], area, g)
  BY Ranks DEF Carries, Line, Statuses
<1>4. Carries(rep, [overall |-> IF l = "GREEN" \/ rep.overall = "RED" THEN rep.overall ELSE "YELLOW",
                    lines |-> Line(rep, "lifecycle", l)], "lifecycle", l)
  BY <1>1, Ranks DEF Carries, Line, Statuses
<1>5. applyCatalogFinding(rep, r.catalog) =
        [overall |-> escalateStatus(rep.overall, c), lines |-> Line(rep, "catalog", c)]
  BY Zenon DEF applyCatalogFinding, c
<1>6. applyTiktokFinding(rep, r.tiktok) =
        [overall |-> IF t = "GREEN" THEN rep.overall ELSE "RED", lines |-> Line(rep, "tiktok", t)]
  BY Zenon DEF applyTiktokFinding, t
<1>7. applyEditorialFinding(rep, r.stuck) =
        [overall |-> IF e = "GREEN" THEN rep.overall ELSE "RED",
         lines |-> Line(rep, "editorial", e)]
  BY Zenon DEF applyEditorialFinding, e
<1>8. applyLifecycleOverdueFinding(rep, r.overdue) =
        [overall |-> IF l = "GREEN" \/ rep.overall = "RED" THEN rep.overall ELSE "YELLOW",
         lines |-> Line(rep, "lifecycle", l)]
  BY Zenon DEF applyLifecycleOverdueFinding, l
<1>9. Carries(rep, applyTiktokFinding(rep, r.tiktok), "tiktok", t)
  BY <1>1, <1>3, <1>6 DEF Areas
<1>10. Carries(rep, applyEditorialFinding(rep, r.stuck), "editorial", e)
  BY <1>1, <1>3, <1>7 DEF Areas
<1>. QED
  BY <1>2, <1>4, <1>5, <1>8, <1>9, <1>10, Zenon DEF c, t, e, l

\* The report is a report, no better than any grade, and has a line for every
\* grade that is not GREEN.
LEMMA ReportGrades ==
  ASSUME NEW r \in Readings, NEW proposed \in Statuses \cup {"none"}
  PROVE  /\ Report(proposed, r) \in Reports
         /\ \A area \in Areas :
              /\ STATUS_RANK[Report(proposed, r).overall] >= STATUS_RANK[Grade(area, r)]
              /\ Grade(area, r) \in Statuses
              /\ Grade(area, r) # "GREEN" => area \in Report(proposed, r).lines
<1>. DEFINE base == [overall |-> IF proposed = "none" THEN "YELLOW" ELSE proposed,
                     lines |-> IF proposed = "none" THEN {"audit-agent"} ELSE {"model"}]
            cat == applyCatalogFinding(base, r.catalog)
            tik == applyTiktokFinding(cat, r.tiktok)
            edi == applyEditorialFinding(tik, r.stuck)
            lif == applyLifecycleOverdueFinding(edi, r.overdue)
            c == gradeCatalogFreshness(r.catalog)
            t == gradeTiktokFreshness(r.tiktok)
            e == gradeEditorialCounts(r.stuck)
            l == gradeLifecycleOverdue(r.overdue)
<1>1. base.overall \in Statuses /\ base.lines \in SUBSET {"audit-agent", "model"}
  BY DEF Statuses
<1>. HIDE DEF base
<1>2. Carries(base, cat, "catalog", c)
  BY <1>1, FindingsCarry
<1>. HIDE DEF cat
<1>3. Carries(cat, tik, "tiktok", t)
  BY <1>2, FindingsCarry DEF Carries
<1>. HIDE DEF tik
<1>4. Carries(tik, edi, "editorial", e)
  BY <1>3, FindingsCarry DEF Carries
<1>. HIDE DEF edi
<1>5. Carries(edi, lif, "lifecycle", l)
  BY <1>4, FindingsCarry DEF Carries
<1>6. Report(proposed, r) = lif
  BY Zenon DEF Report, lif, edi, tik, cat, base
<1>7. /\ Grade("catalog", r) = c /\ Grade("tiktok", r) = t
      /\ Grade("editorial", r) = e /\ Grade("lifecycle", r) = l
  BY DEF Grade
<1>8. c \in Statuses /\ t \in Statuses /\ e \in Statuses /\ l \in Statuses
  BY GradesAreStatuses DEF Statuses
<1>. HIDE DEF lif, c, t, e, l
<1>9. \A s \in Statuses : STATUS_RANK[s] \in Nat
  BY Ranks DEF Statuses
<1>10. /\ STATUS_RANK[lif.overall] >= STATUS_RANK[c]
       /\ STATUS_RANK[lif.overall] >= STATUS_RANK[t]
       /\ STATUS_RANK[lif.overall] >= STATUS_RANK[e]
       /\ STATUS_RANK[lif.overall] >= STATUS_RANK[l]
  BY <1>1, <1>2, <1>3, <1>4, <1>5, <1>8, <1>9 DEF Carries
<1>11. /\ c # "GREEN" => "catalog" \in lif.lines
       /\ t # "GREEN" => "tiktok" \in lif.lines
       /\ e # "GREEN" => "editorial" \in lif.lines
       /\ l # "GREEN" => "lifecycle" \in lif.lines
  BY <1>2, <1>3, <1>4, <1>5 DEF Carries
<1>12. lif.lines \in SUBSET (Areas \cup {"audit-agent", "model"})
  BY <1>1, <1>2, <1>3, <1>4, <1>5 DEF Carries, Areas
<1>13. lif \in Reports
  BY <1>5, <1>12 DEF Carries, Reports
<1>. QED
  BY <1>6, <1>7, <1>8, <1>10, <1>11, <1>13 DEF Areas

\* A catalog graded GREEN has tiers, each seen within three days.
LEMMA FreshCatalog ==
  ASSUME NEW r \in Readings, gradeCatalogFreshness(r.catalog) = "GREEN"
  PROVE  DOMAIN r.catalog # {} /\ \A t \in DOMAIN r.catalog : r.catalog[t] \in 0..3
<1>. DEFINE grades == {gradeDaysSinceLastSeen(r.catalog[t]) : t \in DOMAIN r.catalog}
<1>1. grades # {} /\ "RED" \notin grades /\ "YELLOW" \notin grades
  BY DEF gradeCatalogFreshness
<1>2. PICK known \in SUBSET Tiers : r.catalog \in [known -> {Unread, 3, 7, 8}]
  BY DEF Readings
<1>3. ASSUME NEW t \in DOMAIN r.catalog
      PROVE  r.catalog[t] \in 0..3
  <2>1. gradeDaysSinceLastSeen(r.catalog[t]) \in grades
    OBVIOUS
  <2>2. r.catalog[t] \in {Unread, 3, 7, 8}
    BY <1>2
  <2>. QED
    BY <1>1, <2>1, <2>2 DEF gradeDaysSinceLastSeen, Unread
<1>. QED
  BY <1>1, <1>3

\* Nothing but health is GREEN in every area.
LEMMA GreenIsHealthy ==
  ASSUME NEW r \in Readings, \A area \in Areas : Grade(area, r) = "GREEN"
  PROVE  Healthy(r)
<1>1. /\ gradeCatalogFreshness(r.catalog) = "GREEN"
      /\ gradeTiktokFreshness(r.tiktok) = "GREEN"
      /\ gradeEditorialCounts(r.stuck) = "GREEN"
      /\ gradeLifecycleOverdue(r.overdue) = "GREEN"
  <2>1. "catalog" \in Areas /\ "tiktok" \in Areas /\ "editorial" \in Areas
        /\ "lifecycle" \in Areas
    BY DEF Areas
  <2>. QED
    BY <2>1 DEF Grade
<1>2. DOMAIN r.catalog # {} /\ \A t \in DOMAIN r.catalog : r.catalog[t] \in 0..3
  BY <1>1, FreshCatalog
<1>3. r.tiktok \in {Unread, 25, 26} /\ r.stuck \in {Unread, 0, 1} /\ r.overdue \in {Unread, 0, 1}
  BY DEF Readings
<1>. QED
  BY <1>1, <1>2, <1>3 DEF gradeTiktokFreshness, gradeEditorialCounts, gradeLifecycleOverdue,
     Healthy, Unread

----------------------------------------------------------------------------
(* The kinds of steps. *)

Unfinished == {"request", "model", "tools", "await", "ended", "error", "reported", "posting"}

Elsewhere == <<given, reply, fanoutVars, bundle, links, audit>>

\* Two of the leads have no loop of their own.
Loops(r) == r # Lead \/ scene \notin {"promote", "attribute"}

\* What such a step does to the run's own loop: a turn, a tool that has run, or a
\* way in or out that counts nothing.
InLoop(r) ==
  \/ /\ Loops(r) /\ at[r] = "model"
     /\ \/ LoopStops(r)
        \/ turn[r] # MaxTurns /\ ~(spent[r] >= Budget) /\ (ModelAnswers(r) \/ ModelFails(r))
     /\ UNCHANGED toolVars
  \/ /\ Loops(r) /\ at[r] \in {"tools", "await"}
     /\ ToolReturns(r)
     /\ \A q \in Runs : q # r => KeptOf(q)' = KeptOf(q)
  \/ /\ UNCHANGED <<loopVars, toolVars>>
     /\ at'[r] = "model" => at[r] = "request"
     /\ at'[r] # "tools"

\* A run goes on in its loop, enters or leaves it, or is killed.
LoopStep(r) ==
  /\ at[r] \in Unfinished
  /\ \E where \in {"model", "tools", "ended", "error", "dead"} :
       /\ Move(r, where)
       /\ at[r] \in {"reported", "posting"} => where = "dead"
  /\ LoopTypes' /\ ToolTypes'
  /\ \A q \in Runs : q # r => calls'[q] = calls[q]
  /\ \A i \in Subs : i # r => decision'[i] = decision[i]
  /\ InLoop(r)
  /\ UNCHANGED Elsewhere

\* A run whose loop has ended answers.
AnswerStep(r) ==
  /\ at[r] \in {"ended", "error"}
  /\ scene # "audit"
  /\ Move(r, "answered")
  /\ \E answer \in Replies :
       /\ reply' = [reply EXCEPT ![r] = answer]
       /\ scene = "promote" /\ r \in Subs /\ answer \in Decisions =>
            answer = IF decision[r] = "none" THEN "DEFER" ELSE decision[r]
  /\ links' \in [Subs -> [Signals -> 0..2]]
  /\ UNCHANGED <<given, loopVars, toolVars, fanoutVars, bundle, audit>>

\* What no fan-out has been given yet.
Undispatched(i) == sent = 0 \/ (scene = "distill" /\ i > sent)

\* The lead of a fan-out queues dispatches.
DispatchStep ==
  /\ at[Lead] \in {"request", "tools"}
  /\ at[Lead] = "tools" => scene = "distill"
  /\ scene \in {"distill", "promote", "attribute"}
  /\ \/ Move(Lead, "await")
     \/ Move(Lead, "ended")
  /\ scene = "distill" => at[Lead] = "tools"
  /\ FanoutTypes' /\ UNCHANGED slot
  /\ sent' >= sent
  /\ \A i \in queue' :
       i \in queue \/ (Undispatched(i) /\ sent' > 0 /\ (scene = "distill" => i <= sent'))
  /\ bundle' \in {bundle, Gated \cup Merged}
  /\ scene # "promote" => UNCHANGED bundle
  /\ UNCHANGED <<given, loopVars, toolVars, reply, links, audit>>

FanoutStep ==
  /\ scene \in {"distill", "promote", "attribute"} /\ at[Lead] = "await"
  /\ \E i \in Subs : Take(i) \/ Settle(i) \/ Abort(i)
  /\ UNCHANGED <<given, loopVars, toolVars, reply, bundle, links, audit>>

----------------------------------------------------------------------------
(* The steps of a loop. *)

\* A run with a tool call left has one less after it.
LEMMA ToolReturnsTypes ==
  ASSUME TypeOK, NEW r \in Runs, at[r] \in Unfinished, calls[r] > 0, ToolReturns(r)
  PROVE  /\ LoopTypes'
         /\ \E where \in {"model", "tools", "ended", "error", "dead"} : Move(r, where)
         /\ \A q \in Runs : q # r => calls'[q] = calls[q]
<1>. USE DEF TypeOK, LoopTypes, ToolReturns, Move, Stages, Unfinished
<1>1. calls' = [calls EXCEPT ![r] = calls[r] - 1] /\ calls[r] \in Nat /\ calls[r] - 1 \in Nat
  OBVIOUS
<1>2. at' = [at EXCEPT ![r] = IF calls[r] = 1 THEN "model" ELSE "tools"]
  OBVIOUS
<1>3. MaxCalls[r] \in Nat
  BY LimitsAssumption DEF Runs
<1>4. \A q \in Runs : calls'[q] <= MaxCalls[q] /\ (at'[q] = "tools" => calls'[q] > 0)
  <2>. TAKE q \in Runs
  <2>1. CASE q = r
    BY <1>1, <1>2, <1>3, <2>1
  <2>2. CASE q # r
    BY <1>1, <1>2, <2>2
  <2>. QED
    BY <2>1, <2>2
<1>5. at' \in [Runs -> Stages] /\ calls' \in [Runs -> Nat]
  BY <1>1, <1>2
<1>. QED
  BY <1>1, <1>2, <1>4, <1>5

\* A turn of a run below both limits.
LEMMA TurnTypes ==
  ASSUME TypeOK, NEW r \in Runs, at[r] = "model",
         \/ LoopStops(r)
         \/ turn[r] # MaxTurns /\ ~(spent[r] >= Budget) /\ (ModelAnswers(r) \/ ModelFails(r))
  PROVE  /\ LoopTypes'
         /\ \E where \in {"model", "tools", "ended", "error", "dead"} : Move(r, where)
         /\ \A q \in Runs : q # r => calls'[q] = calls[q]
<1>. USE DEF TypeOK, LoopTypes, Move, Stages
<1>1. /\ turn[r] \in 0..MaxTurns /\ spent[r] \in 0..(Budget - 1 + MaxCost)
      /\ MaxTurns \in Nat /\ Budget \in Nat \ {0} /\ MaxCost \in Nat /\ MaxCalls[r] \in Nat
  BY LimitsAssumption DEF Runs
<1>2. CASE LoopStops(r)
  BY <1>1, <1>2 DEF LoopStops
<1>3. CASE turn[r] # MaxTurns /\ ~(spent[r] >= Budget) /\ ModelAnswers(r)
  <2>1. PICK cost \in 0..MaxCost, n \in 0..MaxCalls[r] :
          /\ turn' = [turn EXCEPT ![r] = turn[r] + 1]
          /\ spent' = [spent EXCEPT ![r] = spent[r] + cost]
          /\ calls' = [calls EXCEPT ![r] = n]
          /\ at' = [at EXCEPT ![r] = IF n = 0 THEN "ended" ELSE "tools"]
    BY <1>3, Zenon DEF ModelAnswers
  <2>2. turn[r] + 1 \in 0..MaxTurns /\ spent[r] + cost \in 0..(Budget - 1 + MaxCost)
    BY <1>1, <1>3
  <2>3. turn' \in [Runs -> 0..MaxTurns] /\ spent' \in [Runs -> 0..(Budget - 1 + MaxCost)]
    BY <2>1, <2>2
  <2>4. at' \in [Runs -> Stages] /\ calls' \in [Runs -> Nat]
    BY <2>1
  <2>5. \A q \in Runs : calls'[q] <= MaxCalls[q] /\ (at'[q] = "tools" => calls'[q] > 0)
    BY <1>1, <2>1
  <2>. QED
    BY <2>1, <2>3, <2>4, <2>5
<1>4. CASE turn[r] # MaxTurns /\ ModelFails(r)
  <2>1. turn[r] + 1 \in 0..MaxTurns
    BY <1>1, <1>4
  <2>. QED
    BY <1>4, <2>1 DEF ModelFails
<1>. QED
  BY <1>2, <1>3, <1>4

\* A run that enters, leaves or loses its loop with its counts as they are.
LEMMA MoveTypes ==
  ASSUME TypeOK, NEW r \in Runs, NEW where \in {"model", "ended", "error", "dead"},
         Move(r, where), UNCHANGED loopVars
  PROVE  LoopTypes'
  BY DEF TypeOK, LoopTypes, Move, Stages, loopVars

----------------------------------------------------------------------------
(* Each kind of step keeps the invariant. *)

LEMMA LoopStepKeeps ==
  ASSUME AgentsInv, NEW r \in Runs, LoopStep(r)
  PROVE  AgentsInv'
<1>1. PICK where \in {"model", "tools", "ended", "error", "dead"} :
        /\ at' = [at EXCEPT ![r] = where]
        /\ at[r] \in {"reported", "posting"} => where = "dead"
  BY DEF LoopStep, Move
<1>2. at \in [Runs -> Stages] /\ Lead \in Runs /\ Subs \subseteq Runs
  BY WidthAssumption DEF AgentsInv, TypeOK, LoopTypes, Runs, Subs, Lead
<1>3. at[r] \in Unfinished /\ at[r] \notin {"idle", "answered", "dead"}
  BY DEF LoopStep, Unfinished
<1>4. /\ LoopTypes' /\ ToolTypes'
      /\ \A q \in Runs : q # r => calls'[q] = calls[q]
      /\ \A i \in Subs : i # r => decision'[i] = decision[i]
      /\ UNCHANGED <<scene, gated, leader, readings, reply, sent, queue, slot, bundle, links,
                     report, ledgered, posted>>
  BY Zenon DEF LoopStep, Elsewhere, given, fanoutVars, audit
<1>5. \A q \in Runs : at'[q] = IF q = r THEN where ELSE at[q]
  BY <1>1, <1>2
<1>6. TypeOK'
  <2>1. GivenTypes' /\ FanoutTypes'
    BY <1>4, Zenon DEF AgentsInv, TypeOK, GivenTypes, FanoutTypes
  <2>2. ResultTypes'
    BY <1>2, <1>4, <1>5 DEF AgentsInv, TypeOK, ResultTypes
  <2>. QED
    BY <1>4, <2>1, <2>2 DEF TypeOK
<1>7. AnswersInPlace'
  BY <1>2, <1>3, <1>4, <1>5 DEF AgentsInv, AnswersInPlace
<1>8. LeadKnows'
  <2>1. Clustered' /\ (Gated \cup Merged)' = Gated \cup Merged
    BY <1>4 DEF AgentsInv, LeadKnows, Clustered, Gated, Merged, Followers
  <2>. QED
    BY <1>2, <1>4, <1>5, <2>1 DEF AgentsInv, LeadKnows
<1>9. VerifiersKnow'
  BY <1>2, <1>3, <1>4, <1>5 DEF AgentsInv, VerifiersKnow
<1>10. OneDecisionPerCandidate'
  <2>1. Dispatched' = Dispatched
    BY <1>4 DEF Dispatched, Followers
  <2>2. \A x \in bundle : x.candidate \in Subs
    BY DEF AgentsInv, TypeOK, ResultTypes
  <2>. QED
    BY <1>2, <1>3, <1>4, <1>5, <2>1, <2>2 DEF AgentsInv, OneDecisionPerCandidate
<1>11. AuditKnows'
  BY <1>1, <1>2, <1>3, <1>4, <1>5 DEF AgentsInv, AuditKnows
<1>. QED
  BY <1>6, <1>7, <1>8, <1>9, <1>10, <1>11 DEF AgentsInv

LEMMA AnswerStepKeeps ==
  ASSUME AgentsInv, NEW r \in Runs, AnswerStep(r)
  PROVE  AgentsInv'
<1>1. PICK answer \in Replies :
        /\ reply' = [reply EXCEPT ![r] = answer]
        /\ scene = "promote" /\ r \in Subs /\ answer \in Decisions =>
             answer = IF decision[r] = "none" THEN "DEFER" ELSE decision[r]
  BY Zenon DEF AnswerStep
<1>2. /\ at \in [Runs -> Stages] /\ reply \in [Runs -> Replies \cup {"none"}]
      /\ Lead \in Runs /\ Subs \subseteq Runs
  BY WidthAssumption DEF AgentsInv, TypeOK, LoopTypes, ResultTypes, Runs, Subs, Lead
<1>3. at[r] \in {"ended", "error"} /\ scene # "audit" /\ at' = [at EXCEPT ![r] = "answered"]
  BY DEF AnswerStep, Move
<1>4. /\ links' \in [Subs -> [Signals -> 0..2]]
      /\ UNCHANGED <<scene, gated, leader, readings, turn, spent, calls, kept, checks, decision,
                     picks, proposal, sent, queue, slot, bundle, report, ledgered, posted>>
  BY Zenon DEF AnswerStep, given, loopVars, toolVars, fanoutVars, audit
<1>5. \A q \in Runs : /\ at'[q] = IF q = r THEN "answered" ELSE at[q]
                      /\ reply'[q] = IF q = r THEN answer ELSE reply[q]
  BY <1>1, <1>2, <1>3
<1>6. TypeOK'
  <2>1. GivenTypes' /\ FanoutTypes' /\ ToolTypes'
    BY <1>4, Zenon DEF AgentsInv, TypeOK, GivenTypes, FanoutTypes, ToolTypes
  <2>2. ResultTypes'
    BY <1>1, <1>2, <1>4, <1>5 DEF AgentsInv, TypeOK, ResultTypes
  <2>3. LoopTypes'
    BY <1>2, <1>3, <1>4, <1>5 DEF AgentsInv, TypeOK, LoopTypes, Stages
  <2>. QED
    BY <2>1, <2>2, <2>3 DEF TypeOK
<1>7. AnswersInPlace'
  BY <1>2, <1>3, <1>4, <1>5 DEF AgentsInv, AnswersInPlace
<1>8. LeadKnows'
  <2>1. Clustered' /\ (Gated \cup Merged)' = Gated \cup Merged
    BY <1>4 DEF AgentsInv, LeadKnows, Clustered, Gated, Merged, Followers
  <2>. QED
    BY <1>2, <1>4, <1>5, <2>1 DEF AgentsInv, LeadKnows
<1>9. VerifiersKnow'
  BY <1>1, <1>2, <1>3, <1>4, <1>5 DEF AgentsInv, VerifiersKnow
<1>10. OneDecisionPerCandidate'
  <2>1. Dispatched' = Dispatched
    BY <1>4 DEF Dispatched, Followers
  <2>2. \A x \in bundle : x.candidate \in Subs
    BY DEF AgentsInv, TypeOK, ResultTypes
  <2>. QED
    BY <1>2, <1>3, <1>4, <1>5, <2>1, <2>2 DEF AgentsInv, OneDecisionPerCandidate
<1>11. AuditKnows'
  BY <1>3, <1>4 DEF AgentsInv, AuditKnows
<1>. QED
  BY <1>6, <1>7, <1>8, <1>9, <1>10, <1>11 DEF AgentsInv

\* What the gate and the clusters decide is one decision per candidate, none of
\* them dispatched.
LEMMA DecidedByTheLead ==
  ASSUME Clustered, gated \in SUBSET Subs, leader \in [Subs -> Subs]
  PROVE  /\ \A x, y \in Gated \cup Merged : x.candidate = y.candidate => x = y
         /\ \A x \in Gated \cup Merged : x.candidate \notin Dispatched
         /\ Gated \cup Merged \subseteq
              [candidate : Subs, decision : Decisions \cup {"MERGE_INTO_CANDIDATE"}]
<1>1. \A i \in gated : i \notin Followers
  BY DEF Clustered, Followers
<1>2. Followers \subseteq Subs
  BY DEF Followers
<1>. QED
  BY <1>1, <1>2 DEF Gated, Merged, Dispatched, Decisions

LEMMA DispatchStepKeeps ==
  ASSUME AgentsInv, DispatchStep
  PROVE  AgentsInv'
<1>1. PICK where \in {"await", "ended"} : at' = [at EXCEPT ![Lead] = where]
  BY DEF DispatchStep, Move
<1>2. at \in [Runs -> Stages] /\ Lead \in Runs /\ Subs \subseteq Runs /\ Lead \notin Subs
  BY WidthAssumption DEF AgentsInv, TypeOK, LoopTypes, Runs, Subs, Lead
<1>3. /\ at[Lead] \in {"request", "tools"}
      /\ at[Lead] = "tools" => scene = "distill"
      /\ scene = "distill" => at[Lead] = "tools"
      /\ scene \in {"distill", "promote", "attribute"}
      /\ bundle' \in {bundle, Gated \cup Merged}
      /\ scene # "promote" => bundle' = bundle
      /\ FanoutTypes'
  BY Zenon DEF DispatchStep
<1>4. UNCHANGED <<scene, gated, leader, readings, turn, spent, calls, kept, checks, decision,
                  picks, proposal, reply, slot, links, report, ledgered, posted>>
  BY Zenon DEF DispatchStep, given, loopVars, toolVars, audit
<1>5. \A q \in Runs : at'[q] = IF q = Lead THEN where ELSE at[q]
  BY <1>1, <1>2
<1>6. Clustered /\ gated \in SUBSET Subs /\ leader \in [Subs -> Subs]
  BY DEF AgentsInv, LeadKnows, TypeOK, GivenTypes
<1>7. (Gated \cup Merged)' = Gated \cup Merged /\ Dispatched' = Dispatched /\ Clustered'
  BY <1>4, <1>6 DEF Gated, Merged, Followers, Dispatched, Clustered
<1>8. scene = "promote" => bundle = {}
  BY <1>3 DEF AgentsInv, LeadKnows
<1>9. TypeOK'
  <2>1. GivenTypes' /\ ToolTypes'
    BY <1>4, Zenon DEF AgentsInv, TypeOK, GivenTypes, ToolTypes
  <2>2. bundle' \in SUBSET [candidate : Subs, decision : Decisions \cup {"MERGE_INTO_CANDIDATE"}]
    BY <1>3, <1>6, DecidedByTheLead DEF AgentsInv, TypeOK, ResultTypes
  <2>3. ResultTypes'
    BY <1>2, <1>4, <1>5, <2>2 DEF AgentsInv, TypeOK, ResultTypes
  <2>4. LoopTypes'
    BY <1>1, <1>2, <1>4, <1>5 DEF AgentsInv, TypeOK, LoopTypes, Stages
  <2>. QED
    BY <1>3, <2>1, <2>3, <2>4 DEF TypeOK
<1>10. AnswersInPlace'
  BY <1>2, <1>4, <1>5 DEF AgentsInv, AnswersInPlace
<1>11. LeadKnows'
  <2>1. scene' = "distill" /\ at'[Lead] = "await" => calls'[Lead] > 0
    BY <1>2, <1>3, <1>4 DEF AgentsInv, TypeOK, LoopTypes
  <2>. QED
    BY <1>2, <1>3, <1>4, <1>5, <1>7, <1>8, <2>1 DEF AgentsInv, LeadKnows
<1>12. VerifiersKnow'
  BY <1>2, <1>4, <1>5 DEF AgentsInv, VerifiersKnow
<1>13. OneDecisionPerCandidate'
  <2>1. bundle' = bundle \/ bundle' = Gated \cup Merged
    BY <1>3
  <2>2. CASE bundle' = Gated \cup Merged
    BY <1>6, <1>7, <2>2, DecidedByTheLead DEF OneDecisionPerCandidate
  <2>3. CASE bundle' = bundle
    <3>1. \A x \in bundle : x.candidate \in Subs
      BY DEF AgentsInv, TypeOK, ResultTypes
    <3>. QED
      BY <1>2, <1>4, <1>5, <1>7, <2>3, <3>1 DEF AgentsInv, OneDecisionPerCandidate
  <2>. QED
    BY <2>1, <2>2, <2>3
<1>14. AuditKnows'
  BY <1>3, <1>4 DEF AgentsInv, AuditKnows
<1>. QED
  BY <1>9, <1>10, <1>11, <1>12, <1>13, <1>14 DEF AgentsInv

LEMMA FanoutStepKeeps ==
  ASSUME AgentsInv, FanoutStep
  PROVE  AgentsInv'
<1>1. PICK i \in Subs : Take(i) \/ Settle(i) \/ Abort(i)
  BY Zenon DEF FanoutStep
<1>2. /\ at \in [Runs -> Stages] /\ reply \in [Runs -> Replies \cup {"none"}]
      /\ slot \in [Subs -> Replies \cup {"none", "open", "error"}]
      /\ Lead \in Runs /\ Subs \subseteq Runs /\ Lead \notin Subs
  BY WidthAssumption DEF AgentsInv, TypeOK, LoopTypes, ResultTypes, FanoutTypes, Runs, Subs, Lead
<1>3. scene \in {"distill", "promote", "attribute"} /\ at[Lead] = "await"
  BY DEF FanoutStep
<1>4. UNCHANGED <<scene, gated, leader, readings, turn, spent, calls, kept, checks, decision,
                  picks, proposal, reply, bundle, links, report, ledgered, posted>>
  BY Zenon DEF FanoutStep, given, loopVars, toolVars, audit
<1>5. at' = at \/ (at' = [at EXCEPT ![i] = "request"] /\ slot'[i] = "open")
  <2>1. CASE Take(i)
    <3>1. at' \in {at, [at EXCEPT ![i] = "request"]} /\ slot' = [slot EXCEPT ![i] = "open"]
      BY <2>1, Zenon DEF Take
    <3>. QED
      BY <1>2, <3>1
  <2>2. CASE Settle(i) \/ Abort(i)
    <3>1. at' = at
      BY <2>2, Zenon DEF Settle, Abort
    <3>. QED
      BY <3>1
  <2>. QED
    BY <1>1, <2>1, <2>2
<1>6. sent' = sent /\ queue' \in SUBSET Subs
  BY <1>1 DEF Take, Settle, Abort, AgentsInv, TypeOK, FanoutTypes
<1>7. /\ slot' \in [Subs -> Replies \cup {"none", "open", "error"}]
      /\ \A k \in Subs : slot'[k] \in Replies =>
           \/ slot'[k] = slot[k] /\ k # i
           \/ k = i /\ at[i] = "answered" /\ at' = at /\ slot'[k] = reply[k]
           \/ k = i /\ at' = at /\ slot'[k] = slot[k]
  <2>1. "open" \notin Replies /\ "error" \notin Replies /\ "none" \notin Replies
    BY DEF Replies, Decisions, Verdicts
  <2>2. CASE Take(i)
    BY <1>2, <2>1, <2>2 DEF Take
  <2>3. CASE Settle(i)
    <3>1. reply[i] \in Replies \cup {"none"} /\ at[i] = "answered" /\ at' = at
          /\ slot' = [slot EXCEPT ![i] = reply[i]]
      BY <1>2, <2>3 DEF Settle
    <3>. QED
      BY <1>2, <3>1, <2>1
  <2>4. CASE Abort(i)
    BY <1>2, <2>1, <2>4 DEF Abort
  <2>. QED
    BY <1>1, <2>2, <2>3, <2>4
<1>8. \A k \in Runs : at'[k] = at[k] \/ (k = i /\ at'[k] = "request")
  BY <1>2, <1>5
<1>9. TypeOK'
  <2>1. GivenTypes' /\ ToolTypes'
    BY <1>4, Zenon DEF AgentsInv, TypeOK, GivenTypes, ToolTypes
  <2>2. FanoutTypes'
    BY <1>6, <1>7 DEF AgentsInv, TypeOK, FanoutTypes
  <2>3. ResultTypes'
    BY <1>2, <1>3, <1>4, <1>8 DEF AgentsInv, TypeOK, ResultTypes
  <2>4. at' \in [Runs -> Stages]
    BY <1>2, <1>5 DEF Stages
  <2>5. LoopTypes'
    BY <1>4, <1>8, <2>4 DEF AgentsInv, TypeOK, LoopTypes
  <2>. QED
    BY <2>1, <2>2, <2>3, <2>5 DEF TypeOK
<1>10. AnswersInPlace'
  <2>. SUFFICES ASSUME NEW k \in Subs, slot'[k] \in Replies
                PROVE  at'[k] = "answered" /\ slot'[k] = reply'[k]
    BY DEF AnswersInPlace
  <2>1. slot[k] \in Replies => at[k] = "answered" /\ slot[k] = reply[k]
    BY DEF AgentsInv, AnswersInPlace
  <2>2. CASE slot'[k] = slot[k] /\ k # i
    BY <1>2, <1>4, <1>8, <2>1, <2>2
  <2>3. CASE k = i
    BY <1>4, <1>7, <2>1, <2>3
  <2>. QED
    BY <1>7, <2>2, <2>3
<1>11. LeadKnows'
  <2>1. Clustered' /\ (Gated \cup Merged)' = Gated \cup Merged
    BY <1>4 DEF AgentsInv, LeadKnows, Clustered, Gated, Merged, Followers
  <2>2. at'[Lead] = at[Lead]
    BY <1>2, <1>8
  <2>. QED
    BY <1>3, <1>4, <2>1, <2>2 DEF AgentsInv, LeadKnows
<1>12. VerifiersKnow'
  BY <1>2, <1>4, <1>8 DEF AgentsInv, VerifiersKnow
<1>13. OneDecisionPerCandidate'
  <2>1. Dispatched' = Dispatched
    BY <1>4 DEF Dispatched, Followers
  <2>2. \A x \in bundle : x.candidate \in Subs /\ x.candidate \notin Dispatched
    <3>1. scene # "promote" => bundle = {}
      BY DEF AgentsInv, LeadKnows
    <3>2. scene = "promote" => bundle \subseteq Gated \cup Merged
      BY <1>3 DEF AgentsInv, LeadKnows
    <3>3. Clustered /\ gated \in SUBSET Subs /\ leader \in [Subs -> Subs]
      BY DEF AgentsInv, LeadKnows, TypeOK, GivenTypes
    <3>. QED
      BY <3>1, <3>2, <3>3, DecidedByTheLead
  <2>. QED
    BY <1>4, <2>1, <2>2 DEF AgentsInv, OneDecisionPerCandidate
<1>14. AuditKnows'
  BY <1>3, <1>4 DEF AuditKnows
<1>. QED
  BY <1>9, <1>10, <1>11, <1>12, <1>13, <1>14 DEF AgentsInv

\* Promotion's lead takes over the decisions in the slots.
LEMMA PromotionCollectKeeps ==
  ASSUME AgentsInv, PromotionCollect
  PROVE  AgentsInv'
<1>. DEFINE heard == {j \in Dispatched : slot[j] \in Decisions}
            added == {[candidate |-> i, decision |-> slot[i]] : i \in heard}
<1>1. /\ scene = "promote" /\ at[Lead] = "await" /\ at' = [at EXCEPT ![Lead] = "ended"]
      /\ bundle' = bundle \cup added
  BY DEF PromotionCollect, Move
<1>2. at \in [Runs -> Stages] /\ Lead \in Runs /\ Subs \subseteq Runs /\ Lead \notin Subs
  BY WidthAssumption DEF AgentsInv, TypeOK, LoopTypes, Runs, Subs, Lead
<1>3. UNCHANGED <<scene, gated, leader, readings, turn, spent, calls, kept, checks, decision,
                  picks, proposal, reply, sent, queue, slot, links, report, ledgered, posted>>
  BY Zenon DEF PromotionCollect, given, loopVars, toolVars, fanoutVars, audit
<1>4. \A q \in Runs : at'[q] = IF q = Lead THEN "ended" ELSE at[q]
  BY <1>1, <1>2
<1>5. Clustered /\ gated \in SUBSET Subs /\ leader \in [Subs -> Subs]
  BY DEF AgentsInv, LeadKnows, TypeOK, GivenTypes
<1>6. bundle \subseteq Gated \cup Merged
  BY <1>1 DEF AgentsInv, LeadKnows
<1>7. Dispatched \subseteq Subs /\ Dispatched' = Dispatched /\ Clustered'
  BY <1>3, <1>5 DEF Dispatched, Followers, Clustered
<1>8. ASSUME NEW i \in heard
      PROVE  /\ i \in Dispatched /\ at[i] = "answered"
             /\ slot[i] = IF decision[i] = "none" THEN "DEFER" ELSE decision[i]
  <2>1. i \in Subs /\ slot[i] \in Decisions /\ slot[i] \in Replies
    BY <1>7 DEF Replies
  <2>2. at[i] = "answered" /\ slot[i] = reply[i]
    BY <2>1 DEF AgentsInv, AnswersInPlace
  <2>. QED
    BY <1>1, <2>1, <2>2 DEF AgentsInv, VerifiersKnow
<1>9. added \subseteq [candidate : Subs, decision : Decisions \cup {"MERGE_INTO_CANDIDATE"}]
  BY <1>7
<1>10. TypeOK'
  <2>1. GivenTypes' /\ ToolTypes' /\ FanoutTypes'
    BY <1>3, Zenon DEF AgentsInv, TypeOK, GivenTypes, ToolTypes, FanoutTypes
  <2>2. ResultTypes'
    BY <1>1, <1>2, <1>3, <1>4, <1>9 DEF AgentsInv, TypeOK, ResultTypes
  <2>3. LoopTypes'
    BY <1>1, <1>2, <1>3, <1>4 DEF AgentsInv, TypeOK, LoopTypes, Stages
  <2>. QED
    BY <2>1, <2>2, <2>3 DEF TypeOK
<1>11. AnswersInPlace'
  BY <1>2, <1>3, <1>4 DEF AgentsInv, AnswersInPlace
<1>12. LeadKnows'
  BY <1>1, <1>2, <1>3, <1>4, <1>7 DEF LeadKnows
<1>13. VerifiersKnow'
  BY <1>2, <1>3, <1>4 DEF AgentsInv, VerifiersKnow
<1>14. OneDecisionPerCandidate'
  <2>1. \A x \in added : x.candidate \in heard /\ x = [candidate |-> x.candidate,
                                                       decision |-> slot[x.candidate]]
    OBVIOUS
  <2>2. \A x, y \in bundle' : x.candidate = y.candidate => x = y
    <3>1. \A x \in bundle : x.candidate \notin Dispatched
      BY <1>5, <1>6, DecidedByTheLead
    <3>2. \A x, y \in bundle : x.candidate = y.candidate => x = y
      BY <1>5, <1>6, DecidedByTheLead
    <3>3. \A x, y \in added : x.candidate = y.candidate => x = y
      BY <2>1
    <3>4. \A x \in added : x.candidate \in Dispatched
      BY <2>1
    <3>. HIDE DEF added
    <3>. QED
      BY <1>1, <3>1, <3>2, <3>3, <3>4
  <2>3. ASSUME NEW x \in bundle', x.candidate \in Dispatched'
        PROVE  /\ at'[x.candidate] = "answered"
               /\ x.decision = IF decision'[x.candidate] = "none" THEN "DEFER"
                               ELSE decision'[x.candidate]
    <3>1. x \in added
      BY <1>1, <1>5, <1>6, <1>7, <2>3, DecidedByTheLead
    <3>2. x.candidate \in heard /\ x.decision = slot[x.candidate]
      BY <2>1, <3>1
    <3>3. x.candidate \in Subs
      BY <1>7, <3>2
    <3>. HIDE DEF heard, added
    <3>. QED
      BY <1>2, <1>3, <1>4, <1>8, <3>2, <3>3
  <2>. QED
    BY <2>2, <2>3, Zenon DEF OneDecisionPerCandidate
<1>15. AuditKnows'
  BY <1>1, <1>3 DEF AuditKnows
<1>. QED
  BY <1>10, <1>11, <1>12, <1>13, <1>14, <1>15 DEF AgentsInv

\* What the steps after the audit's loop leave alone.
LEMMA AuditStepFrame ==
  ASSUME AgentsInv, scene = "audit",
         NEW where \in {"reported", "posting", "answered"}, Move(Lead, where),
         UNCHANGED <<given, loopVars, toolVars, fanoutVars, bundle, links>>,
         reply' \in {reply, [reply EXCEPT ![Lead] = "done"]}
  PROVE  /\ at \in [Runs -> Stages] /\ at'[Lead] = where
         /\ GivenTypes' /\ LoopTypes' /\ ToolTypes' /\ FanoutTypes'
         /\ reply' \in [Runs -> Replies \cup {"none"}]
         /\ AnswersInPlace' /\ LeadKnows' /\ VerifiersKnow' /\ OneDecisionPerCandidate'
<1>1. /\ at \in [Runs -> Stages] /\ reply \in [Runs -> Replies \cup {"none"}]
      /\ Lead \in Runs /\ Subs \subseteq Runs /\ Lead \notin Subs
  BY WidthAssumption DEF AgentsInv, TypeOK, LoopTypes, ResultTypes, Runs, Subs, Lead
<1>2. UNCHANGED <<scene, gated, leader, readings, turn, spent, calls, kept, checks, decision,
                  picks, proposal, sent, queue, slot, bundle, links>>
  BY Zenon DEF given, loopVars, toolVars, fanoutVars
<1>3. \A q \in Runs : at'[q] = IF q = Lead THEN where ELSE at[q]
  BY <1>1 DEF Move
<1>4. reply' \in [Runs -> Replies \cup {"none"}] /\ \A i \in Subs : reply'[i] = reply[i]
  BY <1>1 DEF Replies
<1>5. GivenTypes' /\ ToolTypes' /\ FanoutTypes'
  BY <1>2, Zenon DEF AgentsInv, TypeOK, GivenTypes, ToolTypes, FanoutTypes
<1>6. LoopTypes'
  BY <1>1, <1>2, <1>3 DEF AgentsInv, TypeOK, LoopTypes, Move, Stages
<1>7. AnswersInPlace' /\ VerifiersKnow'
  BY <1>1, <1>2, <1>3, <1>4 DEF AgentsInv, AnswersInPlace, VerifiersKnow
<1>8. bundle = {}
  BY DEF AgentsInv, LeadKnows
<1>9. LeadKnows' /\ OneDecisionPerCandidate'
  <2>1. Clustered'
    BY <1>2 DEF AgentsInv, LeadKnows, Clustered
  <2>. QED
    BY <1>1, <1>2, <1>3, <1>8, <2>1 DEF LeadKnows, OneDecisionPerCandidate
<1>. QED
  BY <1>1, <1>3, <1>4, <1>5, <1>6, <1>7, <1>9

LEMMA AuditStepKeeps ==
  ASSUME AgentsInv, AuditReported \/ AuditCommit \/ AuditPost
  PROVE  AgentsInv'
<1>1. /\ bundle \in SUBSET [candidate : Subs, decision : Decisions \cup {"MERGE_INTO_CANDIDATE"}]
      /\ links \in [Subs -> [Signals -> 0..2]]
      /\ report \in Reports \cup {NoReport} /\ ledgered \in Reports \cup {NoReport}
      /\ posted \in Reports \cup {NoReport}
      /\ at[Lead] \in {"reported", "posting"} => report \in Reports
      /\ readings \in Readings /\ proposal \in Statuses \cup {"none"}
  BY DEF AgentsInv, TypeOK, ResultTypes, GivenTypes, ToolTypes
<1>2. CASE AuditReported
  <2>1. /\ scene = "audit" /\ at[Lead] \in {"ended", "error"} /\ Move(Lead, "reported")
        /\ UNCHANGED <<given, loopVars, toolVars, reply, fanoutVars, bundle, links>>
        /\ ledgered' = ledgered /\ posted' = posted
        /\ report' = Report(IF at[Lead] = "error" THEN "none" ELSE proposal, readings)
    BY <1>2, Zenon DEF AuditReported
  <2>2. UNCHANGED <<scene, readings, bundle, links>>
    BY <2>1 DEF given
  <2>3. PICK proposed \in Statuses \cup {"none"} : report' = Report(proposed, readings)
    BY <1>1, <2>1
  <2>4. report' \in Reports
    BY <1>1, <2>3, ReportGrades
  <2>5. ledgered = NoReport /\ posted = NoReport
    BY <2>1 DEF AgentsInv, AuditKnows
  <2>6. /\ at'[Lead] = "reported"
        /\ GivenTypes' /\ LoopTypes' /\ ToolTypes' /\ FanoutTypes'
        /\ reply' \in [Runs -> Replies \cup {"none"}]
        /\ AnswersInPlace' /\ LeadKnows' /\ VerifiersKnow' /\ OneDecisionPerCandidate'
    BY <2>1, AuditStepFrame
  <2>7. ResultTypes'
    BY <1>1, <2>1, <2>2, <2>4, <2>6 DEF ResultTypes
  <2>8. AuditKnows'
    BY <2>1, <2>2, <2>3, <2>5, <2>6 DEF AuditKnows
  <2>. QED
    BY <2>6, <2>7, <2>8 DEF AgentsInv, TypeOK
<1>3. CASE AuditCommit
  <2>1. /\ scene = "audit" /\ at[Lead] = "reported" /\ Move(Lead, "posting")
        /\ UNCHANGED <<given, loopVars, toolVars, reply, fanoutVars, bundle, links>>
        /\ report' = report /\ posted' = posted /\ ledgered' \in {report, ledgered}
    BY <1>3, Zenon DEF AuditCommit
  <2>2. UNCHANGED <<scene, readings, bundle, links>>
    BY <2>1 DEF given
  <2>3. /\ at'[Lead] = "posting"
        /\ GivenTypes' /\ LoopTypes' /\ ToolTypes' /\ FanoutTypes'
        /\ reply' \in [Runs -> Replies \cup {"none"}]
        /\ AnswersInPlace' /\ LeadKnows' /\ VerifiersKnow' /\ OneDecisionPerCandidate'
    BY <2>1, AuditStepFrame
  <2>4. ResultTypes'
    BY <1>1, <2>1, <2>2, <2>3 DEF ResultTypes
  <2>5. AuditKnows'
    <3>1. \E proposed \in Statuses \cup {"none"} : report = Report(proposed, readings)
      BY <2>1 DEF AgentsInv, AuditKnows
    <3>2. ledgered = NoReport /\ posted = NoReport
      BY <2>1 DEF AgentsInv, AuditKnows
    <3>. QED
      BY <2>1, <2>2, <2>3, <3>1, <3>2 DEF AuditKnows
  <2>. QED
    BY <2>3, <2>4, <2>5 DEF AgentsInv, TypeOK
<1>4. CASE AuditPost
  <2>1. /\ scene = "audit" /\ at[Lead] = "posting" /\ Move(Lead, "answered")
        /\ UNCHANGED <<given, loopVars, toolVars, fanoutVars, bundle, links>>
        /\ report' = report /\ ledgered' = ledgered
        /\ reply' = [reply EXCEPT ![Lead] = "done"]
    BY <1>4, Zenon DEF AuditPost
  <2>2. UNCHANGED <<scene, readings, bundle, links>>
    BY <2>1 DEF given
  <2>3. \/ posted' \in Reports /\ posted'.overall = report.overall
        \/ report.overall = "GREEN" /\ posted' = posted
    <3>1. \/ \E shown \in SUBSET report.lines : posted' = [report EXCEPT !.lines = shown]
          \/ report.overall = "GREEN" /\ posted' = posted
      BY <1>4 DEF AuditPost
    <3>2. ASSUME NEW shown \in SUBSET report.lines, posted' = [report EXCEPT !.lines = shown]
          PROVE  posted' \in Reports /\ posted'.overall = report.overall
      BY <1>1, <2>1, <3>2 DEF Reports
    <3>. QED
      BY <3>1, <3>2
  <2>4. /\ at'[Lead] = "answered"
        /\ GivenTypes' /\ LoopTypes' /\ ToolTypes' /\ FanoutTypes'
        /\ reply' \in [Runs -> Replies \cup {"none"}]
        /\ AnswersInPlace' /\ LeadKnows' /\ VerifiersKnow' /\ OneDecisionPerCandidate'
    BY <2>1, AuditStepFrame
  <2>5. ResultTypes'
    BY <1>1, <2>1, <2>2, <2>3, <2>4 DEF ResultTypes
  <2>6. AuditKnows'
    <3>1. \E proposed \in Statuses \cup {"none"} : report = Report(proposed, readings)
      BY <2>1 DEF AgentsInv, AuditKnows
    <3>2. ledgered \in {NoReport, report} /\ posted = NoReport
      BY <2>1 DEF AgentsInv, AuditKnows
    <3>. QED
      BY <2>1, <2>2, <2>3, <2>4, <3>1, <3>2 DEF AuditKnows
  <2>. QED
    BY <2>4, <2>5, <2>6 DEF AgentsInv, TypeOK
<1>. QED
  BY <1>2, <1>3, <1>4

----------------------------------------------------------------------------
(* Every step is of one of the kinds. *)

\* A run that enters its loop, leaves it before it began, or ends in an error.
LEMMA MoveIsLoopStep ==
  ASSUME AgentsInv, NEW r \in Runs, at[r] \in {"request", "error", "await"},
         NEW where \in {"model", "ended", "error", "dead"}, Move(r, where),
         where = "model" => at[r] = "request",
         UNCHANGED <<given, loopVars, toolVars, reply, fanoutVars, bundle, links, audit>>
  PROVE  LoopStep(r)
<1>1. LoopTypes' /\ ToolTypes'
  <2>1. LoopTypes'
    BY MoveTypes DEF AgentsInv
  <2>. QED
    BY <2>1, Zenon DEF AgentsInv, TypeOK, ToolTypes, toolVars
<1>2. UNCHANGED Elsewhere /\ calls' = calls /\ decision' = decision
  BY Zenon DEF Elsewhere, loopVars, toolVars
<1>3. InLoop(r)
  <2>1. UNCHANGED <<loopVars, toolVars>>
    BY Zenon
  <2>2. at'[r] = where
    BY DEF Move, AgentsInv, TypeOK, LoopTypes
  <2>. QED
    BY <2>1, <2>2 DEF InLoop
<1>. QED
  BY <1>1, <1>2, <1>3 DEF LoopStep, Unfinished

\* A turn of the loop.
LEMMA TurnIsLoopStep ==
  ASSUME AgentsInv, NEW r \in Runs, Loops(r), at[r] = "model",
         \/ LoopStops(r)
         \/ turn[r] # MaxTurns /\ ~(spent[r] >= Budget) /\ (ModelAnswers(r) \/ ModelFails(r)),
         UNCHANGED <<given, toolVars, reply, fanoutVars, bundle, links, audit>>
  PROVE  LoopStep(r)
<1>1. /\ LoopTypes'
      /\ \E where \in {"model", "tools", "ended", "error", "dead"} : Move(r, where)
      /\ \A q \in Runs : q # r => calls'[q] = calls[q]
  BY TurnTypes DEF AgentsInv
<1>2. ToolTypes' /\ UNCHANGED Elsewhere /\ decision' = decision /\ UNCHANGED toolVars
  BY Zenon DEF AgentsInv, TypeOK, ToolTypes, Elsewhere, toolVars
<1>3. InLoop(r)
  BY <1>2 DEF InLoop
<1>. QED
  BY <1>1, <1>2, <1>3 DEF LoopStep, Unfinished

\* A tool that has run, whatever it keeps for its own run.
LEMMA ToolIsLoopStep ==
  ASSUME AgentsInv, NEW r \in Runs, Loops(r),
         at[r] = "tools" \/ (at[r] = "await" /\ calls[r] > 0),
         ToolReturns(r), ToolTypes',
         \A q \in Runs : q # r => kept'[q] = kept[q],
         \A i \in Subs : i # r => /\ checks'[i] = checks[i]
                                 /\ decision'[i] = decision[i]
                                 /\ picks'[i] = picks[i],
         r # Lead => proposal' = proposal,
         UNCHANGED Elsewhere
  PROVE  LoopStep(r)
<1>1. calls[r] > 0 /\ at[r] \in Unfinished
  BY DEF AgentsInv, TypeOK, LoopTypes, Unfinished
<1>2. /\ LoopTypes'
      /\ \E where \in {"model", "tools", "ended", "error", "dead"} : Move(r, where)
      /\ \A q \in Runs : q # r => calls'[q] = calls[q]
  BY <1>1, ToolReturnsTypes DEF AgentsInv
<1>3. \A q \in Runs : q # r => KeptOf(q)' = KeptOf(q)
  BY DEF KeptOf, Runs, Subs, Lead
<1>4. InLoop(r)
  BY <1>3 DEF InLoop
<1>. QED
  BY <1>1, <1>2, <1>4 DEF LoopStep, Unfinished

\* A tool that keeps nothing.
LEMMA LookupIsLoopStep ==
  ASSUME AgentsInv, NEW r \in Runs, Loops(r), at[r] = "tools" \/ (at[r] = "await" /\ calls[r] > 0),
         ToolReturns(r),
         UNCHANGED <<given, toolVars, reply, fanoutVars, bundle, links, audit>>
  PROVE  LoopStep(r)
<1>1. ToolTypes' /\ UNCHANGED Elsewhere /\ UNCHANGED <<kept, checks, decision, picks, proposal>>
  BY Zenon DEF AgentsInv, TypeOK, ToolTypes, Elsewhere, toolVars
<1>. QED
  BY <1>1, ToolIsLoopStep

Kinds ==
  \/ \E r \in Runs : LoopStep(r) \/ AnswerStep(r)
  \/ DispatchStep \/ FanoutStep
  \/ PromotionCollect \/ AuditReported \/ AuditCommit \/ AuditPost

LEMMA RunsAre ==
  Lead \in Runs /\ Subs \subseteq Runs \ {Lead} /\ IsFiniteSet(Subs) /\ Cardinality(Subs) = Width
<1>1. IsFiniteSet(1..Width) /\ Cardinality(1..Width) = Width
  BY WidthAssumption, FS_Interval
<1>. QED
  BY <1>1, WidthAssumption DEF Runs, Subs, Lead

LEMMA ClusterKinds ==
  ASSUME AgentsInv, ClusterStep
  PROVE  Kinds
<1>. USE RunsAre DEF Kinds
<1>1. CASE ClusterRequest
  <2>1. \E where \in {"model", "ended", "dead"} : Move(Lead, where)
    BY <1>1 DEF ClusterRequest, ClusterRefused, Prompted
  <2>2. /\ at[Lead] = "request"
        /\ UNCHANGED <<given, loopVars, toolVars, reply, fanoutVars, bundle, links, audit>>
    BY <1>1, Zenon DEF ClusterRequest
  <2>. QED
    BY <2>1, <2>2, MoveIsLoopStep
<1>2. CASE ClusterTurn
  BY <1>2, TurnIsLoopStep DEF ClusterTurn, Loops
<1>3. CASE ClusterFanout
  BY <1>3, Zenon DEF ClusterFanout, FanoutStep
<1>4. CASE ClusterResume
  <2>1. calls[Lead] > 0
    BY <1>4 DEF AgentsInv, LeadKnows, ClusterResume
  <2>. QED
    BY <1>4, <2>1, LookupIsLoopStep DEF ClusterResume, Loops
<1>5. CASE ClusterAnswer
  <2>1. UNCHANGED <<given, loopVars, toolVars, fanoutVars, bundle, links, audit>>
    BY <1>5, Zenon DEF ClusterAnswer
  <2>2. /\ scene = "distill" /\ at[Lead] \in {"ended", "error"} /\ Move(Lead, "answered")
        /\ \E answer \in {"candidates", "nothing"} : reply' = [reply EXCEPT ![Lead] = answer]
    BY <1>5 DEF ClusterAnswer
  <2>3. links' \in [Subs -> [Signals -> 0..2]]
    BY <2>1 DEF AgentsInv, TypeOK, ResultTypes
  <2>4. AnswerStep(Lead)
    BY <2>1, <2>2, <2>3 DEF AnswerStep, Replies
  <2>. QED
    BY <2>4
<1>6. CASE ClusterLookup
  BY <1>6, LookupIsLoopStep DEF ClusterLookup, Loops
<1>7. CASE ClusterPropose
  <2>1. /\ Loops(Lead) /\ at[Lead] = "tools" /\ ToolReturns(Lead)
        /\ \E query \in BOOLEAN : kept' = [kept EXCEPT ![Lead] = IF query THEN @ + 1 ELSE @]
        /\ UNCHANGED <<checks, decision, picks, proposal>>
        /\ UNCHANGED Elsewhere
    BY <1>7, Zenon DEF ClusterPropose, Loops, Elsewhere
  <2>2. kept' \in [Runs -> Nat]
    BY <2>1 DEF AgentsInv, TypeOK, ToolTypes
  <2>3. ToolTypes'
    BY <2>1, <2>2 DEF AgentsInv, TypeOK, ToolTypes
  <2>. QED
    BY <2>1, <2>3, ToolIsLoopStep DEF Loops, AgentsInv, TypeOK, ToolTypes
<1>8. CASE ClusterDispatch
  <2>1. PICK n \in 1..(Width - sent) :
          queue' = (sent + 1)..(sent + n) /\ sent' = sent + Cardinality((sent + 1)..(sent + n))
    BY <1>8 DEF ClusterDispatch, Dispatch
  <2>2. Width \in Nat /\ sent \in 0..Width
    BY WidthAssumption DEF AgentsInv, TypeOK, FanoutTypes
  <2>3. Cardinality((sent + 1)..(sent + n)) = n
    BY <2>2, FS_Interval
  <2>4. sent' \in 0..Width /\ queue' \in SUBSET Subs
    BY <2>1, <2>2, <2>3 DEF Subs
  <2>5. /\ scene = "distill" /\ at[Lead] = "tools" /\ slot' = slot /\ Move(Lead, "await")
        /\ UNCHANGED <<given, loopVars, toolVars, reply, bundle, links, audit>>
    BY <1>8, Zenon DEF ClusterDispatch, Dispatch
  <2>6. FanoutTypes'
    BY <2>4, <2>5 DEF AgentsInv, TypeOK, FanoutTypes
  <2>7. sent' = sent + n /\ n \in Nat \ {0}
    BY <2>1, <2>2, <2>3
  <2>8. sent' >= sent /\ \A i \in queue' : Undispatched(i) /\ sent' > 0 /\ i <= sent'
    BY <2>1, <2>2, <2>5, <2>7 DEF Undispatched
  <2>9. DispatchStep
    BY <2>5, <2>6, <2>8 DEF DispatchStep
  <2>. QED
    BY <2>9
<1>. QED
  BY <1>1, <1>2, <1>3, <1>4, <1>5, <1>6, <1>7, <1>8 DEF ClusterStep, ClusterTool, ClusterTools

LEMMA SubagentKinds ==
  ASSUME AgentsInv, NEW i \in Subs, SubagentStep(i)
  PROVE  Kinds
<1>. USE RunsAre DEF Kinds
<1>1. CASE SubagentRequest(i)
  <2>1. \E where \in {"model", "dead"} : Move(i, where)
    BY <1>1 DEF SubagentRequest, SubagentRefused, Prompted
  <2>2. /\ at[i] = "request"
        /\ UNCHANGED <<given, loopVars, toolVars, reply, fanoutVars, bundle, links, audit>>
    BY <1>1, Zenon DEF SubagentRequest
  <2>. QED
    BY <2>1, <2>2, MoveIsLoopStep
<1>2. CASE SubagentTurn(i)
  BY <1>2, TurnIsLoopStep DEF SubagentTurn, Loops
<1>3. CASE SubagentAnswer(i)
  <2>1. UNCHANGED <<given, loopVars, toolVars, fanoutVars, bundle, links, audit>>
    BY <1>3, Zenon DEF SubagentAnswer
  <2>2. /\ scene = "distill" /\ at[i] \in {"ended", "error"} /\ Move(i, "answered")
        /\ \E answer \in Verdicts : reply' = [reply EXCEPT ![i] = answer]
    BY <1>3 DEF SubagentAnswer, derivedVerdict, Verdicts
  <2>3. links' \in [Subs -> [Signals -> 0..2]]
    BY <2>1 DEF AgentsInv, TypeOK, ResultTypes
  <2>4. AnswerStep(i)
    BY <2>1, <2>2, <2>3 DEF AnswerStep, Replies
  <2>. QED
    BY <2>4
<1>4. CASE SubagentLookup(i)
  BY <1>4, LookupIsLoopStep DEF SubagentLookup, Loops
<1>5. CASE SubagentPropose(i)
  <2>1. /\ at[i] = "tools" /\ ToolReturns(i)
        /\ \E signals \in {1, 2} : kept' = [kept EXCEPT ![i] = IF signals >= 2 THEN @ + 1 ELSE @]
        /\ UNCHANGED <<checks, decision, picks, proposal>>
        /\ UNCHANGED Elsewhere
    BY <1>5, Zenon DEF SubagentPropose, Elsewhere
  <2>2. kept' \in [Runs -> Nat]
    BY <2>1 DEF AgentsInv, TypeOK, ToolTypes
  <2>3. ToolTypes'
    BY <2>1, <2>2 DEF AgentsInv, TypeOK, ToolTypes
  <2>. QED
    BY <2>1, <2>3, ToolIsLoopStep DEF Loops, AgentsInv, TypeOK, ToolTypes
<1>. QED
  BY <1>1, <1>2, <1>3, <1>4, <1>5 DEF SubagentStep, SubagentTool

LEMMA PromotionKinds ==
  ASSUME AgentsInv, PromotionStep
  PROVE  Kinds
<1>. USE RunsAre DEF Kinds
<1>1. CASE PromotionPass
  <2>1. /\ scene = "promote" /\ at[Lead] = "request"
        /\ UNCHANGED <<given, loopVars, toolVars, reply, links, audit>>
    BY <1>1, Zenon DEF PromotionPass
  <2>2. /\ slot' = slot
        /\ \/ Move(Lead, "await") /\ bundle' = Gated \cup Merged /\ queue' = Dispatched
              /\ sent' = sent + Cardinality(Dispatched)
           \/ Move(Lead, "ended") /\ bundle' = bundle /\ queue' = queue /\ sent' = sent
    BY <1>1, Zenon DEF PromotionPass, Dispatch, fanoutVars
  <2>3. sent = 0
    BY <2>1 DEF AgentsInv, LeadKnows
  <2>4. Dispatched \subseteq Subs
    BY DEF Dispatched
  <2>5. Cardinality(Dispatched) \in 0..Width
    <3>1. IsFiniteSet(Dispatched) /\ Cardinality(Dispatched) <= Width
      BY <2>4, FS_Subset
    <3>. QED
      BY <3>1, FS_CardinalityType, WidthAssumption
  <2>6. FanoutTypes'
    BY <2>2, <2>3, <2>4, <2>5 DEF AgentsInv, TypeOK, FanoutTypes
  <2>7. bundle' \in {bundle, Gated \cup Merged} /\ (Move(Lead, "await") \/ Move(Lead, "ended"))
    BY <2>2
  <2>8. Dispatched # {} => Cardinality(Dispatched) > 0
    BY <2>4, <2>5, FS_Subset, FS_EmptySet
  <2>9. /\ sent' >= sent
        /\ \A i \in queue' : i \in queue \/ (Undispatched(i) /\ sent' > 0)
    <3>1. CASE queue' = Dispatched /\ sent' = sent + Cardinality(Dispatched)
      <4>1. sent' = Cardinality(Dispatched) /\ sent' >= sent
        BY <2>3, <2>5, <3>1
      <4>. QED
        BY <2>3, <2>8, <3>1, <4>1 DEF Undispatched
    <3>2. CASE queue' = queue /\ sent' = sent
      BY <2>3, <3>2
    <3>. QED
      BY <2>2, <3>1, <3>2
  <2>10. DispatchStep
    BY <2>1, <2>2, <2>6, <2>7, <2>9 DEF DispatchStep
  <2>. QED
    BY <2>10
<1>2. CASE PromotionFanout
  BY <1>2, Zenon DEF PromotionFanout, FanoutStep
<1>. QED
  BY <1>1, <1>2 DEF PromotionStep

LEMMA VerifierKinds ==
  ASSUME AgentsInv, NEW i \in Subs, VerifierStep(i)
  PROVE  Kinds
<1>. USE RunsAre DEF Kinds
<1>1. CASE VerifierRequest(i)
  <2>1. \E where \in {"model", "dead"} : Move(i, where)
    BY <1>1 DEF VerifierRequest, VerifierRefused, Prompted
  <2>2. /\ at[i] = "request"
        /\ UNCHANGED <<given, loopVars, toolVars, reply, fanoutVars, bundle, links, audit>>
    BY <1>1, Zenon DEF VerifierRequest
  <2>. QED
    BY <2>1, <2>2, MoveIsLoopStep
<1>2. CASE VerifierTurn(i)
  BY <1>2, TurnIsLoopStep DEF VerifierTurn, Loops
<1>3. CASE VerifierAnswer(i)
  <2>1. UNCHANGED <<given, loopVars, toolVars, fanoutVars, bundle, links, audit>>
    BY <1>3, Zenon DEF VerifierAnswer
  <2>2. scene = "promote" /\ at[i] \in {"ended", "error"} /\ Move(i, "answered")
    BY <1>3 DEF VerifierAnswer
  <2>3. decision[i] \in Decisions \cup {"none"}
    BY DEF AgentsInv, TypeOK, ToolTypes
  <2>4. PICK answer \in Decisions \cup {"DEFER_ON_ERROR"} :
          /\ reply' = [reply EXCEPT ![i] = answer]
          /\ answer \in Decisions =>
               answer = IF decision[i] = "none" THEN "DEFER" ELSE decision[i]
    <3>. DEFINE answered == IF at[i] = "error" THEN "DEFER_ON_ERROR"
                          ELSE IF decision[i] = "none" THEN "DEFER" ELSE decision[i]
    <3>1. reply' = [reply EXCEPT ![i] = answered]
      BY <1>3 DEF VerifierAnswer
    <3>2. answered \in Decisions \cup {"DEFER_ON_ERROR"} /\ "DEFER_ON_ERROR" \notin Decisions
      BY <2>3 DEF Decisions
    <3>3. answered \in Decisions =>
            answered = IF decision[i] = "none" THEN "DEFER" ELSE decision[i]
      BY <3>2
    <3>. HIDE DEF answered
    <3>. QED
      BY <3>1, <3>2, <3>3
  <2>5. links' \in [Subs -> [Signals -> 0..2]]
    BY <2>1 DEF AgentsInv, TypeOK, ResultTypes
  <2>6. answer \in Replies
    BY DEF Replies
  <2>7. AnswerStep(i)
    BY <2>1, <2>2, <2>4, <2>5, <2>6 DEF AnswerStep
  <2>. QED
    BY <2>7
<1>4. CASE VerifierCompare(i)
  BY <1>4, LookupIsLoopStep DEF VerifierCompare, Loops
<1>5. CASE VerifierLookup(i)
  <2>1. /\ at[i] = "tools" /\ ToolReturns(i)
        /\ \E status \in {200, 403}, hits \in {0, 1} :
             checks' = [checks EXCEPT ![i] = @ \cup {Normalized(status, hits)}]
        /\ UNCHANGED <<kept, decision, picks, proposal>>
        /\ UNCHANGED Elsewhere
    BY <1>5, Zenon DEF VerifierLookup, Elsewhere
  <2>2. checks' \in [Subs -> SUBSET {"hit", "miss"}]
    BY <2>1 DEF AgentsInv, TypeOK, ToolTypes, Normalized
  <2>3. ToolTypes'
    BY <2>1, <2>2 DEF AgentsInv, TypeOK, ToolTypes
  <2>4. \A k \in Subs : k # i => checks'[k] = checks[k]
    BY <2>1 DEF AgentsInv, TypeOK, ToolTypes
  <2>. QED
    BY <2>1, <2>3, <2>4, ToolIsLoopStep DEF Loops
<1>6. CASE VerifierPropose(i)
  <2>1. PICK wanted \in Decisions : decision' = [decision EXCEPT ![i] = Accepted(i, wanted)]
    BY <1>6, Zenon DEF VerifierPropose
  <2>2. /\ at[i] = "tools" /\ ToolReturns(i)
        /\ UNCHANGED <<kept, checks, picks, proposal>>
        /\ UNCHANGED Elsewhere
    BY <1>6, Zenon DEF VerifierPropose, Elsewhere
  <2>3. decision \in [Subs -> Decisions \cup {"none"}]
    BY DEF AgentsInv, TypeOK, ToolTypes
  <2>4. Accepted(i, wanted) \in Decisions
    BY DEF Accepted, Decisions
  <2>5. /\ decision' \in [Subs -> Decisions \cup {"none"}]
        /\ \A k \in Subs : k # i => decision'[k] = decision[k]
    BY <2>1, <2>3, <2>4
  <2>6. ToolTypes'
    BY <2>2, <2>5 DEF AgentsInv, TypeOK, ToolTypes
  <2>. QED
    BY <2>2, <2>5, <2>6, ToolIsLoopStep DEF Loops
<1>. QED
  BY <1>1, <1>2, <1>3, <1>4, <1>5, <1>6 DEF VerifierStep, VerifierTool

LEMMA SweepKinds ==
  ASSUME AgentsInv, SweepStep
  PROVE  Kinds
<1>. USE RunsAre DEF Kinds
<1>1. CASE SweepPass
  <2>1. /\ scene = "attribute" /\ at[Lead] = "request" /\ bundle' = bundle
        /\ UNCHANGED <<given, loopVars, toolVars, reply, links, audit>>
    BY <1>1, Zenon DEF SweepPass
  <2>2. /\ slot' = slot
        /\ \/ Move(Lead, "await") /\ queue' = Subs /\ sent' = sent + Cardinality(Subs)
           \/ Move(Lead, "ended") /\ queue' = queue /\ sent' = sent
    BY <1>1, Zenon DEF SweepPass, Dispatch, fanoutVars
  <2>3. sent = 0
    BY <2>1 DEF AgentsInv, LeadKnows
  <2>4. FanoutTypes'
    BY <2>2, <2>3, WidthAssumption DEF AgentsInv, TypeOK, FanoutTypes
  <2>5. Move(Lead, "await") \/ Move(Lead, "ended")
    BY <2>2
  <2>6. Subs # {} => Width > 0
    BY WidthAssumption DEF Subs
  <2>7. /\ sent' >= sent
        /\ \A i \in queue' : i \in queue \/ (Undispatched(i) /\ sent' > 0)
    <3>1. CASE queue' = Subs /\ sent' = sent + Cardinality(Subs)
      <4>1. sent' = Width /\ sent' >= sent
        BY <2>3, <3>1, WidthAssumption
      <4>. QED
        BY <2>3, <2>6, <3>1, <4>1 DEF Undispatched
    <3>2. CASE queue' = queue /\ sent' = sent
      BY <2>3, <3>2
    <3>. QED
      BY <2>2, <3>1, <3>2
  <2>8. DispatchStep
    BY <2>1, <2>2, <2>4, <2>5, <2>7 DEF DispatchStep
  <2>. QED
    BY <2>8
<1>2. CASE SweepFanout
  BY <1>2, Zenon DEF SweepFanout, FanoutStep
<1>3. CASE SweepReport
  BY <1>3, MoveIsLoopStep DEF SweepReport
<1>. QED
  BY <1>1, <1>2, <1>3 DEF SweepStep

\* What an attribution subagent commits is a list's choice or the row there was.
LEMMA InsertedType ==
  ASSUME AgentsInv, NEW i \in Subs
  PROVE  Inserted(i) \in [Signals -> 0..2]
<1>1. links[i] \in [Signals -> 0..2] /\ picks[i] \in [Signals -> 0..2]
  BY DEF AgentsInv, TypeOK, ToolTypes, ResultTypes
<1>. QED
  BY <1>1 DEF Inserted

LEMMA AttributorKinds ==
  ASSUME AgentsInv, NEW i \in Subs, AttributorStep(i)
  PROVE  Kinds
<1>. USE RunsAre DEF Kinds
<1>1. CASE AttributorRequest(i)
  <2>1. \E where \in {"model", "ended", "dead"} : Move(i, where)
    BY <1>1 DEF AttributorRequest, AttributorRefused, Prompted
  <2>2. /\ at[i] = "request"
        /\ UNCHANGED <<given, loopVars, toolVars, reply, fanoutVars, bundle, links, audit>>
    BY <1>1, Zenon DEF AttributorRequest
  <2>. QED
    BY <2>1, <2>2, MoveIsLoopStep
<1>2. CASE AttributorTurn(i)
  BY <1>2, TurnIsLoopStep DEF AttributorTurn, Loops
<1>3. CASE AttributorAnswer(i)
  <2>1. UNCHANGED <<given, loopVars, toolVars, fanoutVars, bundle, audit>>
    BY <1>3, Zenon DEF AttributorAnswer
  <2>2. /\ scene = "attribute" /\ at[i] = "ended" /\ Move(i, "answered")
        /\ reply' = [reply EXCEPT ![i] = "done"] /\ links' = [links EXCEPT ![i] = Inserted(i)]
    BY <1>3, Zenon DEF AttributorAnswer
  <2>3. links' \in [Subs -> [Signals -> 0..2]]
    BY <2>2, InsertedType DEF AgentsInv, TypeOK, ResultTypes
  <2>4. AnswerStep(i)
    BY <2>1, <2>2, <2>3 DEF AnswerStep, Replies
  <2>. QED
    BY <2>4
<1>4. CASE AttributorFails(i)
  BY <1>4, MoveIsLoopStep DEF AttributorFails
<1>5. CASE AttributorFilter(i)
  BY <1>5, LookupIsLoopStep DEF AttributorFilter, Loops
<1>6. CASE AttributorPick(i)
  <2>1. /\ at[i] = "tools" /\ ToolReturns(i)
        /\ \E list \in [Signals -> 0..2] : picks' = [picks EXCEPT ![i] = list]
        /\ UNCHANGED <<kept, checks, decision, proposal>>
        /\ UNCHANGED Elsewhere
    BY <1>6, Zenon DEF AttributorPick, Elsewhere
  <2>2. picks' \in [Subs -> [Signals -> 0..2]]
    BY <2>1 DEF AgentsInv, TypeOK, ToolTypes
  <2>3. ToolTypes'
    BY <2>1, <2>2 DEF AgentsInv, TypeOK, ToolTypes
  <2>. QED
    BY <2>1, <2>3, ToolIsLoopStep DEF Loops, AgentsInv, TypeOK, ToolTypes
<1>. QED
  BY <1>1, <1>2, <1>3, <1>4, <1>5, <1>6 DEF AttributorStep, AttributorTool

LEMMA EnricherKinds ==
  ASSUME AgentsInv, EnricherStep
  PROVE  Kinds
<1>. USE RunsAre DEF Kinds
<1>1. CASE EnricherRequest
  <2>1. \E where \in {"model", "ended", "dead"} : Move(Lead, where)
    BY <1>1 DEF EnricherRequest, EnricherRefused, Prompted
  <2>2. /\ at[Lead] = "request"
        /\ UNCHANGED <<given, loopVars, toolVars, reply, fanoutVars, bundle, links, audit>>
    BY <1>1, Zenon DEF EnricherRequest
  <2>. QED
    BY <2>1, <2>2, MoveIsLoopStep
<1>2. CASE EnricherTurn
  BY <1>2, TurnIsLoopStep DEF EnricherTurn, Loops
<1>3. CASE EnricherAnswer
  <2>1. scene = "enrich" /\ UNCHANGED <<given, loopVars, toolVars, fanoutVars, bundle, links, audit>>
    BY <1>3, Zenon DEF EnricherAnswer
  <2>2. CASE /\ at[Lead] = "ended" /\ Move(Lead, "answered")
             /\ reply' = [reply EXCEPT ![Lead] = IF kept[Lead] = 1 THEN "output" ELSE "nothing"]
    <3>1. \E answer \in {"output", "nothing"} : reply' = [reply EXCEPT ![Lead] = answer]
      BY <2>2
    <3>2. links' \in [Subs -> [Signals -> 0..2]]
      BY <2>1 DEF AgentsInv, TypeOK, ResultTypes
    <3>3. AnswerStep(Lead)
      BY <2>1, <2>2, <3>1, <3>2 DEF AnswerStep, Replies
    <3>. QED
      BY <3>3
  <2>3. CASE at[Lead] = "error" /\ Move(Lead, "dead") /\ UNCHANGED reply
    <3>1. UNCHANGED <<given, loopVars, toolVars, reply, fanoutVars, bundle, links, audit>>
      BY <2>1, <2>3, Zenon
    <3>. QED
      BY <2>3, <3>1, MoveIsLoopStep
  <2>. QED
    BY <1>3, <2>2, <2>3, Zenon DEF EnricherAnswer
<1>4. CASE EnricherLookup
  BY <1>4, LookupIsLoopStep DEF EnricherLookup, Loops
<1>5. CASE EnricherPropose
  <2>1. /\ Loops(Lead) /\ at[Lead] = "tools" /\ ToolReturns(Lead) /\ kept' = [kept EXCEPT ![Lead] = 1]
        /\ UNCHANGED <<checks, decision, picks, proposal>>
        /\ UNCHANGED Elsewhere
    BY <1>5, Zenon DEF EnricherPropose, Loops, Elsewhere
  <2>2. ToolTypes'
    BY <2>1 DEF AgentsInv, TypeOK, ToolTypes
  <2>. QED
    BY <2>1, <2>2, ToolIsLoopStep DEF Loops, AgentsInv, TypeOK, ToolTypes
<1>. QED
  BY <1>1, <1>2, <1>3, <1>4, <1>5 DEF EnricherStep, EnricherTool

LEMMA AuditKinds ==
  ASSUME AgentsInv, AuditStep
  PROVE  Kinds
<1>. USE RunsAre DEF Kinds
<1>1. CASE AuditRequest
  <2>1. \E where \in {"model", "dead"} : Move(Lead, where)
    BY <1>1 DEF AuditRequest, AuditErrorsUnread, Prompted
  <2>2. /\ at[Lead] = "request"
        /\ UNCHANGED <<given, loopVars, toolVars, reply, fanoutVars, bundle, links, audit>>
    BY <1>1, Zenon DEF AuditRequest
  <2>. QED
    BY <2>1, <2>2, MoveIsLoopStep
<1>2. CASE AuditTurn
  BY <1>2, TurnIsLoopStep DEF AuditTurn, Loops
<1>3. CASE AuditLookup
  BY <1>3, LookupIsLoopStep DEF AuditLookup, Loops
<1>4. CASE proposeAuditReport
  <2>1. /\ Loops(Lead) /\ at[Lead] = "tools" /\ ToolReturns(Lead) /\ proposal' \in Statuses
        /\ UNCHANGED <<kept, checks, decision, picks>>
        /\ UNCHANGED Elsewhere
    BY <1>4, Zenon DEF proposeAuditReport, Loops, Elsewhere
  <2>2. ToolTypes'
    BY <2>1 DEF AgentsInv, TypeOK, ToolTypes
  <2>. QED
    BY <2>1, <2>2, ToolIsLoopStep DEF Loops, AgentsInv, TypeOK, ToolTypes
<1>. QED
  BY <1>1, <1>2, <1>3, <1>4, Zenon DEF AuditStep, AuditTool

LEMMA KillIsLoopStep ==
  ASSUME AgentsInv, NEW r \in Runs, Kill(r)
  PROVE  LoopStep(r)
<1>1. /\ at[r] \in Unfinished /\ Move(r, "dead")
      /\ UNCHANGED <<given, loopVars, toolVars, reply, fanoutVars, bundle, links, audit>>
  BY Zenon DEF Kill, Unfinished
<1>2. LoopTypes'
  BY <1>1, MoveTypes DEF AgentsInv
<1>3. ToolTypes' /\ UNCHANGED Elsewhere /\ calls' = calls /\ decision' = decision
  BY <1>1, Zenon DEF AgentsInv, TypeOK, ToolTypes, toolVars, loopVars, Elsewhere
<1>4. InLoop(r)
  <2>1. at'[r] = "dead"
    BY <1>1 DEF Move, AgentsInv, TypeOK, LoopTypes
  <2>. QED
    BY <1>1, <2>1 DEF InLoop
<1>. QED
  BY <1>1, <1>2, <1>3, <1>4 DEF LoopStep

LEMMA StepKinds ==
  ASSUME AgentsInv, Next
  PROVE  Kinds
<1>1. CASE ClusterStep
  BY <1>1, ClusterKinds
<1>2. CASE PromotionStep
  BY <1>2, PromotionKinds
<1>3. CASE SweepStep
  BY <1>3, SweepKinds
<1>4. CASE EnricherStep
  BY <1>4, EnricherKinds
<1>5. CASE AuditStep
  BY <1>5, AuditKinds
<1>6. CASE \E i \in Subs : SubagentStep(i) \/ VerifierStep(i) \/ AttributorStep(i)
  <2>1. PICK i \in Subs : SubagentStep(i) \/ VerifierStep(i) \/ AttributorStep(i)
    BY <1>6, Zenon
  <2>. QED
    BY <2>1, SubagentKinds, VerifierKinds, AttributorKinds
<1>7. CASE \E r \in Runs : Kill(r)
  BY <1>7, KillIsLoopStep DEF Kinds
<1>. QED
  BY <1>1, <1>2, <1>3, <1>4, <1>5, <1>6, <1>7, Zenon DEF Next, LeadStep

----------------------------------------------------------------------------
(* The theorems. *)

LEMMA InitInv ==
  ASSUME Init
  PROVE  AgentsInv
<1>1. WidthAssumption /\ LimitsAssumption /\ Lead \in Runs /\ Subs \subseteq Runs
      /\ Width \in Nat /\ Budget \in Nat \ {0} /\ MaxCost \in Nat /\ MaxTurns \in Nat
  BY WidthAssumption, LimitsAssumption, RunsAre DEF WidthAssumption, LimitsAssumption
<1>2. GivenTypes
  <2>1. AllWell \in Readings
    BY DEF AllWell, Readings, Unread
  <2>. QED
    BY <2>1 DEF Init, GivenTypes
<1>3. LoopTypes
  BY <1>1 DEF Init, LoopTypes, Stages, Runs
<1>4. ToolTypes /\ FanoutTypes
  BY <1>1 DEF Init, ToolTypes, FanoutTypes
<1>5. ResultTypes
  BY <1>1 DEF Init, ResultTypes
<1>6. AnswersInPlace /\ VerifiersKnow /\ OneDecisionPerCandidate
  BY <1>1 DEF Init, AnswersInPlace, VerifiersKnow, OneDecisionPerCandidate, Replies, Decisions,
     Verdicts
<1>7. LeadKnows /\ AuditKnows
  BY <1>1 DEF Init, LeadKnows, AuditKnows
<1>. QED
  BY <1>2, <1>3, <1>4, <1>5, <1>6, <1>7 DEF AgentsInv, TypeOK

LEMMA StepInv ==
  ASSUME AgentsInv, [Next]_vars
  PROVE  AgentsInv'
<1>1. CASE Next
  <2>1. Kinds
    BY <1>1, StepKinds
  <2>. QED
    BY <2>1, LoopStepKeeps, AnswerStepKeeps, DispatchStepKeeps, FanoutStepKeeps,
       PromotionCollectKeeps, AuditStepKeeps, Zenon DEF Kinds
<1>2. CASE UNCHANGED vars
  <2>1. UNCHANGED <<scene, gated, leader, readings, at, turn, spent, calls, kept, checks, decision,
                    picks, proposal, reply, sent, queue, slot, bundle, links, report, ledgered,
                    posted>>
    BY <1>2, Zenon DEF vars, given, loopVars, toolVars, fanoutVars, audit
  <2>2. TypeOK'
    BY <2>1, Zenon DEF AgentsInv, TypeOK, GivenTypes, LoopTypes, ToolTypes, FanoutTypes, ResultTypes
  <2>3. LeadKnows'
    BY <2>1, Zenon DEF AgentsInv, LeadKnows, Clustered, Gated, Merged, Followers
  <2>4. AnswersInPlace' /\ VerifiersKnow' /\ AuditKnows'
    BY <2>1, Zenon DEF AgentsInv, AnswersInPlace, VerifiersKnow, AuditKnows
  <2>5. OneDecisionPerCandidate'
    BY <2>1, Zenon DEF AgentsInv, OneDecisionPerCandidate, Dispatched, Followers
  <2>. QED
    BY <2>2, <2>3, <2>4, <2>5 DEF AgentsInv
<1>. QED
  BY <1>1, <1>2

LEMMA Invariance == Spec => []AgentsInv
  BY InitInv, StepInv, PTL DEF Spec

\* The variables keep their types.
THEOREM TypeCorrect == Spec => []TypeOK
  BY Invariance, PTL DEF AgentsInv

\* A slot holds the answer of its own dispatch, or none (mapWithConcurrency keeps the
\* index, and a dispatch that failed keeps an error).
THEOREM InPlaceCorrect == Spec => []AnswersInPlace
  BY Invariance, PTL DEF AgentsInv

\* A candidate is decided once, by the lead or by its own agent.
THEOREM OneDecisionCorrect == Spec => []OneDecisionPerCandidate
  BY Invariance, PTL DEF AgentsInv

\* An audit that ended is silent only when every figure it read is in its limits.
THEOREM SilenceCorrect == Spec => []SilenceMeansHealth
<1>1. ASSUME AgentsInv
      PROVE  SilenceMeansHealth
  <2>. SUFFICES ASSUME scene = "audit", at[Lead] = "answered"
                PROVE  /\ posted.overall \in {"none", "GREEN"} => Healthy(readings)
                       /\ \A area \in Areas :
                            Grade(area, readings) # "GREEN" =>
                              /\ STATUS_RANK[posted.overall] >=
                                   STATUS_RANK[Grade(area, readings)]
                              /\ ledgered # NoReport => area \in ledgered.lines
    BY DEF SilenceMeansHealth
  <2>1. readings \in Readings
    BY <1>1 DEF AgentsInv, TypeOK, GivenTypes
  <2>2. PICK proposed \in Statuses \cup {"none"} : report = Report(proposed, readings)
    BY <1>1 DEF AgentsInv, AuditKnows
  <2>3. /\ report \in Reports
        /\ \A area \in Areas :
             /\ STATUS_RANK[report.overall] >= STATUS_RANK[Grade(area, readings)]
             /\ Grade(area, readings) \in Statuses
             /\ Grade(area, readings) # "GREEN" => area \in report.lines
    BY <2>1, <2>2, ReportGrades
  <2>4. ledgered \in {NoReport, report}
    BY <1>1 DEF AgentsInv, AuditKnows
  <2>5. \/ posted.overall = report.overall
        \/ report.overall = "GREEN" /\ posted = NoReport
    BY <1>1 DEF AgentsInv, AuditKnows
  <2>6. report.overall \in Statuses
    BY <2>3 DEF Reports
  <2>7. report.overall = "GREEN" => \A area \in Areas : Grade(area, readings) = "GREEN"
    BY <2>3, Ranks DEF Statuses
  <2>8. posted.overall \in {"none", "GREEN"} => report.overall = "GREEN"
    BY <2>5, <2>6 DEF Statuses
  <2>9. report.overall = "GREEN" => Healthy(readings)
    BY <2>1, <2>7, GreenIsHealthy
  <2>10. \A area \in Areas : Grade(area, readings) # "GREEN" => posted.overall = report.overall
    BY <2>5, <2>7
  <2>. QED
    BY <2>3, <2>4, <2>8, <2>9, <2>10
<1>. QED
  BY <1>1, Invariance, PTL

----------------------------------------------------------------------------
(* Every copy of the loop is the library's. *)

LoopGoes(q) == UNCHANGED Loop(q)!vars \/ Loop(q)!Next

\* A dispatch is run once, so that no run starts its loop again.
LEMMA OnceKeeps ==
  ASSUME AgentsInv, DispatchedOnce, [Next]_vars
  PROVE  DispatchedOnce'
<1>. USE RunsAre
<1>1. at \in [Runs -> Stages] /\ sent \in 0..Width /\ queue \in SUBSET Subs
  BY DEF AgentsInv, TypeOK, LoopTypes, FanoutTypes
<1>2. ASSUME NEW r \in Runs, at[r] # "idle", NEW where, at' = [at EXCEPT ![r] = where],
             UNCHANGED <<scene, sent, queue>>
      PROVE  DispatchedOnce'
  BY <1>1, <1>2 DEF DispatchedOnce
<1>3. ASSUME NEW r \in Runs, LoopStep(r)
      PROVE  DispatchedOnce'
  <2>1. UNCHANGED <<scene, sent, queue>>
    BY <1>3, Zenon DEF LoopStep, Elsewhere, given, fanoutVars
  <2>2. at[r] # "idle" /\ \E where : at' = [at EXCEPT ![r] = where]
    BY <1>3 DEF LoopStep, Unfinished, Move
  <2>. QED
    BY <1>2, <2>1, <2>2
<1>4. ASSUME NEW r \in Runs, AnswerStep(r)
      PROVE  DispatchedOnce'
  <2>1. UNCHANGED <<scene, sent, queue>>
    BY <1>4, Zenon DEF AnswerStep, given, fanoutVars
  <2>2. at[r] # "idle" /\ \E where : at' = [at EXCEPT ![r] = where]
    BY <1>4 DEF AnswerStep, Move
  <2>. QED
    BY <1>2, <2>1, <2>2
<1>5. CASE DispatchStep
  <2>1. scene' = scene
    BY <1>5, Zenon DEF DispatchStep, given
  <2>2. /\ at' = [at EXCEPT ![Lead] = "await"] \/ at' = [at EXCEPT ![Lead] = "ended"]
        /\ sent' \in 0..Width /\ sent' >= sent
        /\ \A i \in queue' :
             i \in queue \/ (Undispatched(i) /\ sent' > 0 /\ (scene = "distill" => i <= sent'))
        /\ queue' \in SUBSET Subs
    BY <1>5 DEF DispatchStep, Move, FanoutTypes
  <2>3. \A i \in Subs : at'[i] = at[i]
    BY <1>1, <2>2
  <2>4. Subs \subseteq Nat
    BY DEF Subs
  <2>5. \A i \in queue' : at'[i] = "idle" /\ sent' > 0 /\ (scene' = "distill" => i <= sent')
    BY <1>1, <2>1, <2>2, <2>3, <2>4 DEF DispatchedOnce, Undispatched
  <2>6. \A i \in Subs : sent' = 0 \/ (scene' = "distill" /\ i > sent') => at'[i] = "idle"
    BY <1>1, <2>1, <2>2, <2>3, <2>4 DEF DispatchedOnce
  <2>. QED
    BY <2>5, <2>6 DEF DispatchedOnce
<1>6. CASE FanoutStep
  <2>1. scene' = scene
    BY <1>6, Zenon DEF FanoutStep, given
  <2>2. PICK i \in Subs : Take(i) \/ Settle(i) \/ Abort(i)
    BY <1>6, Zenon DEF FanoutStep
  <2>3. sent' = sent /\ queue' \subseteq queue
    BY <2>2 DEF Take, Settle, Abort
  <2>4. CASE at' = at
    BY <2>1, <2>3, <2>4 DEF DispatchedOnce
  <2>5. CASE Take(i) /\ at' = [at EXCEPT ![i] = "request"]
    <3>1. i \in queue /\ i \notin queue'
      BY <2>5 DEF Take
    <3>2. sent # 0 /\ ~(scene = "distill" /\ i > sent)
      BY <1>1, <3>1 DEF DispatchedOnce, Subs
    <3>3. \A k \in Subs : k # i => at'[k] = at[k]
      BY <1>1, <2>5
    <3>4. \A k \in queue' : at'[k] = "idle" /\ sent' > 0 /\ (scene' = "distill" => k <= sent')
      BY <1>1, <2>1, <2>3, <3>1, <3>3 DEF DispatchedOnce
    <3>5. \A k \in Subs : sent' = 0 \/ (scene' = "distill" /\ k > sent') => at'[k] = "idle"
      BY <1>1, <2>1, <2>3, <3>2, <3>3 DEF DispatchedOnce
    <3>. QED
      BY <3>4, <3>5 DEF DispatchedOnce
  <2>. QED
    BY <2>2, <2>4, <2>5 DEF Take, Settle, Abort
<1>7. CASE PromotionCollect \/ AuditReported \/ AuditCommit \/ AuditPost
  <2>1. UNCHANGED <<scene, sent, queue>>
    BY <1>7, Zenon DEF PromotionCollect, AuditReported, AuditCommit, AuditPost, given, fanoutVars
  <2>2. at[Lead] # "idle" /\ \E where : at' = [at EXCEPT ![Lead] = where]
    BY <1>7 DEF PromotionCollect, AuditReported, AuditCommit, AuditPost, Move
  <2>. QED
    BY <1>2, <2>1, <2>2
<1>8. CASE UNCHANGED vars
  <2>1. UNCHANGED <<scene, at, sent, queue>>
    BY <1>8, Zenon DEF vars, given, fanoutVars
  <2>. QED
    BY <2>1 DEF DispatchedOnce
<1>9. CASE Next
  BY <1>3, <1>4, <1>5, <1>6, <1>7, <1>9, StepKinds, Zenon DEF Kinds
<1>. QED
  BY <1>8, <1>9

\* Where a run stands says in which stage its loop is.
LEMMA StagesAre ==
  ASSUME NEW q
  PROVE  /\ ~Loops(q) => StageOf(q) = "ready"
         /\ Loops(q) /\ at[q] \in {"idle", "request"} => StageOf(q) = "ready"
         /\ Loops(q) /\ at[q] = "model" => StageOf(q) = "model"
         /\ Loops(q) /\ at[q] \in {"tools", "await"} => StageOf(q) = "tools"
         /\ Loops(q) /\ at[q] \notin {"idle", "request", "model", "tools", "await"} =>
              StageOf(q) = "over"
  BY DEF StageOf, Loops

LEMMA StagesWillBe ==
  ASSUME NEW q, scene' = scene
  PROVE  /\ ~Loops(q) => StageOf(q)' = "ready"
         /\ Loops(q) /\ at'[q] \in {"idle", "request"} => StageOf(q)' = "ready"
         /\ Loops(q) /\ at'[q] = "model" => StageOf(q)' = "model"
         /\ Loops(q) /\ at'[q] \in {"tools", "await"} => StageOf(q)' = "tools"
         /\ Loops(q) /\ at'[q] \notin {"idle", "request", "model", "tools", "await"} =>
              StageOf(q)' = "over"
  BY DEF StageOf, Loops

\* A step that leaves the counts and what the tools keep, and takes a run from its
\* stage to no stage but the next one or the end, is one of the loop or none.
LEMMA Passes ==
  ASSUME NEW q \in Runs, UNCHANGED <<given, loopVars, toolVars>>,
         \/ StageOf(q)' = StageOf(q)
         \/ StageOf(q) = "ready" /\ StageOf(q)' = "model"
         \/ StageOf(q)' = "over"
  PROVE  LoopGoes(q)
<1>1. KeptOf(q)' = KeptOf(q) /\ turn' = turn /\ spent' = spent /\ calls' = calls
  BY Zenon DEF loopVars, toolVars, KeptOf
<1>. QED
  BY <1>1 DEF LoopGoes, Loop!vars, Loop!Next, Loop!Begin, Loop!Over

\* A run that is left where it is.
LEMMA Rests ==
  ASSUME NEW q, scene' = scene, at'[q] = at[q], turn'[q] = turn[q], spent'[q] = spent[q],
         calls'[q] = calls[q], KeptOf(q)' = KeptOf(q)
  PROVE  LoopGoes(q)
<1>1. StageOf(q)' = StageOf(q)
  BY DEF StageOf
<1>. QED
  BY <1>1 DEF LoopGoes, Loop!vars

\* A turn: one call of the library's loop, or its end.
LEMMA TurnGoes ==
  ASSUME AgentsInv, NEW r \in Runs, Loops(r), at[r] = "model", scene' = scene,
         \/ LoopStops(r)
         \/ turn[r] # MaxTurns /\ ~(spent[r] >= Budget) /\ (ModelAnswers(r) \/ ModelFails(r)),
         UNCHANGED toolVars
  PROVE  \A q \in Runs : LoopGoes(q)
<1>1. /\ at \in [Runs -> Stages] /\ turn \in [Runs -> 0..MaxTurns]
      /\ spent \in [Runs -> 0..(Budget - 1 + MaxCost)] /\ calls \in [Runs -> Nat]
  BY DEF AgentsInv, TypeOK, LoopTypes
<1>2. MaxTurns \in Nat /\ Budget \in Nat \ {0} /\ MaxCost \in Nat /\ MaxCalls[r] \in Nat
  BY LimitsAssumption DEF Runs
<1>3. \A q \in Runs : KeptOf(q)' = KeptOf(q)
  BY Zenon DEF toolVars, KeptOf
<1>4. StageOf(r) = "model"
  BY StagesAre
<1>5. \A q \in Runs : q # r => LoopGoes(q)
  <2>1. \A q \in Runs : q # r => /\ at'[q] = at[q] /\ turn'[q] = turn[q]
                                 /\ spent'[q] = spent[q] /\ calls'[q] = calls[q]
    BY <1>1 DEF LoopStops, ModelAnswers, ModelFails, Move
  <2>. QED
    BY <1>3, <2>1, Rests
<1>6. CASE LoopStops(r) \/ ModelFails(r)
  <2>1. /\ at'[r] \in {"ended", "error"} /\ turn'[r] \in {turn[r], turn[r] + 1}
        /\ spent'[r] = spent[r] /\ calls'[r] = calls[r]
    BY <1>1, <1>6 DEF LoopStops, ModelFails, Move
  <2>2. StageOf(r)' = "over"
    BY <2>1, StagesWillBe
  <2>3. LoopGoes(r)
    BY <1>3, <1>4, <2>1, <2>2 DEF LoopGoes, Loop!Next, Loop!Over
  <2>. QED
    BY <1>5, <2>3
<1>7. CASE turn[r] # MaxTurns /\ ~(spent[r] >= Budget) /\ ModelAnswers(r)
  <2>1. PICK cost \in 0..MaxCost, n \in 0..MaxCalls[r] :
          /\ turn' = [turn EXCEPT ![r] = turn[r] + 1]
          /\ spent' = [spent EXCEPT ![r] = spent[r] + cost]
          /\ calls' = [calls EXCEPT ![r] = n]
          /\ at' = [at EXCEPT ![r] = IF n = 0 THEN "ended" ELSE "tools"]
    BY <1>7, Zenon DEF ModelAnswers, Move
  <2>2. /\ turn'[r] = turn[r] + 1 /\ spent'[r] = spent[r] + cost /\ calls'[r] = n
        /\ at'[r] = IF n = 0 THEN "ended" ELSE "tools"
    BY <1>1, <2>1
  <2>3. StageOf(r)' = IF n = 0 THEN "over" ELSE "tools"
    BY <2>2, StagesWillBe
  <2>4. turn[r] < MaxTurns /\ spent[r] < Budget
    BY <1>1, <1>2, <1>7
  <2>5. \E c \in 0..MaxCost : spent'[r] = spent[r] + c
    BY <2>2
  <2>6. LoopGoes(r)
    BY <1>3, <1>4, <2>2, <2>3, <2>4, <2>5 DEF LoopGoes, Loop!Next, Loop!Call
  <2>. QED
    BY <1>5, <2>6
<1>. QED
  BY <1>6, <1>7

\* A tool that has run, and kept something for no run but its own.
LEMMA ToolGoes ==
  ASSUME AgentsInv, NEW r \in Runs, Loops(r), at[r] \in {"tools", "await"}, scene' = scene,
         ToolReturns(r), \A q \in Runs : q # r => KeptOf(q)' = KeptOf(q)
  PROVE  \A q \in Runs : LoopGoes(q)
<1>1. /\ at \in [Runs -> Stages] /\ turn \in [Runs -> 0..MaxTurns]
      /\ spent \in [Runs -> 0..(Budget - 1 + MaxCost)] /\ calls \in [Runs -> Nat]
  BY DEF AgentsInv, TypeOK, LoopTypes
<1>2. /\ at' = [at EXCEPT ![r] = IF calls[r] = 1 THEN "model" ELSE "tools"]
      /\ calls' = [calls EXCEPT ![r] = calls[r] - 1] /\ turn' = turn /\ spent' = spent
  BY DEF ToolReturns, Move
<1>3. \A q \in Runs : q # r => LoopGoes(q)
  <2>1. \A q \in Runs : q # r => at'[q] = at[q] /\ calls'[q] = calls[q]
    BY <1>1, <1>2
  <2>. QED
    BY <1>2, <2>1, Rests
<1>4. /\ at'[r] = (IF calls[r] = 1 THEN "model" ELSE "tools") /\ calls'[r] = calls[r] - 1
      /\ calls[r] \in Nat
  BY <1>1, <1>2
<1>5. StageOf(r) = "tools"
  BY StagesAre
<1>6. StageOf(r)' = IF calls'[r] = 0 THEN "model" ELSE "tools"
  <2>1. StageOf(r)' = IF calls[r] = 1 THEN "model" ELSE "tools"
    BY <1>4, StagesWillBe
  <2>. QED
    BY <1>4, <2>1
<1>7. LoopGoes(r)
  BY <1>2, <1>4, <1>5, <1>6 DEF LoopGoes, Loop!Next, Loop!Tool
<1>. QED
  BY <1>3, <1>7

\* One run goes in or out, and no count changes.
LEMMA MoveGoes ==
  ASSUME AgentsInv, NEW r \in Runs, NEW where, Move(r, where),
         UNCHANGED <<given, loopVars, toolVars>>,
         \/ where = "model" /\ at[r] = "request"
         \/ where = "request" /\ at[r] = "idle"
         \/ where = "await" /\ (at[r] = "tools" \/ ~Loops(r))
         \/ where \notin {"idle", "request", "model", "tools", "await"}
  PROVE  \A q \in Runs : LoopGoes(q)
<1>1. scene' = scene
  BY Zenon DEF given
<1>2. at'[r] = where /\ \A q \in Runs : q # r => at'[q] = at[q]
  BY DEF Move, AgentsInv, TypeOK, LoopTypes
<1>3. \A q \in Runs : q # r => StageOf(q)' = StageOf(q)
  BY <1>1, <1>2 DEF StageOf
<1>4. \/ StageOf(r)' = StageOf(r)
      \/ StageOf(r) = "ready" /\ StageOf(r)' = "model"
      \/ StageOf(r)' = "over"
  BY <1>1, <1>2, StagesAre, StagesWillBe
<1>. QED
  BY <1>3, <1>4, Passes

\* A step of each kind.
LEMMA LoopStepGoes ==
  ASSUME AgentsInv, NEW r \in Runs, LoopStep(r)
  PROVE  \A q \in Runs : LoopGoes(q)
<1>1. InLoop(r) /\ given' = given
  BY DEF LoopStep, Elsewhere
<1>2. scene' = scene
  BY <1>1, Zenon DEF given
<1>3. PICK where \in {"model", "tools", "ended", "error", "dead"} : Move(r, where)
  BY DEF LoopStep
<1>4. at'[r] = where
  BY <1>3 DEF Move, AgentsInv, TypeOK, LoopTypes
<1>5. CASE /\ UNCHANGED <<loopVars, toolVars>>
           /\ at'[r] = "model" => at[r] = "request"
           /\ at'[r] # "tools"
  BY <1>1, <1>3, <1>4, <1>5, MoveGoes
<1>6. CASE /\ Loops(r) /\ at[r] = "model"
           /\ \/ LoopStops(r)
              \/ turn[r] # MaxTurns /\ ~(spent[r] >= Budget) /\ (ModelAnswers(r) \/ ModelFails(r))
           /\ UNCHANGED toolVars
  BY <1>2, <1>6, TurnGoes
<1>7. CASE /\ Loops(r) /\ at[r] \in {"tools", "await"}
           /\ ToolReturns(r)
           /\ \A q \in Runs : q # r => KeptOf(q)' = KeptOf(q)
  BY <1>2, <1>7, ToolGoes
<1>. QED
  BY <1>1, <1>5, <1>6, <1>7 DEF InLoop

LEMMA KindsGo ==
  ASSUME AgentsInv, DispatchedOnce, Kinds
  PROVE  \A q \in Runs : LoopGoes(q)
<1>. USE RunsAre
<1>1. ASSUME NEW r \in Runs, AnswerStep(r)
      PROVE  \A q \in Runs : LoopGoes(q)
  <2>1. UNCHANGED <<given, loopVars, toolVars>> /\ Move(r, "answered")
    BY <1>1, Zenon DEF AnswerStep
  <2>. QED
    BY <2>1, MoveGoes
<1>2. CASE DispatchStep
  <2>1. UNCHANGED <<given, loopVars, toolVars>> /\ (Move(Lead, "await") \/ Move(Lead, "ended"))
    BY <1>2, Zenon DEF DispatchStep
  <2>2. at[Lead] = "tools" \/ ~Loops(Lead)
    BY <1>2 DEF DispatchStep, Loops
  <2>. QED
    BY <2>1, <2>2, MoveGoes
<1>3. CASE FanoutStep
  <2>1. UNCHANGED <<given, loopVars, toolVars>>
    BY <1>3, Zenon DEF FanoutStep
  <2>2. PICK i \in Subs : Take(i) \/ Settle(i) \/ Abort(i)
    BY <1>3, Zenon DEF FanoutStep
  <2>3. CASE at' = at
    <3>1. scene' = scene
      BY <2>1, Zenon DEF given
    <3>2. \A q \in Runs : StageOf(q)' = StageOf(q)
      BY <2>3, <3>1 DEF StageOf
    <3>. QED
      BY <2>1, <3>2, Passes
  <2>4. CASE Take(i) /\ at' = [at EXCEPT ![i] = "request"]
    <3>1. at[i] = "idle"
      BY <2>4 DEF Take, DispatchedOnce
    <3>2. Move(i, "request")
      BY <2>4 DEF Move
    <3>. QED
      BY <2>1, <3>1, <3>2, MoveGoes
  <2>. QED
    BY <2>2, <2>3, <2>4 DEF Take, Settle, Abort
<1>4. CASE PromotionCollect \/ AuditReported \/ AuditCommit \/ AuditPost
  <2>1. UNCHANGED <<given, loopVars, toolVars>>
    BY <1>4, Zenon DEF PromotionCollect, AuditReported, AuditCommit, AuditPost
  <2>2. \E where \in {"ended", "reported", "posting", "answered"} : Move(Lead, where)
    BY <1>4 DEF PromotionCollect, AuditReported, AuditCommit, AuditPost
  <2>. QED
    BY <2>1, <2>2, MoveGoes
<1>. QED
  BY <1>1, <1>2, <1>3, <1>4, LoopStepGoes, Zenon DEF Kinds

\* Every agent's loop takes the steps of the library's, from its beginning: it calls
\* the model only within its limits, runs the tool calls of a turn before it calls
\* again, and does not start twice (gemini_loop.mjs and the copies the steps inline).
THEOREM LoopsCorrect == Spec => LoopsImplementToolLoop
<1>1. Init => DispatchedOnce
  BY RunsAre DEF Init, DispatchedOnce
<1>2. Init => \A r \in Runs : Loop(r)!Init
  <2>. SUFFICES ASSUME Init, NEW r \in Runs
                PROVE  StageOf(r) = "ready" /\ turn[r] = 0 /\ spent[r] = 0 /\ calls[r] = 0
    BY DEF Loop!Init
  <2>1. at[r] \in {"idle", "request"} /\ turn[r] = 0 /\ spent[r] = 0 /\ calls[r] = 0
    BY DEF Init
  <2>. QED
    BY <2>1 DEF StageOf
<1>3. AgentsInv /\ DispatchedOnce /\ [Next]_vars => DispatchedOnce'
  BY OnceKeeps
<1>4. ASSUME AgentsInv, DispatchedOnce, [Next]_vars
      PROVE  [\A r \in Runs : UNCHANGED Loop(r)!vars \/ Loop(r)!Next]_vars
  <2>1. CASE Next
    BY <1>4, <2>1, StepKinds, KindsGo DEF LoopGoes
  <2>2. CASE UNCHANGED vars
    BY <2>2
  <2>. QED
    BY <1>4, <2>1, <2>2
<1>. QED
  BY <1>1, <1>2, <1>3, <1>4, Invariance, PTL DEF Spec, LoopsImplementToolLoop
=============================================================================

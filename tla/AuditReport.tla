---------------------------- MODULE AuditReport ----------------------------
(***************************************************************************)
(* How the audit agent grades what its queries read and folds the grades   *)
(* into the report (audit-agent-p_xMC9nm3/run_audit_agent).  The model     *)
(* sees the same figures, but these four grades do not depend on it.       *)
(*                                                                         *)
(* A reading is a small integer; Unread stands for a row that is missing,  *)
(* a NULL, and an age from the future.  A report is its overall status and *)
(* the areas its Slack text has a line for.                                *)
(***************************************************************************)
EXTENDS Integers

CONSTANT Tiers  \* tiers the catalog has ever had

Statuses == {"GREEN", "YELLOW", "RED"}
STATUS_RANK == [GREEN |-> 0, YELLOW |-> 1, RED |-> 2]

Unread == -1

\* catalog: days since a tier was seen; tiktok: hours since a row was embedded;
\* stuck: editorial candidates; overdue: trends.  One value beyond each threshold.
Readings ==
  [catalog : UNION {[known -> {Unread, 3, 7, 8}] : known \in SUBSET Tiers},
   tiktok : {Unread, 25, 26},
   stuck : {Unread, 0, 1},
   overdue : {Unread, 0, 1}]

\* The worse of two.
escalateStatus(a, b) == IF STATUS_RANK[b] > STATUS_RANK[a] THEN b ELSE a

gradeDaysSinceLastSeen(days) ==
  IF days < 0 \/ days > 7 THEN "RED" ELSE IF days > 3 THEN "YELLOW" ELSE "GREEN"

\* The worst tier; a catalog without any tier was never seeded.
gradeCatalogFreshness(catalog) ==
  LET grades == {gradeDaysSinceLastSeen(catalog[t]) : t \in DOMAIN catalog} IN
  IF grades = {} \/ "RED" \in grades THEN "RED"
  ELSE IF "YELLOW" \in grades THEN "YELLOW" ELSE "GREEN"

gradeTiktokFreshness(hours) == IF hours >= 0 /\ hours <= 25 THEN "GREEN" ELSE "RED"
gradeEditorialCounts(stuck) == IF stuck = 0 THEN "GREEN" ELSE "RED"
gradeLifecycleOverdue(overdue) == IF overdue = 0 THEN "GREEN" ELSE "YELLOW"

Line(report, area, status) == IF status = "GREEN" THEN report.lines ELSE report.lines \cup {area}

applyCatalogFinding(report, catalog) ==
  LET status == gradeCatalogFreshness(catalog) IN
  [overall |-> escalateStatus(report.overall, status),
   lines |-> Line(report, "catalog", status)]

applyTiktokFinding(report, hours) ==
  LET status == gradeTiktokFreshness(hours) IN
  [overall |-> IF status = "GREEN" THEN report.overall ELSE "RED",
   lines |-> Line(report, "tiktok", status)]

applyEditorialFinding(report, stuck) ==
  LET status == gradeEditorialCounts(stuck) IN
  [overall |-> IF status = "GREEN" THEN report.overall ELSE "RED",
   lines |-> Line(report, "editorial", status)]

applyLifecycleOverdueFinding(report, overdue) ==
  LET status == gradeLifecycleOverdue(overdue) IN
  [overall |-> IF status = "GREEN" \/ report.overall = "RED" THEN report.overall ELSE "YELLOW",
   lines |-> Line(report, "lifecycle", status)]

\* What the audit agent reports, given the status its model proposed or "none".
Report(proposed, r) ==
  LET base == [overall |-> IF proposed = "none" THEN "YELLOW" ELSE proposed,
               lines |-> IF proposed = "none" THEN {"audit-agent"} ELSE {"model"}]
  IN  applyLifecycleOverdueFinding(
        applyEditorialFinding(
          applyTiktokFinding(applyCatalogFinding(base, r.catalog), r.tiktok),
          r.stuck),
        r.overdue)

Areas == {"catalog", "tiktok", "editorial", "lifecycle"}

\* The grade of an area.
Grade(area, r) ==
  CASE area = "catalog" -> gradeCatalogFreshness(r.catalog)
    [] area = "tiktok" -> gradeTiktokFreshness(r.tiktok)
    [] area = "editorial" -> gradeEditorialCounts(r.stuck)
    [] OTHER -> gradeLifecycleOverdue(r.overdue)

\* Every figure is there and within its limit.
Healthy(r) ==
  /\ DOMAIN r.catalog # {}
  /\ \A t \in DOMAIN r.catalog : r.catalog[t] \in 0..3
  /\ r.tiktok \in 0..25
  /\ r.stuck = 0 /\ r.overdue = 0

NoReport == [overall |-> "none", lines |-> {}]
Reports == [overall : Statuses, lines : SUBSET (Areas \cup {"audit-agent", "model"})]
=============================================================================

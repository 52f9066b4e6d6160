---------------------------- MODULE AlertsProofs ----------------------------
(* Proofs about Alerts, for any deployments, preferences, destinations,    *)
(* attempts and bounds.                                                    *)
EXTENDS Alerts, FiniteSetTheorems, SequenceTheorems, TLAPS

-----------------------------------------------------------------------------
(* What the sources report.                                                *)

Severities == {"info", "warning", "critical"}

Names == {"security", "reconciler", "operations", "bypass", "quota"}

Reports == [fp : Signals, severity : {"warning", "critical"}]

LEMMA RankValues ==
  Rank("info") = 0 /\ Rank("warning") = 1 /\ Rank("critical") = 2
BY Zenon DEF Rank

LEMMA FindingsCases ==
  /\ Findings("security") = SecurityFindings
  /\ Findings("reconciler") = ReconcilerFindings
  /\ Findings("operations") = OperationsFindings
  /\ Findings("bypass") = BypassFindings
  /\ Findings("quota") = QuotaFindings
<1>1. Findings("security") = SecurityFindings
  BY Zenon DEF Findings
<1>2. Findings("reconciler") = ReconcilerFindings
  BY Zenon DEF Findings
<1>3. Findings("operations") = OperationsFindings
  BY Zenon DEF Findings
<1>4. Findings("bypass") = BypassFindings
  BY Zenon DEF Findings
<1>5. Findings("quota") = QuotaFindings
  BY Zenon DEF Findings
<1> QED
  BY <1>1, <1>2, <1>3, <1>4, <1>5

\* The signals that are known.
Serious ==
  { Signal("operations", "not-ready", "critical"),
    Signal("quota", "daily", "warning"),
    Signal("quota", "service", "warning"),
    Signal("quota", "telemetry", "warning"),
    Signal("reconciler", "cooldown-hold", "critical"),
    Signal("reconciler", "last-cycle-failed", "warning"),
    Signal("reconciler", "security-hold", "critical"),
    Signal("security", "enforcement-authority", "critical"),
    Signal("security", "posture-warnings", "warning"),
    Signal("bypass", "device", "critical"),
    Signal("bypass", "device", "warning") }

LEMMA WhenIsSerious ==
  ASSUME NEW c, NEW r \in Serious
  PROVE  When(c, r) \in Seq(Serious)
<1>1. When(c, r) \in {<<>>, <<r>>}
  BY Zenon DEF When
<1>2. <<r>> \in Seq(Serious) /\ <<>> \in Seq(Serious)
  OBVIOUS
<1> QED
  BY <1>1, <1>2, Zenon

LEMMA FoundAreSerious ==
  /\ SecurityFindings \subseteq Seq(Serious)
  /\ ReconcilerFindings \subseteq Seq(Serious)
  /\ OperationsFindings \subseteq Seq(Serious)
  /\ BypassFindings \subseteq Seq(Serious)
  /\ QuotaFindings \subseteq Seq(Serious)
<1>c. ASSUME NEW a \in Seq(Serious), NEW b \in Seq(Serious) PROVE a \o b \in Seq(Serious)
  BY ConcatProperties
<1>1. ASSUME NEW f \in SecurityFindings PROVE f \in Seq(Serious)
  <2>1. PICK report \in [failed : BOOLEAN, warned : BOOLEAN] :
          f = When(report.failed, Signal("security", "enforcement-authority", "critical"))
                \o When(report.warned, Signal("security", "posture-warnings", "warning"))
    BY Zenon DEF SecurityFindings
  <2>2. When(report.failed, Signal("security", "enforcement-authority", "critical")) \in Seq(Serious)
    <3>1. Signal("security", "enforcement-authority", "critical") \in Serious
      BY DEF Serious
    <3> QED
      BY <3>1, WhenIsSerious, Zenon
  <2>3. When(report.warned, Signal("security", "posture-warnings", "warning")) \in Seq(Serious)
    <3>1. Signal("security", "posture-warnings", "warning") \in Serious
      BY DEF Serious
    <3> QED
      BY <3>1, WhenIsSerious, Zenon
  <2> QED
    BY <2>1, <2>2, <2>3, <1>c, Zenon
<1>2. ASSUME NEW f \in ReconcilerFindings PROVE f \in Seq(Serious)
  <2>1. PICK report \in [hold : BOOLEAN, last : {"ok", "security_hold", "failed"}] :
          f = When(report.hold, Signal("reconciler", "cooldown-hold", "critical"))
                \o When(report.last = "security_hold", Signal("reconciler", "security-hold", "critical"))
                \o When(report.last = "failed", Signal("reconciler", "last-cycle-failed", "warning"))
    BY Zenon DEF ReconcilerFindings
  <2>2. When(report.hold, Signal("reconciler", "cooldown-hold", "critical")) \in Seq(Serious)
    <3>1. Signal("reconciler", "cooldown-hold", "critical") \in Serious
      BY DEF Serious
    <3> QED
      BY <3>1, WhenIsSerious, Zenon
  <2>3. When(report.last = "security_hold", Signal("reconciler", "security-hold", "critical")) \in Seq(Serious)
    <3>1. Signal("reconciler", "security-hold", "critical") \in Serious
      BY DEF Serious
    <3> QED
      BY <3>1, WhenIsSerious, Zenon
  <2>4. When(report.last = "failed", Signal("reconciler", "last-cycle-failed", "warning")) \in Seq(Serious)
    <3>1. Signal("reconciler", "last-cycle-failed", "warning") \in Serious
      BY DEF Serious
    <3> QED
      BY <3>1, WhenIsSerious, Zenon
  <2> QED
    BY <2>1, <2>2, <2>3, <2>4, <1>c, Zenon
<1>3. ASSUME NEW f \in OperationsFindings PROVE f \in Seq(Serious)
  <2>1. PICK issues \in ReadinessIssues :
          f = When(issues \ {"RouterOS enforcement posture"} # {}, Signal("operations", "not-ready", "critical"))
    BY Zenon DEF OperationsFindings
  <2>2. Signal("operations", "not-ready", "critical") \in Serious
    BY DEF Serious
  <2> QED
    BY <2>1, <2>2, WhenIsSerious, Zenon
<1>4. ASSUME NEW f \in BypassFindings PROVE f \in Seq(Serious)
  <2>1. PICK risk \in {"clear", "elevated", "high"} :
          f = When(risk # "clear", Signal("bypass", "device", IF risk = "high" THEN "critical" ELSE "warning"))
    BY Zenon DEF BypassFindings
  <2> DEFINE grade == IF risk = "high" THEN "critical" ELSE "warning"
  <2>2. grade \in {"warning", "critical"} /\ f = When(risk # "clear", Signal("bypass", "device", grade))
    BY <2>1, Zenon
  <2> HIDE DEF grade
  <2>3. Signal("bypass", "device", grade) \in Serious
    BY <2>2 DEF Serious
  <2> QED
    BY <2>2, <2>3, WhenIsSerious, Zenon
<1>5. ASSUME NEW f \in QuotaFindings PROVE f \in Seq(Serious)
  <2>1. PICK report \in [available : BOOLEAN, daily : BOOLEAN, service : BOOLEAN] :
          f = When(~report.available, Signal("quota", "telemetry", "warning"))
                \o When(report.available /\ report.daily, Signal("quota", "daily", "warning"))
                \o When(report.available /\ report.service, Signal("quota", "service", "warning"))
    BY Zenon DEF QuotaFindings
  <2>2. When(~report.available, Signal("quota", "telemetry", "warning")) \in Seq(Serious)
    <3>1. Signal("quota", "telemetry", "warning") \in Serious
      BY DEF Serious
    <3> QED
      BY <3>1, WhenIsSerious, Zenon
  <2>3. When(report.available /\ report.daily, Signal("quota", "daily", "warning")) \in Seq(Serious)
    <3>1. Signal("quota", "daily", "warning") \in Serious
      BY DEF Serious
    <3> QED
      BY <3>1, WhenIsSerious, Zenon
  <2>4. When(report.available /\ report.service, Signal("quota", "service", "warning")) \in Seq(Serious)
    <3>1. Signal("quota", "service", "warning") \in Serious
      BY DEF Serious
    <3> QED
      BY <3>1, WhenIsSerious, Zenon
  <2> QED
    BY <2>1, <2>2, <2>3, <2>4, <1>c, Zenon
<1> QED
  BY <1>1, <1>2, <1>3, <1>4, <1>5

LEMMA FoundAreReports ==
  ASSUME NEW source \in Names, NEW found \in Findings(source)
  PROVE  found \in Seq(Reports)
<1> DEFINE All == SecurityFindings \cup ReconcilerFindings \cup OperationsFindings
                    \cup BypassFindings \cup QuotaFindings
<1>1. found \in All
  BY FindingsCases DEF Names
<1>2. found \in Seq(Serious)
  BY <1>1, FoundAreSerious
<1>3. \A i \in 1 .. Len(found) : found[i] \in Serious
  BY <1>2, ElementOfSeq
<1>4. \A i \in DOMAIN found : found[i].fp \in Signals
  BY <1>1 DEF Signals
<1>5. \A r \in Serious : r.fp \in Signals => r \in Reports
  BY DEF Serious, Signal, Reports
<1>6. DOMAIN found = 1 .. Len(found) /\ found \in [1 .. Len(found) -> Serious] /\ Len(found) \in Nat
  BY <1>2, LenProperties
<1>7. found \in [1 .. Len(found) -> Reports]
  BY <1>3, <1>4, <1>5, <1>6
<1> QED
  BY <1>6, <1>7, SeqDef

LEMMA TelemetryIsReport ==
  TelemetrySignal \in Reports /\ <<TelemetrySignal>> \in Seq(Reports)
<1>1. TelemetrySignal.fp \in Signals
  BY DEF Signals
<1>2. TelemetrySignal \in Reports
  BY <1>1 DEF TelemetrySignal, Signal, Reports
<1> QED
  BY <1>2

-----------------------------------------------------------------------------
(* An incident and its notification.                                       *)

RowType ==
  [status : {"none", "open", "acknowledged", "resolved"}, severity : Severities, suppress : BOOLEAN]

NoteType ==
  [state : {"none", "unread", "read", "acknowledged", "dismissed"}, severity : Severities, source : Severities,
   resolved : BOOLEAN, occurrences : Nat, level : {0, 1}]

Grave == {"warning", "critical"}

Untold(note) == note.state = "none" => ~note.resolved /\ note.occurrences = 0 /\ note.level = 0

\* IncidentNotified for one fingerprint, with what makes it inductive: without
\* an incident nobody is asked for attention, and what is reported is grave.
Paired(row, note) ==
  /\ row.status # "none" =>
       /\ note.state # "none"
       /\ note.resolved <=> row.status = "resolved"
       /\ note.source = row.severity
  /\ row.status = "none" => note.state = "none" \/ note.resolved
  /\ Untold(note)
  /\ note.state # "none" => note.source \in Grave
  /\ note.level = 1 /\ ~note.resolved => note.severity = "critical"

LEMMA ActionCases ==
  ASSUME NEW row \in RowType, NEW severity \in Grave
  PROVE  /\ row.status = "none" => IncidentAction(row, severity) = "opened"
         /\ row.status = "resolved" /\ row.suppress => IncidentAction(row, severity) = "suppressed"
         /\ row.status = "resolved" /\ ~row.suppress => IncidentAction(row, severity) = "reopened"
         /\ row.status \in {"open", "acknowledged"} /\ row.severity # severity
              => IncidentAction(row, severity) = "severity_changed"
         /\ row.status \in {"open", "acknowledged"} /\ row.severity = severity
              => IncidentAction(row, severity) = "updated"
<1>1. ASSUME row.status = "none" PROVE IncidentAction(row, severity) = "opened"
  BY <1>1, Zenon DEF IncidentAction
<1>2. ASSUME row.status = "resolved", row.suppress PROVE IncidentAction(row, severity) = "suppressed"
  BY <1>2, Zenon DEF IncidentAction
<1>3. ASSUME row.status = "resolved", ~row.suppress PROVE IncidentAction(row, severity) = "reopened"
  BY <1>3, Zenon DEF IncidentAction
<1>4. ASSUME row.status # "none", row.status # "resolved", row.severity # severity
      PROVE  IncidentAction(row, severity) = "severity_changed"
  BY <1>4, Zenon DEF IncidentAction
<1>5. ASSUME row.status # "none", row.status # "resolved", row.severity = severity
      PROVE  IncidentAction(row, severity) = "updated"
  BY <1>5, Zenon DEF IncidentAction
<1> QED
  BY <1>1, <1>2, <1>3, <1>4, <1>5

LEMMA ReportedEffect ==
  ASSUME NEW row \in RowType, NEW severity \in Grave
  PROVE  LET r == Reported(row, severity)
         IN  /\ r \in RowType /\ r.severity = severity /\ r.suppress = row.suppress
             /\ row.status = "none" => r.status = "open"
             /\ row.status = "resolved" /\ row.suppress => r.status = "resolved"
             /\ row.status = "resolved" /\ ~row.suppress => r.status = "open"
             /\ row.status \in {"open", "acknowledged"} => r.status = row.status
BY ActionCases DEF Reported, RowType, Severities, Grave

LEMMA AttentionCases ==
  ASSUME NEW note \in NoteType, NEW severity \in Grave, NEW attention \in BOOLEAN
  PROVE  LET a == AttentionSeverity(note, severity, attention)
         IN  /\ a \in Severities
             /\ note.level = 1 /\ ~Reopens(note, attention) /\ note.severity = "critical"
                /\ note.source \in Grave => a = "critical"
BY RankValues DEF AttentionSeverity, Worse, Reopens, Escalates, NoteType, Severities, Grave

LEMMA UpsertedOld ==
  ASSUME NEW note \in NoteType, note.state # "none", NEW severity \in Grave,
         NEW attention \in BOOLEAN, NEW increment \in BOOLEAN
  PROVE  LET n == Upserted(note, severity, attention, increment)
         IN  /\ n \in NoteType
             /\ n.state # "none"
             /\ Reopens(note, attention) \/ (attention /\ Escalates(note, severity)) => n.state = "unread"
             /\ n.severity = AttentionSeverity(note, severity, attention)
             /\ n.source = severity
             /\ n.resolved = (note.resolved /\ ~Reopens(note, attention))
             /\ n.occurrences = IF increment THEN note.occurrences + 1 ELSE note.occurrences
             /\ n.level = IF Reopens(note, attention) THEN 0 ELSE note.level
<1>1. AttentionSeverity(note, severity, attention) \in Severities
  BY AttentionCases
<1> QED
  BY <1>1 DEF Upserted, NoteType, Reopens, Severities, Grave

\* What one report makes of an incident and its notification.
LEMMA SyncEffect ==
  ASSUME NEW row \in RowType, NEW note \in NoteType, Paired(row, note), NEW severity \in Grave
  PROVE  LET action == IncidentAction(row, severity)
             r == Reported(row, severity)
             n == Synced(note, r, action)
         IN  /\ n \in NoteType
             /\ Paired(r, n)
             /\ n.occurrences >= note.occurrences
             /\ n.level <= note.level
             /\ n.level # note.level => n.occurrences > note.occurrences
             /\ SyncRaises(note, r, action) =>
                  n.state = "unread" /\ ~n.resolved /\ n.occurrences = note.occurrences + 1
             /\ r.status = "open" /\ (row.status # "open" \/ Rank(r.severity) > Rank(row.severity))
                  => SyncRaises(note, r, action)
<1> DEFINE action == IncidentAction(row, severity)
           r == Reported(row, severity)
           n == Synced(note, r, action)
           creates == note.state = "none" /\ r.status # "resolved"
           news == creates \/ CountsAsOccurrence(action)
           attention == news /\ r.status = "open"
           increment == CountsAsOccurrence(action)
           written == Upserted(note, r.severity, attention, increment)
<1>1. /\ r \in RowType /\ r.severity = severity /\ r.suppress = row.suppress
      /\ row.status = "none" => r.status = "open"
      /\ row.status = "resolved" /\ row.suppress => r.status = "resolved"
      /\ row.status = "resolved" /\ ~row.suppress => r.status = "open"
      /\ row.status \in {"open", "acknowledged"} => r.status = row.status
  BY ReportedEffect
<1>2. n = IF ~news /\ note.state = "none" THEN note
          ELSE IF creates /\ r.status = "acknowledged" THEN WithState(written, "acknowledged")
          ELSE written
  BY DEF Synced
<1>3. attention \in BOOLEAN /\ increment \in BOOLEAN /\ r.severity \in Grave
  BY <1>1 DEF CountsAsOccurrence
<1>4. /\ row.status = "none" => action = "opened"
      /\ row.status = "resolved" /\ row.suppress => action = "suppressed"
      /\ row.status = "resolved" /\ ~row.suppress => action = "reopened"
      /\ row.status \in {"open", "acknowledged"} /\ row.severity # severity => action = "severity_changed"
      /\ row.status \in {"open", "acknowledged"} /\ row.severity = severity => action = "updated"
  BY ActionCases
<1>5. CASE row.status = "none" /\ note.state = "none"
  <2>0. note.state = "none"
    BY <1>5
  <2>1. r.status = "open" /\ action = "opened" /\ increment /\ attention /\ news
    BY <1>1, <1>4, <1>5 DEF CountsAsOccurrence, RowType
  <2>2. n = written
    BY <1>2, <2>1 DEF RowType
  <2> HIDE DEF action, r, n, attention, increment, written, news, creates
  <2>3. /\ written \in NoteType
        /\ written.state = "unread" /\ written.severity = r.severity /\ written.source = r.severity
        /\ written.resolved = FALSE /\ written.occurrences = 1 /\ written.level = 0
    BY <1>3, <2>0 DEF written, Upserted, NoNote, NoteType, Severities, Grave
  <2> USE DEF Paired, Untold, SyncRaises, Raises, CountsAsOccurrence, Reopens, Escalates
  <2>9. n \in NoteType /\ Paired(r, n)
    BY <1>1, <1>5, <2>1, <2>2, <2>3 DEF NoteType, RowType, Grave
  <2>10. n.occurrences >= note.occurrences /\ n.level <= note.level
    BY <1>1, <1>5, <2>1, <2>2, <2>3 DEF NoteType, RowType
  <2>11. n.level # note.level => n.occurrences > note.occurrences
    BY <1>1, <1>5, <2>1, <2>2, <2>3 DEF NoteType, RowType
  <2>12. SyncRaises(note, r, action) =>
           n.state = "unread" /\ ~n.resolved /\ n.occurrences = note.occurrences + 1
    BY <1>1, <1>4, <1>5, <2>1, <2>2, <2>3 DEF NoteType, RowType
  <2>13. r.status = "open" /\ (row.status # "open" \/ Rank(r.severity) > Rank(row.severity))
           => SyncRaises(note, r, action)
    BY <1>1, <1>4, <1>5, <2>1, <2>2, <2>3 DEF NoteType, RowType
  <2> QED
    BY <2>9, <2>10, <2>11, <2>12, <2>13 DEF action, r, n
<1>6. CASE row.status = "none" /\ note.state # "none"
  <2>0. note.state # "none"
    BY <1>6 DEF Paired
  <2>1. r.status = "open" /\ action = "opened" /\ increment /\ attention /\ news
    BY <1>1, <1>4, <1>6 DEF CountsAsOccurrence, RowType
  <2>2. n = written
    BY <1>2, <2>0
  <2> HIDE DEF action, r, n, attention, increment, written, news, creates
  <2>3. /\ written \in NoteType
        /\ written.state # "none"
        /\ Reopens(note, attention) \/ (attention /\ Escalates(note, r.severity)) => written.state = "unread"
        /\ written.severity = AttentionSeverity(note, r.severity, attention)
        /\ written.source = r.severity
        /\ written.resolved = (note.resolved /\ ~Reopens(note, attention))
        /\ written.occurrences = IF increment THEN note.occurrences + 1 ELSE note.occurrences
        /\ written.level = IF Reopens(note, attention) THEN 0 ELSE note.level
    BY <1>3, <1>6, <2>0, UpsertedOld DEF written
  <2>4. /\ note.level = 1 /\ ~Reopens(note, attention) /\ note.severity = "critical" /\ note.source \in Grave
             => AttentionSeverity(note, r.severity, attention) = "critical"
    BY <1>3, AttentionCases
  <2> USE DEF Paired, Untold, SyncRaises, Raises, CountsAsOccurrence, Reopens, Escalates
  <2>5. n.resolved = FALSE /\ n.level = 0
    BY <1>6, <2>0, <2>1, <2>2, <2>3 DEF NoteType
  <2>9. n \in NoteType /\ Paired(r, n)
    BY <1>1, <1>3, <2>5, <2>1, <2>2, <2>3 DEF NoteType, RowType, Grave
  <2>10. n.occurrences >= note.occurrences /\ n.level <= note.level
    BY <1>1, <1>6, <2>0, <2>1, <2>2, <2>3, <2>4 DEF NoteType, RowType
  <2>11. n.level # note.level => n.occurrences > note.occurrences
    BY <1>1, <1>6, <2>0, <2>1, <2>2, <2>3, <2>4 DEF NoteType, RowType
  <2>12. SyncRaises(note, r, action) =>
           n.state = "unread" /\ ~n.resolved /\ n.occurrences = note.occurrences + 1
    BY <1>1, <1>4, <1>6, <2>0, <2>1, <2>2, <2>3, <2>4 DEF NoteType, RowType
  <2>13. r.status = "open" /\ (row.status # "open" \/ Rank(r.severity) > Rank(row.severity))
           => SyncRaises(note, r, action)
    BY <1>1, <1>4, <1>6, <2>0, <2>1, <2>2, <2>3, <2>4 DEF NoteType, RowType
  <2> QED
    BY <2>9, <2>10, <2>11, <2>12, <2>13 DEF action, r, n
<1>7. CASE row.status = "resolved" /\ row.suppress
  <2>0. note.state # "none"
    BY <1>7 DEF Paired
  <2>1. action = "suppressed" /\ r.status = "resolved" /\ increment = FALSE /\ attention = FALSE
    BY <1>1, <1>4, <1>7, <2>0 DEF CountsAsOccurrence, RowType
  <2>2. n = written
    BY <1>2, <2>0
  <2> HIDE DEF action, r, n, attention, increment, written, news, creates
  <2>3. /\ written \in NoteType
        /\ written.state # "none"
        /\ Reopens(note, attention) \/ (attention /\ Escalates(note, r.severity)) => written.state = "unread"
        /\ written.severity = AttentionSeverity(note, r.severity, attention)
        /\ written.source = r.severity
        /\ written.resolved = (note.resolved /\ ~Reopens(note, attention))
        /\ written.occurrences = IF increment THEN note.occurrences + 1 ELSE note.occurrences
        /\ written.level = IF Reopens(note, attention) THEN 0 ELSE note.level
    BY <1>3, <1>7, <2>0, UpsertedOld DEF written
  <2>4. /\ note.level = 1 /\ ~Reopens(note, attention) /\ note.severity = "critical" /\ note.source \in Grave
             => AttentionSeverity(note, r.severity, attention) = "critical"
    BY <1>3, AttentionCases
  <2> USE DEF Paired, Untold, SyncRaises, Raises, CountsAsOccurrence, Reopens, Escalates
  <2>9. n \in NoteType /\ Paired(r, n)
    BY <1>1, <1>7, <2>0, <2>1, <2>2, <2>3, <2>4 DEF NoteType, RowType, Grave
  <2>10. n.occurrences >= note.occurrences /\ n.level <= note.level
    BY <1>1, <1>7, <2>0, <2>1, <2>2, <2>3, <2>4 DEF NoteType, RowType
  <2>11. n.level # note.level => n.occurrences > note.occurrences
    BY <1>1, <1>7, <2>0, <2>1, <2>2, <2>3, <2>4 DEF NoteType, RowType
  <2>12. SyncRaises(note, r, action) =>
           n.state = "unread" /\ ~n.resolved /\ n.occurrences = note.occurrences + 1
    BY <1>1, <1>4, <1>7, <2>0, <2>1, <2>2, <2>3, <2>4 DEF NoteType, RowType
  <2>13. r.status = "open" /\ (row.status # "open" \/ Rank(r.severity) > Rank(row.severity))
           => SyncRaises(note, r, action)
    BY <1>1, <1>4, <1>7, <2>0, <2>1, <2>2, <2>3, <2>4 DEF NoteType, RowType
  <2> QED
    BY <2>9, <2>10, <2>11, <2>12, <2>13 DEF action, r, n
<1>8. CASE row.status = "resolved" /\ ~row.suppress
  <2>0. note.state # "none"
    BY <1>8 DEF Paired
  <2>1. r.status = "open" /\ action = "reopened" /\ increment /\ attention /\ news
    BY <1>1, <1>4, <1>8 DEF CountsAsOccurrence, RowType
  <2>2. n = written
    BY <1>2, <2>0
  <2> HIDE DEF action, r, n, attention, increment, written, news, creates
  <2>3. /\ written \in NoteType
        /\ written.state # "none"
        /\ Reopens(note, attention) \/ (attention /\ Escalates(note, r.severity)) => written.state = "unread"
        /\ written.severity = AttentionSeverity(note, r.severity, attention)
        /\ written.source = r.severity
        /\ written.resolved = (note.resolved /\ ~Reopens(note, attention))
        /\ written.occurrences = IF increment THEN note.occurrences + 1 ELSE note.occurrences
        /\ written.level = IF Reopens(note, attention) THEN 0 ELSE note.level
    BY <1>3, <1>8, <2>0, UpsertedOld DEF written
  <2>4. /\ note.level = 1 /\ ~Reopens(note, attention) /\ note.severity = "critical" /\ note.source \in Grave
             => AttentionSeverity(note, r.severity, attention) = "critical"
    BY <1>3, AttentionCases
  <2> USE DEF Paired, Untold, SyncRaises, Raises, CountsAsOccurrence, Reopens, Escalates
  <2>9. n \in NoteType /\ Paired(r, n)
    BY <1>1, <1>8, <2>0, <2>1, <2>2, <2>3, <2>4 DEF NoteType, RowType, Grave
  <2>10. n.occurrences >= note.occurrences /\ n.level <= note.level
    BY <1>1, <1>8, <2>0, <2>1, <2>2, <2>3, <2>4 DEF NoteType, RowType
  <2>11. n.level # note.level => n.occurrences > note.occurrences
    BY <1>1, <1>8, <2>0, <2>1, <2>2, <2>3, <2>4 DEF NoteType, RowType
  <2>12. SyncRaises(note, r, action) =>
           n.state = "unread" /\ ~n.resolved /\ n.occurrences = note.occurrences + 1
    BY <1>1, <1>4, <1>8, <2>0, <2>1, <2>2, <2>3, <2>4 DEF NoteType, RowType
  <2>13. r.status = "open" /\ (row.status # "open" \/ Rank(r.severity) > Rank(row.severity))
           => SyncRaises(note, r, action)
    BY <1>1, <1>4, <1>8, <2>0, <2>1, <2>2, <2>3, <2>4 DEF NoteType, RowType
  <2> QED
    BY <2>9, <2>10, <2>11, <2>12, <2>13 DEF action, r, n
<1>9. CASE row.status \in {"open", "acknowledged"} /\ row.severity # severity
  <2>0. note.state # "none"
    BY <1>9 DEF Paired
  <2>1. action = "severity_changed" /\ r.status = row.status /\ increment = TRUE /\ attention = (r.status = "open")
    BY <1>1, <1>4, <1>9, <2>0 DEF CountsAsOccurrence, RowType
  <2>2. n = written
    BY <1>2, <2>0
  <2> HIDE DEF action, r, n, attention, increment, written, news, creates
  <2>3. /\ written \in NoteType
        /\ written.state # "none"
        /\ Reopens(note, attention) \/ (attention /\ Escalates(note, r.severity)) => written.state = "unread"
        /\ written.severity = AttentionSeverity(note, r.severity, attention)
        /\ written.source = r.severity
        /\ written.resolved = (note.resolved /\ ~Reopens(note, attention))
        /\ written.occurrences = IF increment THEN note.occurrences + 1 ELSE note.occurrences
        /\ written.level = IF Reopens(note, attention) THEN 0 ELSE note.level
    BY <1>3, <1>9, <2>0, UpsertedOld DEF written
  <2>4. /\ note.level = 1 /\ ~Reopens(note, attention) /\ note.severity = "critical" /\ note.source \in Grave
             => AttentionSeverity(note, r.severity, attention) = "critical"
    BY <1>3, AttentionCases
  <2> USE DEF Paired, Untold, SyncRaises, Raises, CountsAsOccurrence, Reopens, Escalates
  <2>9. n \in NoteType /\ Paired(r, n)
    BY <1>1, <1>9, <2>0, <2>1, <2>2, <2>3, <2>4 DEF NoteType, RowType, Grave
  <2>10. n.occurrences >= note.occurrences /\ n.level <= note.level
    BY <1>1, <1>9, <2>0, <2>1, <2>2, <2>3, <2>4 DEF NoteType, RowType
  <2>11. n.level # note.level => n.occurrences > note.occurrences
    BY <1>1, <1>9, <2>0, <2>1, <2>2, <2>3, <2>4 DEF NoteType, RowType
  <2>12. SyncRaises(note, r, action) =>
           n.state = "unread" /\ ~n.resolved /\ n.occurrences = note.occurrences + 1
    BY <1>1, <1>4, <1>9, <2>0, <2>1, <2>2, <2>3, <2>4 DEF NoteType, RowType
  <2>13. r.status = "open" /\ (row.status # "open" \/ Rank(r.severity) > Rank(row.severity))
           => SyncRaises(note, r, action)
    BY <1>1, <1>4, <1>9, <2>0, <2>1, <2>2, <2>3, <2>4 DEF NoteType, RowType
  <2> QED
    BY <2>9, <2>10, <2>11, <2>12, <2>13 DEF action, r, n
<1>10. CASE row.status \in {"open", "acknowledged"} /\ row.severity = severity
  <2>0. note.state # "none"
    BY <1>10 DEF Paired
  <2>1. action = "updated" /\ r.status = row.status /\ increment = FALSE /\ attention = FALSE
    BY <1>1, <1>4, <1>10, <2>0 DEF CountsAsOccurrence, RowType
  <2>2. n = written
    BY <1>2, <2>0
  <2> HIDE DEF action, r, n, attention, increment, written, news, creates
  <2>3. /\ written \in NoteType
        /\ written.state # "none"
        /\ Reopens(note, attention) \/ (attention /\ Escalates(note, r.severity)) => written.state = "unread"
        /\ written.severity = AttentionSeverity(note, r.severity, attention)
        /\ written.source = r.severity
        /\ written.resolved = (note.resolved /\ ~Reopens(note, attention))
        /\ written.occurrences = IF increment THEN note.occurrences + 1 ELSE note.occurrences
        /\ written.level = IF Reopens(note, attention) THEN 0 ELSE note.level
    BY <1>3, <1>10, <2>0, UpsertedOld DEF written
  <2>4. /\ note.level = 1 /\ ~Reopens(note, attention) /\ note.severity = "critical" /\ note.source \in Grave
             => AttentionSeverity(note, r.severity, attention) = "critical"
    BY <1>3, AttentionCases
  <2> USE DEF Paired, Untold, SyncRaises, Raises, CountsAsOccurrence, Reopens, Escalates
  <2>9. n \in NoteType /\ Paired(r, n)
    BY <1>1, <1>10, <2>0, <2>1, <2>2, <2>3, <2>4 DEF NoteType, RowType, Grave
  <2>10. n.occurrences >= note.occurrences /\ n.level <= note.level
    BY <1>1, <1>10, <2>0, <2>1, <2>2, <2>3, <2>4 DEF NoteType, RowType
  <2>11. n.level # note.level => n.occurrences > note.occurrences
    BY <1>1, <1>10, <2>0, <2>1, <2>2, <2>3, <2>4 DEF NoteType, RowType
  <2>12. SyncRaises(note, r, action) =>
           n.state = "unread" /\ ~n.resolved /\ n.occurrences = note.occurrences + 1
    BY <1>1, <1>4, <1>10, <2>0, <2>1, <2>2, <2>3, <2>4 DEF NoteType, RowType
  <2>13. r.status = "open" /\ (row.status # "open" \/ Rank(r.severity) > Rank(row.severity))
           => SyncRaises(note, r, action)
    BY <1>1, <1>4, <1>10, RankValues, <2>0, <2>1, <2>2, <2>3, <2>4 DEF NoteType, RowType, Grave
  <2> QED
    BY <2>9, <2>10, <2>11, <2>12, <2>13 DEF action, r, n
<1> QED
  BY <1>5, <1>6, <1>7, <1>8, <1>9, <1>10 DEF RowType

LEMMA ForgottenPaired ==
  ASSUME NEW row \in RowType, NEW note \in NoteType, Paired(row, note), row.status = "resolved"
  PROVE  NoIncident \in RowType /\ Paired(NoIncident, note)
BY DEF NoIncident, RowType, NoteType, Paired, Untold, Severities

LEMMA ResolvedPaired ==
  ASSUME NEW row \in RowType, NEW note \in NoteType, Paired(row, note), row.status # "none",
         NEW r \in RowType, r.status = "resolved", r.severity = row.severity
  PROVE  ResolvedNote(note) \in NoteType /\ Paired(r, ResolvedNote(note))
BY DEF ResolvedNote, RowType, NoteType, Paired, Untold, Severities

LEMMA MarkedPaired ==
  ASSUME NEW row \in RowType, NEW note \in NoteType, Paired(row, note), note.state # "none",
         NEW state \in {"read", "acknowledged", "dismissed"}
  PROVE  WithState(note, state) \in NoteType /\ Paired(row, WithState(note, state))
BY DEF WithState, RowType, NoteType, Paired, Untold, Severities

LEMMA EscalatedPaired ==
  ASSUME NEW row \in RowType, NEW note \in NoteType, Paired(row, note), note.state # "none"
  PROVE  EscalatedNote(note) \in NoteType /\ Paired(row, EscalatedNote(note))
BY DEF EscalatedNote, RowType, NoteType, Paired, Untold, Severities

LEMMA AcknowledgedPaired ==
  ASSUME NEW row \in RowType, NEW note \in NoteType, Paired(row, note), row.status \in {"open", "acknowledged"}
  PROVE  /\ WithStatus(row, "acknowledged") \in RowType
         /\ Paired(WithStatus(row, "acknowledged"), note)
BY DEF WithStatus, RowType, NoteType, Paired, Untold, Severities

LEMMA SetAsideEffect ==
  ASSUME NEW row \in RowType
  PROVE  /\ SetAside(row) \in RowType /\ SetAside(row).status = "resolved"
         /\ SetAside(row).severity = row.severity /\ SetAside(row).suppress
BY DEF SetAside, RowType

LEMMA ClearedEffect ==
  ASSUME NEW row \in RowType
  PROVE  /\ Cleared(row) \in RowType /\ Cleared(row).severity = row.severity
         /\ row.status \in {"open", "acknowledged"} => Cleared(row).status = "resolved"
         /\ row.status \notin {"open", "acknowledged"} => Cleared(row).status = row.status
BY DEF Cleared, RowType

-----------------------------------------------------------------------------
(* The two tables: every incident has its notification.                    *)

TableInv ==
  /\ incidents \in [Signals -> RowType]
  /\ notes \in [Signals -> NoteType]
  /\ \A f \in Signals : Paired(incidents[f], notes[f])

\* A step changes the two tables one fingerprint at a time.
LEMMA TablesPointwise ==
  ASSUME incidents' = [f \in Signals |-> incidents'[f]], notes' = [f \in Signals |-> notes'[f]],
         \A f \in Signals : incidents'[f] \in RowType /\ notes'[f] \in NoteType /\ Paired(incidents'[f], notes'[f])
  PROVE  TableInv'
BY DEF TableInv

LEMMA UpsertTables ==
  ASSUME TableInv, NEW signal \in Reports, NEW old, NEW cooling, NEW quiet, Upsert(signal, old, cooling, quiet)
  PROVE  LET f == signal.fp
             action == IncidentAction(incidents[f], signal.severity)
             row == Reported(incidents[f], signal.severity)
             note == Synced(notes[f], row, action)
         IN  /\ f \in Signals /\ signal.severity \in Grave
             /\ incidents' = [g \in Signals |-> incidents'[g]] /\ notes' = [g \in Signals |-> notes'[g]]
             /\ incidents'[f] \in {row, NoIncident} /\ notes'[f] = note
             /\ incidents'[f] # row => row.status = "resolved"
             /\ \A g \in Signals \ {f} :
                  /\ incidents'[g] \in {incidents[g], NoIncident} /\ notes'[g] = notes[g]
                  /\ incidents'[g] # incidents[g] => incidents[g].status = "resolved"
<1> DEFINE f == signal.fp
           action == IncidentAction(incidents[f], signal.severity)
           row == Reported(incidents[f], signal.severity)
           note == Synced(notes[f], row, action)
           rows == [incidents EXCEPT ![f] = row]
<1>1. f \in Signals /\ signal.severity \in Grave
  BY DEF Reports, Grave
<1>2. incidents' = Pruned(rows, old) /\ notes' = [notes EXCEPT ![f] = note]
  BY DEF Upsert
<1>3. /\ DOMAIN incidents = Signals /\ DOMAIN notes = Signals
      /\ notes = [g \in Signals |-> notes[g]]
  BY DEF TableInv
<1> HIDE DEF f, action, row, note
<1>4. rows[f] = row /\ \A g \in Signals \ {f} : rows[g] = incidents[g]
  BY <1>1, <1>3
<1> HIDE DEF rows
<1>5. incidents' = [g \in Signals |-> IF g \in old /\ rows[g].status = "resolved" THEN NoIncident ELSE rows[g]]
  BY <1>2 DEF Pruned
<1>6. /\ incidents' = [g \in Signals |-> incidents'[g]]
      /\ \A g \in Signals : incidents'[g] \in {rows[g], NoIncident}
      /\ \A g \in Signals : incidents'[g] # rows[g] => rows[g].status = "resolved"
  BY <1>5
<1>7. /\ notes' = [g \in Signals |-> notes'[g]] /\ notes'[f] = note
      /\ \A g \in Signals \ {f} : notes'[g] = notes[g]
  BY <1>1, <1>2, <1>3
<1> QED
  BY <1>1, <1>4, <1>6, <1>7 DEF f, action, row, note

-----------------------------------------------------------------------------
(* The cycle of the incident monitor.                                      *)

Families == Names \cup {"telemetry"}

ScanType ==
  [at : Nat, todo : Seq(Reports), scanned : SUBSET Families, active : SUBSET Signals,
   read : SUBSET Families, handler : BOOLEAN]

\* The monitor resolves for a family only after it read it.
ScanOK(s) == s \in ScanType /\ s.scanned \subseteq s.read

ScanInv == sources \in Seq(Names) /\ ScanOK(scan)

LEMMA FirstIsOne ==
  ASSUME NEW names \in SUBSET Families, names # {}
  PROVE  FirstOf(names) \in names
<1> DEFINE First(i) == ClearOrder[i] \in names /\ \A j \in DOMAIN ClearOrder : j < i => ClearOrder[j] \notin names
<1>1. /\ DOMAIN ClearOrder = 1 .. 6
      /\ ClearOrder[1] = "bypass" /\ ClearOrder[2] = "operations" /\ ClearOrder[3] = "quota"
      /\ ClearOrder[4] = "reconciler" /\ ClearOrder[5] = "security" /\ ClearOrder[6] = "telemetry"
  BY DEF ClearOrder
<1>2. \E i \in 1 .. 6 : ClearOrder[i] \in names
  <2>1. PICK n \in names : n \in {"security", "reconciler", "operations", "bypass", "quota", "telemetry"}
    BY DEF Families, Names
  <2> QED
    BY <1>1, <2>1
<1>3. \E i \in 1 .. 6 : First(i)
  <2>1. CASE ClearOrder[1] \in names
    BY <1>1, <2>1
  <2>2. CASE ClearOrder[1] \notin names /\ ClearOrder[2] \in names
    BY <1>1, <2>2
  <2>3. CASE ClearOrder[1] \notin names /\ ClearOrder[2] \notin names /\ ClearOrder[3] \in names
    BY <1>1, <2>3
  <2>4. CASE /\ ClearOrder[1] \notin names /\ ClearOrder[2] \notin names /\ ClearOrder[3] \notin names
             /\ ClearOrder[4] \in names
    BY <1>1, <2>4
  <2>5. CASE /\ ClearOrder[1] \notin names /\ ClearOrder[2] \notin names /\ ClearOrder[3] \notin names
             /\ ClearOrder[4] \notin names /\ ClearOrder[5] \in names
    BY <1>1, <2>5
  <2>6. CASE /\ ClearOrder[1] \notin names /\ ClearOrder[2] \notin names /\ ClearOrder[3] \notin names
             /\ ClearOrder[4] \notin names /\ ClearOrder[5] \notin names
    BY <1>1, <1>2, <2>6
  <2> QED
    BY <2>1, <2>2, <2>3, <2>4, <2>5, <2>6
<1>4. \E i \in DOMAIN ClearOrder : First(i)
  BY <1>1, <1>3
<1> DEFINE i == CHOOSE j \in DOMAIN ClearOrder : First(j)
<1>5. First(i)
  BY <1>4, Zenon
<1>6. FirstOf(names) = ClearOrder[i]
  BY Zenon DEF FirstOf
<1> QED
  BY <1>5, <1>6

LEMMA NoScanOK == ScanOK(NoScan)
BY DEF NoScan, ScanOK, ScanType

LEMMA NextSourceOK ==
  ASSUME NEW s, ScanOK(s)
  PROVE  ScanOK(NextSource(s))
<1>1. <<>> \in Seq(Reports) /\ s.at + 1 \in Nat /\ s \in ScanType
  BY EmptySeq DEF ScanOK, ScanType
<1> QED
  BY <1>1 DEF NextSource, ScanOK, ScanType

LEMMA CurrentIsNamed ==
  ASSUME ScanInv, Scanning
  PROVE  Current \in Names
BY ElementOfSeq, LenProperties DEF ScanInv, Scanning, Current

LEMMA FoundOK ==
  ASSUME NEW s, ScanOK(s), NEW found \in Seq(Reports), Current \in Names
  PROVE  ScanOK(Found(s, found))
BY DEF Found, ScanOK, ScanType, Families

LEMMA RecordedOK ==
  ASSUME NEW s, ScanOK(s)
  PROVE  ScanOK(Recorded(s))
<1>1. ScanOK(NextSource(s))
  BY NextSourceOK
<1>2. CASE ~(Current = "bypass" /\ ~s.handler)
  BY <1>1, <1>2 DEF Recorded
<1>3. CASE Current = "bypass" /\ ~s.handler
  <2> DEFINE n == NextSource(s)
  <2>1. Recorded(s) = [n EXCEPT !.scanned = @ \cup {"telemetry"}, !.read = @ \cup {"telemetry"}]
    BY <1>3, Zenon DEF Recorded
  <2>2. ScanOK(n)
    BY <1>1
  <2> HIDE DEF n
  <2> QED
    BY <2>1, <2>2 DEF ScanOK, ScanType, Families
<1> QED
  BY <1>2, <1>3

LEMMA ActiveOK ==
  ASSUME NEW s, ScanOK(s), s.todo # <<>>
  PROVE  ScanOK(Active(s)) /\ Head(s.todo) \in Reports
<1>1. Head(s.todo) \in Reports /\ Tail(s.todo) \in Seq(Reports)
  BY HeadTailProperties DEF ScanOK, ScanType
<1>2. Head(s.todo).fp \in Signals
  BY <1>1 DEF Reports
<1> QED
  BY <1>1, <1>2 DEF Active, ScanOK, ScanType

LEMMA AfterFailureOK ==
  ASSUME NEW s, ScanOK(s)
  PROVE  ScanOK(AfterFailure(s))
BY NextSourceOK, TelemetryIsReport DEF AfterFailure, ScanOK, ScanType

LEMMA ScanKeeps ==
  ASSUME ScanInv, Scan
  PROVE  ScanInv'
<1>1. sources' = sources
  BY DEF Scan, ScanStart, ReadSource, ReadFails, SkipSource, RecordSignal, RecordFails, ClearSource, ScanEnd
<1>2. ScanOK(scan)
  BY DEF ScanInv
<1>3. CASE ScanStart
  <2>1. scan' = [NoScan EXCEPT !.at = 1]
    BY <1>3 DEF ScanStart
  <2> QED
    BY <1>1, <2>1, NoScanOK DEF ScanInv, ScanOK, ScanType
<1>4. CASE ReadSource
  <2>1. PICK found \in Findings(Current) :
          scan' = IF found = <<>> THEN Recorded(Found(scan, found)) ELSE Found(scan, found)
    BY <1>4 DEF ReadSource
  <2>2. Current \in Names
    BY <1>4, CurrentIsNamed DEF ReadSource
  <2>3. found \in Seq(Reports)
    BY <2>2, FoundAreReports
  <2>4. ScanOK(Found(scan, found))
    BY <1>2, <2>2, <2>3, FoundOK
  <2>5. ScanOK(Recorded(Found(scan, found)))
    BY <2>4, RecordedOK
  <2> QED
    BY <1>1, <2>1, <2>4, <2>5 DEF ScanInv
<1>5. CASE ReadFails
  BY <1>1, <1>2, <1>5, AfterFailureOK DEF ReadFails, ScanInv
<1>6. CASE SkipSource
  BY <1>1, <1>2, <1>6, NextSourceOK DEF SkipSource, ScanInv
<1>7. CASE RecordSignal
  <2>1. scan.todo # <<>> /\ scan' \in {Recorded(Active(scan)), Active(scan)}
    BY <1>7 DEF RecordSignal
  <2>2. ScanOK(Active(scan))
    BY <1>2, <2>1, ActiveOK
  <2>3. ScanOK(Recorded(Active(scan)))
    BY <2>2, RecordedOK
  <2> QED
    BY <1>1, <2>1, <2>2, <2>3 DEF ScanInv
<1>8. CASE RecordFails
  <2>1. scan.todo # <<>> /\ scan' \in {NoScan, AfterFailure(Active(scan))}
    BY <1>8 DEF RecordFails
  <2>2. ScanOK(Active(scan))
    BY <1>2, <2>1, ActiveOK
  <2>3. ScanOK(AfterFailure(Active(scan)))
    BY <2>2, AfterFailureOK
  <2> QED
    BY <1>1, <2>1, <2>3, NoScanOK DEF ScanInv
<1>9. CASE ClearSource
  <2>1. PICK source : scan' = [scan EXCEPT !.scanned = @ \ {source}]
    BY <1>9, Zenon DEF ClearSource
  <2> QED
    BY <1>1, <1>2, <2>1 DEF ScanInv, ScanOK, ScanType
<1>10. CASE ScanEnd
  BY <1>1, <1>10, NoScanOK DEF ScanEnd, ScanInv
<1> QED
  BY <1>3, <1>4, <1>5, <1>6, <1>7, <1>8, <1>9, <1>10 DEF Scan

LEMMA RecordTables ==
  ASSUME TableInv, ScanInv, RecordSignal
  PROVE  TableInv'
<1> DEFINE signal == Head(scan.todo)
           f == signal.fp
           action == IncidentAction(incidents[f], signal.severity)
           row == Reported(incidents[f], signal.severity)
           note == Synced(notes[f], row, action)
<1>1. signal \in Reports
  BY ActiveOK DEF ScanInv, RecordSignal
<1>2. PICK old, cooling, quiet : Upsert(signal, old, cooling, quiet)
  BY Zenon DEF RecordSignal
<1>3. /\ f \in Signals /\ signal.severity \in Grave
      /\ incidents' = [g \in Signals |-> incidents'[g]] /\ notes' = [g \in Signals |-> notes'[g]]
      /\ incidents'[f] \in {row, NoIncident} /\ notes'[f] = note
      /\ incidents'[f] # row => row.status = "resolved"
      /\ \A g \in Signals \ {f} :
           /\ incidents'[g] \in {incidents[g], NoIncident} /\ notes'[g] = notes[g]
           /\ incidents'[g] # incidents[g] => incidents[g].status = "resolved"
  BY <1>1, <1>2, UpsertTables
<1>4. \A g \in Signals : incidents[g] \in RowType /\ notes[g] \in NoteType /\ Paired(incidents[g], notes[g])
  BY DEF TableInv
<1>5. row \in RowType /\ note \in NoteType /\ Paired(row, note)
  <2>1. incidents[f] \in RowType /\ notes[f] \in NoteType /\ Paired(incidents[f], notes[f])
    BY <1>3, <1>4
  <2> QED
    BY <1>3, <2>1, ReportedEffect, SyncEffect
<1> HIDE DEF f, action, row, note
<1>6. incidents'[f] \in RowType /\ notes'[f] \in NoteType /\ Paired(incidents'[f], notes'[f])
  BY <1>3, <1>5, ForgottenPaired
<1>7. ASSUME NEW g \in Signals \ {f}
      PROVE  incidents'[g] \in RowType /\ notes'[g] \in NoteType /\ Paired(incidents'[g], notes'[g])
  BY <1>3, <1>4, ForgottenPaired
<1>8. \A g \in Signals : incidents'[g] \in RowType /\ notes'[g] \in NoteType /\ Paired(incidents'[g], notes'[g])
  BY <1>6, <1>7
<1> QED
  BY <1>3, <1>8, TablesPointwise

\* What a cleared family leaves.
LEMMA ClearEffect ==
  ASSUME TableInv, ClearSource
  PROVE  LET source == FirstOf(scan.scanned)
         IN  /\ incidents' = [g \in Signals |-> incidents'[g]] /\ notes' = [g \in Signals |-> notes'[g]]
             /\ \A g \in Signals :
                  /\ incidents'[g] = IF g \in Inactive(source) THEN Cleared(incidents[g]) ELSE incidents[g]
                  /\ notes'[g] = IF g \in Gone(source) THEN ResolvedNote(notes[g]) ELSE notes[g]
<1> DEFINE source == FirstOf(scan.scanned)
<1>1. /\ incidents' = [g \in Signals |-> IF g \in Inactive(source) THEN Cleared(incidents[g]) ELSE incidents[g]]
      /\ notes' = [g \in Signals |-> IF g \in Gone(source) THEN ResolvedNote(notes[g]) ELSE notes[g]]
  BY DEF ClearSource
<1> HIDE DEF source
<1>2. /\ incidents' = [g \in Signals |-> incidents'[g]] /\ notes' = [g \in Signals |-> notes'[g]]
      /\ \A g \in Signals :
           /\ incidents'[g] = IF g \in Inactive(source) THEN Cleared(incidents[g]) ELSE incidents[g]
           /\ notes'[g] = IF g \in Gone(source) THEN ResolvedNote(notes[g]) ELSE notes[g]
  BY <1>1
<1> QED
  BY <1>2 DEF source

LEMMA ClearTables ==
  ASSUME TableInv, ClearSource
  PROVE  TableInv'
<1> DEFINE source == FirstOf(scan.scanned)
<1>1. /\ incidents' = [g \in Signals |-> incidents'[g]] /\ notes' = [g \in Signals |-> notes'[g]]
      /\ \A g \in Signals :
           /\ incidents'[g] = IF g \in Inactive(source) THEN Cleared(incidents[g]) ELSE incidents[g]
           /\ notes'[g] = IF g \in Gone(source) THEN ResolvedNote(notes[g]) ELSE notes[g]
  BY ClearEffect
<1>2. \A g \in Signals : g \in Gone(source) <=>
        g \in Inactive(source) /\ incidents[g].status \in {"open", "acknowledged"}
  BY DEF Gone
<1> HIDE DEF source
<1>3. ASSUME NEW g \in Signals
      PROVE  incidents'[g] \in RowType /\ notes'[g] \in NoteType /\ Paired(incidents'[g], notes'[g])
  <2>1. incidents[g] \in RowType /\ notes[g] \in NoteType /\ Paired(incidents[g], notes[g])
    BY DEF TableInv
  <2>2. CASE g \in Gone(source)
    BY <1>1, <1>2, <2>1, <2>2, ClearedEffect, ResolvedPaired
  <2>3. CASE g \notin Gone(source) /\ g \in Inactive(source)
    <3>1. Cleared(incidents[g]) \in RowType /\ Cleared(incidents[g]).severity = incidents[g].severity
          /\ Cleared(incidents[g]).status = incidents[g].status
      BY <1>2, <2>1, <2>3, ClearedEffect
    <3> QED
      BY <1>1, <2>1, <2>3, <3>1 DEF Paired
  <2>4. CASE g \notin Gone(source) /\ g \notin Inactive(source)
    BY <1>1, <2>1, <2>4
  <2> QED
    BY <2>2, <2>3, <2>4
<1> QED
  BY <1>1, <1>3, TablesPointwise

-----------------------------------------------------------------------------
(* The other steps on the two tables.                                      *)

LEMMA IntelligenceTables ==
  ASSUME TableInv, Intelligence
  PROVE  TableInv' /\ incidents' = incidents
<1>1. incidents' = incidents
  BY DEF Intelligence
<1>2. PICK f \in EscalationEligible : notes' = [notes EXCEPT ![f] = EscalatedNote(@)]
  BY Zenon DEF Intelligence
<1>3. f \in Signals /\ notes[f].state # "none"
  BY DEF EscalationEligible
<1>4. \A g \in Signals : incidents[g] \in RowType /\ notes[g] \in NoteType /\ Paired(incidents[g], notes[g])
  BY DEF TableInv
<1>5. /\ DOMAIN notes = Signals /\ incidents' = [g \in Signals |-> incidents'[g]]
  BY <1>1 DEF TableInv
<1>6. /\ notes' = [g \in Signals |-> notes'[g]] /\ notes'[f] = EscalatedNote(notes[f])
      /\ \A g \in Signals \ {f} : notes'[g] = notes[g]
  BY <1>2, <1>3, <1>5
<1>7. EscalatedNote(notes[f]) \in NoteType /\ Paired(incidents[f], EscalatedNote(notes[f]))
  BY <1>3, <1>4, EscalatedPaired
<1>8. \A g \in Signals : incidents'[g] \in RowType /\ notes'[g] \in NoteType /\ Paired(incidents'[g], notes'[g])
  BY <1>1, <1>4, <1>6, <1>7
<1> QED
  BY <1>1, <1>5, <1>6, <1>8, TablesPointwise

SameCounts(note, n) == n.level = note.level /\ n.occurrences = note.occurrences

LEMMA NotificationTables ==
  ASSUME TableInv, OnNotifications
  PROVE  /\ TableInv' /\ incidents' = incidents
         /\ \A g \in Signals : SameCounts(notes[g], notes'[g])
<1>1. incidents' = incidents
  BY DEF OnNotifications, MarkNotification, MarkAllRead
<1>2. \A g \in Signals : incidents[g] \in RowType /\ notes[g] \in NoteType /\ Paired(incidents[g], notes[g])
  BY DEF TableInv
<1>3. DOMAIN notes = Signals /\ incidents' = [g \in Signals |-> incidents'[g]]
  BY <1>1 DEF TableInv
<1>4. ASSUME NEW f \in Signals, NEW state \in {"read", "acknowledged", "dismissed"}, MarkNotification(f, state)
      PROVE  TableInv' /\ \A g \in Signals : SameCounts(notes[g], notes'[g])
  <2>1. notes[f].state # "none" /\ notes' = [notes EXCEPT ![f] = WithState(@, state)]
    BY <1>4 DEF MarkNotification
  <2>2. /\ notes' = [g \in Signals |-> notes'[g]] /\ notes'[f] = WithState(notes[f], state)
        /\ \A g \in Signals \ {f} : notes'[g] = notes[g]
    BY <1>3, <2>1
  <2>3. WithState(notes[f], state) \in NoteType /\ Paired(incidents[f], WithState(notes[f], state))
    BY <1>2, <2>1, MarkedPaired
  <2>4. \A g \in Signals : incidents'[g] \in RowType /\ notes'[g] \in NoteType /\ Paired(incidents'[g], notes'[g])
    BY <1>1, <1>2, <2>2, <2>3
  <2>5. SameCounts(notes[f], WithState(notes[f], state))
    BY <1>2 DEF SameCounts, WithState, NoteType
  <2>6. \A g \in Signals : SameCounts(notes[g], notes'[g])
    BY <2>2, <2>5 DEF SameCounts
  <2> QED
    BY <1>3, <2>2, <2>4, <2>6, TablesPointwise
<1>5. ASSUME MarkAllRead PROVE TableInv' /\ \A g \in Signals : SameCounts(notes[g], notes'[g])
  <2> DEFINE unread == {f \in Signals : notes[f].state = "unread"}
  <2>1. notes' = [f \in Signals |-> IF f \in unread THEN WithState(notes[f], "read") ELSE notes[f]]
    BY <1>5 DEF MarkAllRead
  <2>2. \A g \in unread : g \in Signals /\ notes[g].state # "none"
    OBVIOUS
  <2> HIDE DEF unread
  <2>3. /\ notes' = [g \in Signals |-> notes'[g]]
        /\ \A g \in Signals : notes'[g] = IF g \in unread THEN WithState(notes[g], "read") ELSE notes[g]
    BY <2>1
  <2>4. ASSUME NEW g \in unread
        PROVE  WithState(notes[g], "read") \in NoteType /\ Paired(incidents[g], WithState(notes[g], "read"))
    BY <1>2, <2>2, MarkedPaired
  <2>5. \A g \in Signals : incidents'[g] \in RowType /\ notes'[g] \in NoteType /\ Paired(incidents'[g], notes'[g])
    BY <1>1, <1>2, <2>3, <2>4
  <2>6. \A g \in Signals : SameCounts(notes[g], WithState(notes[g], "read"))
    BY <1>2 DEF SameCounts, WithState, NoteType
  <2>7. \A g \in Signals : SameCounts(notes[g], notes'[g])
    BY <2>3, <2>6 DEF SameCounts
  <2> QED
    BY <1>3, <2>3, <2>5, <2>7, TablesPointwise
<1> QED
  BY <1>1, <1>4, <1>5 DEF OnNotifications

LEMMA IncidentTables ==
  ASSUME TableInv, OnIncidents
  PROVE  /\ TableInv'
         /\ \A g \in Signals : incidents'[g] # incidents[g] =>
              incidents'[g].status = "acknowledged" \/ incidents'[g].suppress
         /\ \A g \in Signals : incidents'[g].status = "open" => incidents'[g] = incidents[g]
         /\ \A g \in Signals : SameCounts(notes[g], notes'[g])
<1>1. \A g \in Signals : incidents[g] \in RowType /\ notes[g] \in NoteType /\ Paired(incidents[g], notes[g])
  BY DEF TableInv
<1>2. DOMAIN notes = Signals /\ DOMAIN incidents = Signals
  BY DEF TableInv
<1>3. PICK f \in Signals : AcknowledgeIncident(f) \/ ResolveIncident(f)
  BY DEF OnIncidents
<1>4. incidents[f] \in RowType /\ notes[f] \in NoteType /\ Paired(incidents[f], notes[f])
  BY <1>1
<1>5. ASSUME NEW row \in RowType, NEW note \in NoteType, Paired(row, note),
             incidents' = [incidents EXCEPT ![f] = row], notes' = [notes EXCEPT ![f] = note],
             row.status # "open", row.status # "acknowledged" => row.suppress, SameCounts(notes[f], note)
      PROVE  /\ TableInv'
             /\ \A g \in Signals : incidents'[g] # incidents[g] =>
                  incidents'[g].status = "acknowledged" \/ incidents'[g].suppress
             /\ \A g \in Signals : incidents'[g].status = "open" => incidents'[g] = incidents[g]
             /\ \A g \in Signals : SameCounts(notes[g], notes'[g])
  <2>1. /\ incidents' = [g \in Signals |-> incidents'[g]] /\ incidents'[f] = row
        /\ \A g \in Signals \ {f} : incidents'[g] = incidents[g]
    BY <1>2, <1>5
  <2>2. /\ notes' = [g \in Signals |-> notes'[g]] /\ notes'[f] = note
        /\ \A g \in Signals \ {f} : notes'[g] = notes[g]
    BY <1>2, <1>5
  <2>3. \A g \in Signals : incidents'[g] \in RowType /\ notes'[g] \in NoteType /\ Paired(incidents'[g], notes'[g])
    BY <1>1, <1>5, <2>1, <2>2
  <2>4. TableInv'
    BY <2>1, <2>2, <2>3, TablesPointwise
  <2> QED
    BY <1>5, <2>1, <2>2, <2>4 DEF SameCounts
<1>6. CASE AcknowledgeIncident(f)
  <2> DEFINE row == WithStatus(incidents[f], "acknowledged")
             note == WithState(notes[f], "acknowledged")
  <2>1. /\ incidents[f].status \in {"open", "acknowledged"}
        /\ incidents' = [incidents EXCEPT ![f] = row]
        /\ notes' = IF notes[f].state = "none" THEN notes ELSE [notes EXCEPT ![f] = note]
    BY <1>6 DEF AcknowledgeIncident
  <2>2. notes[f].state # "none"
    BY <1>4, <2>1 DEF Paired
  <2>3. row \in RowType /\ Paired(row, notes[f]) /\ row.status = "acknowledged"
    BY <1>4, <2>1, AcknowledgedPaired DEF WithStatus, RowType
  <2>4. note \in NoteType /\ SameCounts(notes[f], note)
    BY <1>4, <2>2, <2>3 DEF WithState, NoteType, SameCounts
  <2>5. Paired(row, note)
    BY <1>4, <2>2, <2>3, MarkedPaired
  <2>6. notes' = [notes EXCEPT ![f] = note]
    BY <2>1, <2>2
  <2> HIDE DEF row, note
  <2> QED
    BY <1>5, <2>1, <2>3, <2>4, <2>5, <2>6
<1>7. CASE ResolveIncident(f)
  <2> DEFINE row == SetAside(incidents[f])
             note == ResolvedNote(notes[f])
  <2>1. /\ incidents[f].status # "none"
        /\ incidents' = [incidents EXCEPT ![f] = row] /\ notes' = [notes EXCEPT ![f] = note]
    BY <1>7 DEF ResolveIncident
  <2>2. row \in RowType /\ row.status = "resolved" /\ row.severity = incidents[f].severity /\ row.suppress
    BY <1>4, SetAsideEffect
  <2>3. note \in NoteType /\ Paired(row, note)
    BY <1>4, <2>1, <2>2, ResolvedPaired
  <2>4. SameCounts(notes[f], note)
    BY <1>4 DEF ResolvedNote, NoteType, SameCounts
  <2> HIDE DEF row, note
  <2> QED
    BY <1>5, <2>1, <2>2, <2>3, <2>4
<1> QED
  BY <1>3, <1>6, <1>7

\* The steps that touch neither table nor the monitor.
Aside == UNCHANGED <<sources, incidents, notes, scan>>

LEMMA StepCases ==
  ASSUME [Next]_vars
  PROVE  \/ Scan
         \/ Intelligence
         \/ OnNotifications
         \/ OnIncidents
         \/ UNCHANGED <<sources, incidents, notes>> /\ scan' = NoScan
         \/ Aside
<1> USE DEF Aside
<1>1. CASE \E c \in {"push", "external"} : Claim(c)
  BY <1>1 DEF Claim
<1>2. CASE SummaryCycle
  BY <1>2 DEF SummaryCycle
<1>3. CASE \E c \in Channels : Deliver(c)
  BY <1>3 DEF Deliver, DropUnwanted, Defer, Send, Complete, CompleteSummary, FailPush, FailExternal, FailGone, RetireWebhook, FailSummary
<1>4. CASE OnDestinations
  BY <1>4 DEF OnDestinations, Subscribe, Unsubscribe, SaveWebhook, PushTest, ExternalTest, EnqueueTests
<1>5. CASE OnSummary
  BY <1>5 DEF OnSummary, SaveSummary, SummaryTest, EnqueueTests, RetrySummary
<1>6. CASE \E p \in Preferences : SavePreferences(p)
  BY <1>6 DEF SavePreferences
<1>7. CASE Crash
  BY <1>7 DEF Crash
<1>8. CASE NextDay
  BY <1>8 DEF NextDay
<1>9. CASE UNCHANGED vars
  BY <1>9 DEF vars
<1> QED
  BY <1>1, <1>2, <1>3, <1>4, <1>5, <1>6, <1>7, <1>8, <1>9 DEF Next, Operator

LEMMA OtherScanSteps ==
  ASSUME Scan, ~RecordSignal, ~ClearSource
  PROVE  UNCHANGED <<incidents, notes>>
BY DEF Scan, ScanStart, ReadSource, ReadFails, SkipSource, RecordFails, ScanEnd

LEMMA TablesInit ==
  ASSUME Init
  PROVE  TableInv /\ ScanInv
<1>1. /\ incidents = [f \in Signals |-> NoIncident] /\ notes = [f \in Signals |-> NoNote] /\ scan = NoScan
  BY DEF Init
<1>2. NoIncident \in RowType /\ NoNote \in NoteType /\ Paired(NoIncident, NoNote)
  BY DEF NoIncident, NoNote, RowType, NoteType, Paired, Untold, Severities
<1>3. TableInv
  BY <1>1, <1>2 DEF TableInv
<1>4. PICK d \in Deployments : sources = d.sources
  BY DEF Init
<1>5. sources \in Seq(Names)
  BY <1>4, AlertsAssumption DEF Deployment, Names
<1> QED
  BY <1>1, <1>3, <1>5, NoScanOK DEF ScanInv

LEMMA TablesNext ==
  ASSUME TableInv, ScanInv, [Next]_vars
  PROVE  TableInv' /\ ScanInv'
<1>1. CASE Scan
  <2>1. ScanInv'
    BY <1>1, ScanKeeps
  <2>2. CASE RecordSignal
    BY <2>1, <2>2, RecordTables
  <2>3. CASE ClearSource
    BY <2>1, <2>3, ClearTables
  <2>4. CASE ~RecordSignal /\ ~ClearSource
    BY <1>1, <2>1, <2>4, OtherScanSteps DEF TableInv
  <2> QED
    BY <2>2, <2>3, <2>4
<1>2. CASE Intelligence
  <2>1. TableInv'
    BY <1>2, IntelligenceTables
  <2> QED
    BY <1>2, <2>1 DEF Intelligence, ScanInv
<1>3. CASE OnNotifications
  <2>1. TableInv'
    BY <1>3, NotificationTables
  <2>2. UNCHANGED <<sources, scan>>
    BY <1>3 DEF OnNotifications, MarkNotification, MarkAllRead
  <2> QED
    BY <2>1, <2>2 DEF ScanInv
<1>4. CASE OnIncidents
  <2>1. TableInv'
    BY <1>4, IncidentTables
  <2>2. UNCHANGED <<sources, scan>>
    BY <1>4 DEF OnIncidents, AcknowledgeIncident, ResolveIncident
  <2> QED
    BY <2>1, <2>2 DEF ScanInv
<1>5. CASE UNCHANGED <<sources, incidents, notes>> /\ scan' = NoScan
  BY <1>5, NoScanOK DEF TableInv, ScanInv
<1>6. CASE Aside
  BY <1>6 DEF Aside, TableInv, ScanInv
<1> QED
  BY <1>1, <1>2, <1>3, <1>4, <1>5, <1>6, StepCases

LEMMA TablesAlways == Spec => [](TableInv /\ ScanInv)
<1>1. Init => TableInv /\ ScanInv
  BY TablesInit
<1>2. (TableInv /\ ScanInv) /\ [Next]_vars => (TableInv /\ ScanInv)'
  BY TablesNext
<1> QED
  BY <1>1, <1>2, PTL DEF Spec

\* Whatever scans, escalations, operators, prunings and crashes interleave, the
\* tables incidents and notifications stay in step.
THEOREM TablesInStep == Spec => []IncidentNotified
<1>1. TableInv => IncidentNotified
  BY DEF TableInv, IncidentNotified, Paired
<1> QED
  BY <1>1, TablesAlways, PTL

\* The false-clear protection: only a family that was read is cleared, and
\* only of what the same cycle did not record.
THEOREM NoFalseClear == Spec => ClearedOnlyIfRead
<1> DEFINE Cleared1 ==
      \A f \in Signals :
        /\ incidents[f].status \in {"open", "acknowledged"}
        /\ incidents'[f].status = "resolved" /\ ~incidents'[f].suppress
        => SourceOf(f) \in scan.read /\ f \notin scan.active
<1>1. ASSUME TableInv, ScanInv, [Next]_vars PROVE Cleared1
  <2>1. \A g \in Signals : incidents[g] \in RowType /\ notes[g] \in NoteType /\ Paired(incidents[g], notes[g])
    BY <1>1 DEF TableInv
  <2>2. ASSUME RecordSignal PROVE Cleared1
    <3> DEFINE signal == Head(scan.todo)
    <3>1. signal \in Reports
      BY <1>1, <2>2, ActiveOK DEF ScanInv, RecordSignal
    <3>2. PICK old, cooling, quiet : Upsert(signal, old, cooling, quiet)
      BY <2>2, Zenon DEF RecordSignal
    <3> HIDE DEF signal
    <3> DEFINE f == signal.fp
               row == Reported(incidents[f], signal.severity)
    <3>3. /\ f \in Signals /\ signal.severity \in Grave
          /\ incidents'[f] \in {row, NoIncident}
          /\ \A g \in Signals \ {f} : incidents'[g] \in {incidents[g], NoIncident}
      BY <1>1, <3>1, <3>2, UpsertTables
    <3>4. incidents[f].status \in {"open", "acknowledged"} => row.status = incidents[f].status
      BY <2>1, <3>3, ReportedEffect
    <3>5. NoIncident.status = "none"
      BY DEF NoIncident
    <3> HIDE DEF f, row
    <3> QED
      BY <3>3, <3>4, <3>5
  <2>3. ASSUME ClearSource PROVE Cleared1
    <3> DEFINE source == FirstOf(scan.scanned)
    <3>1. \A g \in Signals : incidents'[g] = IF g \in Inactive(source) THEN Cleared(incidents[g]) ELSE incidents[g]
      BY <1>1, <2>3, ClearEffect
    <3>2. source \in scan.scanned /\ scan.scanned \subseteq scan.read
      BY <1>1, <2>3, FirstIsOne DEF ClearSource, ScanInv, ScanOK, ScanType
    <3>3. \A g \in Inactive(source) : SourceOf(g) = source /\ g \notin scan.active
      BY DEF Inactive
    <3> HIDE DEF source
    <3> QED
      BY <3>1, <3>2, <3>3
  <2>4. ASSUME OnIncidents PROVE Cleared1
    BY <1>1, <2>1, <2>4, IncidentTables
  <2>5. ASSUME incidents' = incidents PROVE Cleared1
    BY <2>5
  <2>6. CASE Scan
    BY <2>2, <2>3, <2>5, <2>6, OtherScanSteps
  <2>7. CASE Intelligence
    BY <2>5, <2>7 DEF Intelligence
  <2>8. CASE OnNotifications
    BY <1>1, <2>5, <2>8, NotificationTables
  <2> QED
    BY <1>1, <2>4, <2>5, <2>6, <2>7, <2>8, StepCases DEF Aside
<1>2. TableInv /\ ScanInv /\ [Next]_vars => [Cleared1]_vars
  BY <1>1
<1> QED
  BY <1>2, TablesAlways, PTL DEF Spec, ClearedOnlyIfRead

-----------------------------------------------------------------------------
(* The delivery tables.                                                    *)

DeliveryType ==
  [status : {"pending", "sending", "sent", "failed", "cancelled", "suppressed"}, attempts : Nat]

\* An attempt counts from its claim.
DeliveryOK(row) == row \in DeliveryType /\ (row.status = "sending" => row.attempts > 0)

DeliveriesOK(d) ==
  /\ IsFiniteSet(DOMAIN d)
  /\ d = [k \in DOMAIN d |-> d[k]]
  /\ \A k \in DOMAIN d : DeliveryOK(d[k])

\* Final, for a delivery table and a key.
Over(d, k) ==
  \/ d[k].status = "sent"
  \/ ChannelOf(k) # "summary" /\ d[k].status \in {"failed", "cancelled", "suppressed"}

\* Table e keeps every row of d, and every row that is over unless it is free.
Evolves(d, e, free) ==
  /\ DeliveriesOK(e)
  /\ DOMAIN d \subseteq DOMAIN e
  /\ \A k \in DOMAIN d : Over(d, k) /\ k \notin free => e[k] = d[k]

LEMMA EvolvesRefl ==
  ASSUME NEW d, DeliveriesOK(d), NEW free
  PROVE  Evolves(d, d, free)
BY DEF Evolves

LEMMA EvolvesTrans ==
  ASSUME NEW d, NEW e, NEW f, NEW free, Evolves(d, e, free), Evolves(e, f, free)
  PROVE  Evolves(d, f, free)
BY DEF Evolves, Over

LEMMA EvolvesMore ==
  ASSUME NEW d, NEW e, NEW free, NEW more, Evolves(d, e, free), free \subseteq more
  PROVE  Evolves(d, e, more)
BY DEF Evolves

LEMMA InsertEffect ==
  ASSUME NEW d, DeliveriesOK(d), NEW keys, IsFiniteSet(keys), NEW status \in {"pending", "suppressed"}, NEW free
  PROVE  /\ Evolves(d, Insert(d, keys, status), free)
         /\ DOMAIN Insert(d, keys, status) = DOMAIN d \cup keys
<1> DEFINE e == Insert(d, keys, status)
           new == [status |-> status, attempts |-> 0]
<1>1. e = [k \in DOMAIN d \cup keys |-> IF k \in DOMAIN d THEN d[k] ELSE new]
  BY Zenon DEF Insert
<1>2. DeliveryOK(new)
  BY DEF DeliveryOK, DeliveryType
<1>3. IsFiniteSet(DOMAIN d \cup keys)
  BY FS_Union DEF DeliveriesOK
<1> HIDE DEF e, new
<1>4. /\ DOMAIN e = DOMAIN d \cup keys /\ e = [k \in DOMAIN e |-> e[k]]
      /\ \A k \in DOMAIN e : e[k] = IF k \in DOMAIN d THEN d[k] ELSE new
  BY <1>1
<1>5. DeliveriesOK(e)
  BY <1>2, <1>3, <1>4 DEF DeliveriesOK
<1> QED
  BY <1>4, <1>5 DEF e, Evolves

LEMMA WithStatusOK ==
  ASSUME NEW row, DeliveryOK(row), NEW status \in {"pending", "sent", "failed", "cancelled"}
  PROVE  /\ DeliveryOK(WithStatus(row, status))
         /\ WithStatus(row, status).status = status /\ WithStatus(row, status).attempts = row.attempts
BY DEF DeliveryOK, DeliveryType, WithStatus

LEMMA SetStatusEffect ==
  ASSUME NEW d, DeliveriesOK(d), NEW keys, NEW status \in {"pending", "sent", "failed", "cancelled"}, NEW free,
         \A k \in keys \cap DOMAIN d : k \in free \/ d[k].status \in {"pending", "sending"}
  PROVE  /\ Evolves(d, SetStatus(d, keys, status), free)
         /\ DOMAIN SetStatus(d, keys, status) = DOMAIN d
<1> DEFINE e == SetStatus(d, keys, status)
<1>1. e = [k \in DOMAIN d |-> IF k \in keys THEN WithStatus(d[k], status) ELSE d[k]]
  BY Zenon DEF SetStatus
<1> HIDE DEF e
<1>2. /\ DOMAIN e = DOMAIN d /\ e = [k \in DOMAIN e |-> e[k]]
      /\ \A k \in DOMAIN e : e[k] = IF k \in keys THEN WithStatus(d[k], status) ELSE d[k]
  BY <1>1
<1>3. DeliveriesOK(e)
  BY <1>2, WithStatusOK DEF DeliveriesOK
<1>4. \A k \in DOMAIN d : Over(d, k) => d[k].status \notin {"pending", "sending"}
  BY DEF Over
<1> QED
  BY <1>2, <1>3, <1>4 DEF e, Evolves

LEMMA CancelEffect ==
  ASSUME NEW d, DeliveriesOK(d), NEW keys, NEW free
  PROVE  Evolves(d, Cancel(d, keys), free) /\ DOMAIN Cancel(d, keys) = DOMAIN d
<1> DEFINE open == {k \in keys \cap DOMAIN d : d[k].status \in {"pending", "sending"}}
<1>1. Cancel(d, keys) = SetStatus(d, open, "cancelled")
  BY Zenon DEF Cancel
<1>2. \A k \in open \cap DOMAIN d : d[k].status \in {"pending", "sending"}
  OBVIOUS
<1> HIDE DEF open
<1> QED
  BY <1>1, <1>2, SetStatusEffect

LEMMA RecoverEffect ==
  ASSUME NEW d, DeliveriesOK(d), NEW c, NEW free
  PROVE  Evolves(d, Recover(d, c), free) /\ DOMAIN Recover(d, c) = DOMAIN d
<1>1. Recover(d, c) = SetStatus(d, Rows(d, c, {"sending"}), "pending")
  BY Zenon DEF Recover
<1>2. \A k \in Rows(d, c, {"sending"}) \cap DOMAIN d : d[k].status \in {"pending", "sending"}
  BY DEF Rows
<1> QED
  BY <1>1, <1>2, SetStatusEffect

LEMMA ClaimedEffect ==
  ASSUME NEW d, DeliveriesOK(d), NEW c, NEW keys, keys \subseteq Rows(d, c, {"pending"}), NEW free
  PROVE  Evolves(d, Claimed(d, keys), free) /\ DOMAIN Claimed(d, keys) = DOMAIN d
<1> DEFINE e == Claimed(d, keys)
           Taken(k) == [status |-> "sending", attempts |-> d[k].attempts + 1]
<1>1. e = [k \in DOMAIN d |-> IF k \in keys THEN Taken(k) ELSE d[k]]
  BY Zenon DEF Claimed
<1>2. \A k \in DOMAIN d : DeliveryOK(Taken(k))
  BY DEF DeliveriesOK, DeliveryOK, DeliveryType
<1>3. \A k \in keys : d[k].status = "pending"
  BY DEF Rows
<1> HIDE DEF e, Taken
<1>4. /\ DOMAIN e = DOMAIN d /\ e = [k \in DOMAIN e |-> e[k]]
      /\ \A k \in DOMAIN e : e[k] = IF k \in keys THEN Taken(k) ELSE d[k]
  BY <1>1
<1>5. DeliveriesOK(e)
  BY <1>2, <1>4 DEF DeliveriesOK
<1>6. \A k \in DOMAIN d : Over(d, k) => d[k].status # "pending"
  BY DEF Over
<1> QED
  BY <1>3, <1>4, <1>5, <1>6 DEF e, Evolves

KeysFor(fp, targets, n, kind) == {<<fp, t, n, kind>> : t \in targets}

LEMMA KeysAreFinite ==
  ASSUME NEW fp, NEW targets, IsFiniteSet(targets), NEW n, NEW kind
  PROVE  IsFiniteSet(KeysFor(fp, targets, n, kind))
<1> DEFINE T == {<<fp, t, n, kind>> : t \in targets}
           F == [t \in targets |-> <<fp, t, n, kind>>]
<1>1. F \in Surjection(targets, T)
  BY DEF Surjection
<1> HIDE DEF F, T
<1>2. IsFiniteSet(T)
  BY <1>1, FS_Surjection
<1> QED
  BY <1>2 DEF T, KeysFor

LEMMA TargetsAreFinite ==
  IsFiniteSet(PushTargets) /\ IsFiniteSet(ExternalTargets)
<1>1. IsFiniteSet(PushTargets)
  BY AlertsAssumption, FS_Subset DEF PushTargets
<1>2. IsFiniteSet({webhook})
  BY FS_Singleton
<1>3. IsFiniteSet(ExternalTargets)
  BY <1>2, FS_Subset DEF ExternalTargets
<1> QED
  BY <1>1, <1>3

\* The keys a raise queues: none unless the notification asks for attention.
QueuedKeys(fp, note, kind, targets) ==
  IF note.state # "unread" \/ note.resolved THEN {} ELSE KeysFor(fp, targets, note.occurrences, kind)

LEMMA QueueRowsEffect ==
  ASSUME NEW d, DeliveriesOK(d), NEW fp, NEW note, NEW kind, NEW targets, IsFiniteSet(targets), NEW held, NEW free
  PROVE  Evolves(d, QueueRows(d, fp, note, kind, targets, held), free)
<1>1. CASE note.state # "unread" \/ note.resolved
  BY <1>1, EvolvesRefl DEF QueueRows
<1>2. CASE ~(note.state # "unread" \/ note.resolved)
  <2> DEFINE keys == KeysFor(fp, targets, note.occurrences, kind)
             status == IF held THEN "suppressed" ELSE "pending"
  <2>1. QueueRows(d, fp, note, kind, targets, held) = Insert(d, keys, status)
    BY <1>2, Zenon DEF QueueRows, KeysFor
  <2>2. IsFiniteSet(keys)
    BY KeysAreFinite
  <2>3. status \in {"pending", "suppressed"}
    OBVIOUS
  <2> HIDE DEF keys, status
  <2> QED
    BY <2>1, <2>2, <2>3, InsertEffect
<1> QED
  BY <1>1, <1>2

LEMMA QueueRowsDomain ==
  ASSUME NEW d, NEW fp, NEW note, NEW kind, NEW targets, NEW held
  PROVE  DOMAIN QueueRows(d, fp, note, kind, targets, held) = DOMAIN d \cup QueuedKeys(fp, note, kind, targets)
<1>1. CASE note.state # "unread" \/ note.resolved
  BY <1>1 DEF QueueRows, QueuedKeys
<1>2. CASE ~(note.state # "unread" \/ note.resolved)
  <2> DEFINE keys == KeysFor(fp, targets, note.occurrences, kind)
             status == IF held THEN "suppressed" ELSE "pending"
  <2>1. QueueRows(d, fp, note, kind, targets, held) = Insert(d, keys, status)
    BY <1>2, Zenon DEF QueueRows, KeysFor
  <2>2. QueuedKeys(fp, note, kind, targets) = keys
    BY <1>2, Zenon DEF QueuedKeys
  <2> HIDE DEF keys, status
  <2> QED
    BY <2>1, <2>2 DEF Insert
<1> QED
  BY <1>1, <1>2

LEMMA QueueEffect ==
  ASSUME NEW d, DeliveriesOK(d), NEW fp, NEW note, NEW kind, NEW cooling, NEW quiet, NEW free
  PROVE  Evolves(d, Queue(d, fp, note, kind, cooling, quiet), free)
<1> DEFINE held == Suppressed(fp, note, cooling, quiet)
           e == QueueRows(d, fp, note, kind, PushTargets, held)
           f == QueueRows(e, fp, note, kind, ExternalTargets, held)
<1>1. Queue(d, fp, note, kind, cooling, quiet) = f
  BY Zenon DEF Queue, QueuePush, QueueExternal
<1> HIDE DEF held
<1>2. Evolves(d, e, free)
  BY TargetsAreFinite, QueueRowsEffect
<1>3. DeliveriesOK(e)
  BY <1>2 DEF Evolves
<1> HIDE DEF e
<1>4. Evolves(e, f, free)
  BY <1>3, TargetsAreFinite, QueueRowsEffect
<1> HIDE DEF f
<1> QED
  BY <1>1, <1>2, <1>4, EvolvesTrans

-----------------------------------------------------------------------------
(* What the workers hold.                                                  *)

HeldOK(held, keys) ==
  /\ DOMAIN held = {"batch", "outcome", "settings"}
  /\ held.batch \in Seq(keys)
  /\ held.outcome # "none" => held.batch # <<>>

WorkOK(work, keys) ==
  /\ work = [c \in Channels |-> work[c]]
  /\ \A c \in Channels : HeldOK(work[c], keys)

\* What a worker holds are rows of the tables, so that what it finishes is one of them.
DeliveryInv ==
  /\ DeliveriesOK(deliveries)
  /\ WorkOK(worker, DOMAIN deliveries)
  /\ DOMAIN summary = {"channels", "on", "ready", "day"}
  /\ summary.channels \subseteq SummaryChannels

LEMMA IdleOK ==
  ASSUME NEW keys
  PROVE  HeldOK(Idle, keys)
BY EmptySeq DEF HeldOK, Idle

LEMMA RestOK ==
  ASSUME NEW held, NEW keys, HeldOK(held, keys), held.batch # <<>>
  PROVE  HeldOK(Rest(held), keys)
<1>1. Tail(held.batch) \in Seq(keys)
  BY HeadTailProperties DEF HeldOK
<1> QED
  BY <1>1 DEF HeldOK, Rest

LEMMA HeldMore ==
  ASSUME NEW held, NEW keys, NEW more, HeldOK(held, keys), keys \subseteq more
  PROVE  HeldOK(held, more)
BY SeqMonotonic DEF HeldOK

LEMMA WorkMore ==
  ASSUME NEW work, NEW keys, NEW more, WorkOK(work, keys), keys \subseteq more
  PROVE  WorkOK(work, more)
BY HeldMore DEF WorkOK

LEMMA KeyIsHeld ==
  ASSUME DeliveryInv, NEW c \in Channels, worker[c].batch # <<>>
  PROVE  Key(c) \in DOMAIN deliveries /\ Key(c) \in Held
<1> DEFINE batch == worker[c].batch
<1>1. batch \in Seq(DOMAIN deliveries) /\ batch # <<>>
  BY DEF DeliveryInv, WorkOK, HeldOK
<1> HIDE DEF batch
<1>2. Head(batch) \in DOMAIN deliveries /\ Head(batch) = batch[1] /\ 1 \in DOMAIN batch
  BY <1>1, HeadTailProperties
<1>3. Head(batch) \in Range(batch)
  BY <1>2 DEF Range
<1> QED
  BY <1>2, <1>3 DEF batch, Key, Held

LEMMA SetToSeqOK ==
  ASSUME NEW keys, IsFiniteSet(keys)
  PROVE  SetToSeq(keys) \in Seq(keys)
<1> DEFINE n == Cardinality(keys)
<1>1. n \in Nat /\ ExistsBijection(1 .. n, keys)
  BY FS_CardinalityType
<1>2. \E f \in [1 .. n -> keys] : IsInjective(f)
  BY <1>1 DEF ExistsBijection, Bijection, Injection
<1>3. SetToSeq(keys) \in [1 .. n -> keys]
  BY <1>2, Zenon DEF SetToSeq
<1> HIDE DEF n
<1> QED
  BY <1>1, <1>3, SeqDef

\* A batch is claimed from a table.
LEMMA BatchOK ==
  ASSUME NEW d, DeliveriesOK(d), NEW due, due \subseteq DOMAIN d
  PROVE  SetToSeq(due) \in Seq(DOMAIN d)
<1>1. IsFiniteSet(due)
  BY FS_Subset DEF DeliveriesOK
<1>2. SetToSeq(due) \in Seq(due)
  BY <1>1, SetToSeqOK
<1> QED
  BY <1>2, SeqMonotonic

-----------------------------------------------------------------------------
(* Each step on the delivery tables.                                       *)

\* What every step owes: the invariant again, and nothing that is over rewritten.
Sound == DeliveryInv' /\ Evolves(deliveries, deliveries', Held)

\* A step that leaves the workers alone.
LEMMA SoundAside ==
  ASSUME DeliveryInv, Evolves(deliveries, deliveries', {}), worker' = worker,
         DOMAIN summary' = DOMAIN summary, summary'.channels = summary.channels
  PROVE  Sound
<1>1. DeliveriesOK(deliveries') /\ DOMAIN deliveries \subseteq DOMAIN deliveries'
  BY DEF Evolves
<1>2. WorkOK(worker', DOMAIN deliveries')
  BY <1>1, WorkMore DEF DeliveryInv
<1>3. Evolves(deliveries, deliveries', Held)
  BY EvolvesMore
<1> QED
  BY <1>1, <1>2, <1>3 DEF Sound, DeliveryInv

\* A step that leaves the delivery tables alone.
LEMMA SoundKeeping ==
  ASSUME DeliveryInv, deliveries' = deliveries, WorkOK(worker', DOMAIN deliveries),
         DOMAIN summary' = DOMAIN summary, summary'.channels = summary.channels
  PROVE  Sound
<1>1. Evolves(deliveries, deliveries, Held)
  BY EvolvesRefl DEF DeliveryInv
<1> QED
  BY <1>1 DEF Sound, DeliveryInv

\* A step with which the worker of c is done with the row at the head of its batch.
LEMMA SoundDone ==
  ASSUME DeliveryInv, NEW c \in Channels, worker[c].batch # <<>>, worker' = Done(c), summary' = summary,
         Evolves(deliveries, deliveries', {Key(c)})
  PROVE  Sound
<1>1. DeliveriesOK(deliveries') /\ DOMAIN deliveries \subseteq DOMAIN deliveries'
  BY DEF Evolves
<1>2. HeldOK(Rest(worker[c]), DOMAIN deliveries)
  BY RestOK DEF DeliveryInv, WorkOK
<1>3. worker' = [worker EXCEPT ![c] = Rest(worker[c])]
  BY DEF Done
<1>0. WorkOK(worker, DOMAIN deliveries)
  BY DEF DeliveryInv
<1>4. WorkOK(worker', DOMAIN deliveries)
  <2> DEFINE keys == DOMAIN deliveries
             rest == Rest(worker[c])
  <2>1. WorkOK(worker, keys) /\ HeldOK(rest, keys) /\ worker' = [worker EXCEPT ![c] = rest]
    BY <1>0, <1>2, <1>3
  <2> HIDE DEF keys, rest
  <2>2. WorkOK(worker', keys)
    BY <2>1 DEF WorkOK
  <2> QED
    BY <2>2 DEF keys
<1>5. WorkOK(worker', DOMAIN deliveries')
  BY <1>1, <1>4, WorkMore
<1>6. Evolves(deliveries, deliveries', Held)
  <2>1. {Key(c)} \subseteq Held
    BY KeyIsHeld
  <2> QED
    BY <2>1, EvolvesMore
<1> QED
  BY <1>1, <1>5, <1>6 DEF Sound, DeliveryInv

LEMMA RecordSound ==
  ASSUME DeliveryInv, RecordSignal
  PROVE  Sound
<1>1. DeliveriesOK(deliveries)
  BY DEF DeliveryInv
<1>2. PICK old, cooling, quiet : Upsert(Head(scan.todo), old, cooling, quiet)
  BY Zenon DEF RecordSignal
<1>3. \/ deliveries' = deliveries
      \/ \E fp, note, late : deliveries' = Queue(deliveries, fp, note, "notification", late, quiet)
  BY <1>2, Zenon DEF Upsert
<1>4. Evolves(deliveries, deliveries', {})
  BY <1>1, <1>3, EvolvesRefl, QueueEffect
<1>5. worker' = worker /\ summary' = summary
  BY DEF RecordSignal
<1> QED
  BY <1>4, <1>5, SoundAside

LEMMA ClearSound ==
  ASSUME DeliveryInv, ClearSource
  PROVE  Sound
<1>1. DeliveriesOK(deliveries)
  BY DEF DeliveryInv
<1>2. PICK keys : deliveries' = Cancel(deliveries, keys)
  BY Zenon DEF ClearSource
<1>3. Evolves(deliveries, deliveries', {})
  BY <1>1, <1>2, CancelEffect
<1>4. worker' = worker /\ summary' = summary
  BY DEF ClearSource
<1> QED
  BY <1>3, <1>4, SoundAside

LEMMA IntelligenceSound ==
  ASSUME DeliveryInv, Intelligence
  PROVE  Sound
<1>1. DeliveriesOK(deliveries)
  BY DEF DeliveryInv
<1>2. PICK f, quiet :
        deliveries' = Queue(Cancel(deliveries, About(deliveries, {f})), f, EscalatedNote(notes[f]),
                            "escalation", FALSE, quiet)
  BY Zenon DEF Intelligence
<1> DEFINE d == Cancel(deliveries, About(deliveries, {f}))
<1>3. Evolves(deliveries, d, {})
  BY <1>1, CancelEffect
<1>4. DeliveriesOK(d)
  BY <1>3 DEF Evolves
<1>5. Evolves(d, deliveries', {})
  <2> HIDE DEF d
  <2>1. \A note : Evolves(d, Queue(d, f, note, "escalation", FALSE, quiet), {})
    BY <1>4, QueueEffect
  <2> QED
    BY <1>2, <2>1, Zenon DEF d
<1>6. Evolves(deliveries, deliveries', {})
  BY <1>3, <1>5, EvolvesTrans
<1>7. worker' = worker /\ summary' = summary
  BY DEF Intelligence
<1> QED
  BY <1>6, <1>7, SoundAside

LEMMA OperatorSound ==
  ASSUME DeliveryInv, Operator
  PROVE  Sound
<1>1. DeliveriesOK(deliveries)
  BY DEF DeliveryInv
<1>2. ASSUME NEW keys PROVE Evolves(deliveries, Cancel(deliveries, keys), {})
  BY <1>1, CancelEffect
<1>3. Evolves(deliveries, deliveries, {})
  BY <1>1, EvolvesRefl
<1>4. ASSUME NEW targets, IsFiniteSet(targets), EnqueueTests(targets) PROVE Sound
  <2>1. deliveries' = Insert(deliveries, KeysFor(<<"test", "operator">>, targets, budget.acts, "test"), "pending")
    BY <1>4 DEF EnqueueTests, KeysFor
  <2>2. Evolves(deliveries, deliveries', {})
    BY <1>1, <1>4, <2>1, KeysAreFinite, InsertEffect
  <2>3. worker' = worker /\ summary' = summary
    BY <1>4 DEF EnqueueTests
  <2> QED
    BY <2>2, <2>3, SoundAside
<1>5. CASE OnNotifications
  <2>1. \E keys : deliveries' = Cancel(deliveries, keys)
    BY <1>5, Zenon DEF OnNotifications, MarkNotification, MarkAllRead
  <2>2. worker' = worker /\ summary' = summary
    BY <1>5 DEF OnNotifications, MarkNotification, MarkAllRead
  <2> QED
    BY <1>2, <2>1, <2>2, SoundAside
<1>6. CASE OnIncidents
  <2>1. \E keys : deliveries' = Cancel(deliveries, keys)
    BY <1>6, Zenon DEF OnIncidents, AcknowledgeIncident, ResolveIncident
  <2>2. worker' = worker /\ summary' = summary
    BY <1>6 DEF OnIncidents, AcknowledgeIncident, ResolveIncident
  <2> QED
    BY <1>2, <2>1, <2>2, SoundAside
<1>7. CASE OnDestinations
  <2>1. CASE \E s \in Subscriptions : Subscribe(s) \/ Unsubscribe(s)
    <3>1. deliveries' = deliveries \/ \E keys : deliveries' = Cancel(deliveries, keys)
      BY <2>1, Zenon DEF Subscribe, Unsubscribe
    <3>2. worker' = worker /\ summary' = summary
      BY <2>1 DEF Subscribe, Unsubscribe
    <3> QED
      BY <1>2, <1>3, <3>1, <3>2, SoundAside
  <2>2. CASE \E h \in Hooks \cup {Off} : SaveWebhook(h)
    <3>1. deliveries' = deliveries \/ \E keys : deliveries' = Cancel(deliveries, keys)
      BY <2>2, Zenon DEF SaveWebhook
    <3>2. worker' = worker /\ summary' = summary
      BY <2>2 DEF SaveWebhook
    <3> QED
      BY <1>2, <1>3, <3>1, <3>2, SoundAside
  <2> QED
    BY <1>4, <1>7, <2>1, <2>2, TargetsAreFinite DEF OnDestinations, PushTest, ExternalTest
<1>8. CASE OnSummary
  <2>1. ASSUME NEW on, SaveSummary(on) PROVE Sound
    <3>1. deliveries' = deliveries \/ \E keys : deliveries' = Cancel(deliveries, keys)
      BY <2>1, Zenon DEF SaveSummary
    <3>2. worker' = worker /\ summary' = [summary EXCEPT !.on = on]
      BY <2>1 DEF SaveSummary
    <3>3. DOMAIN summary' = DOMAIN summary /\ summary'.channels = summary.channels
      BY <3>2 DEF DeliveryInv
    <3> QED
      BY <1>2, <1>3, <3>1, <3>2, <3>3, SoundAside
  <2>2. ASSUME NEW c, SummaryTest(c) PROVE Sound
    <3>1. IsFiniteSet({c}) /\ EnqueueTests({c})
      BY <2>2, FS_Singleton DEF SummaryTest
    <3> QED
      BY <1>4, <3>1
  <2>3. ASSUME NEW k \in DOMAIN deliveries, RetrySummary(k) PROVE Sound
    <3> DEFINE again == [status |-> "pending", attempts |-> 0]
    <3>1. /\ ChannelOf(k) = "summary" /\ deliveries[k].status # "sent"
          /\ deliveries' = [deliveries EXCEPT ![k] = again]
          /\ worker' = worker /\ summary' = summary
      BY <2>3 DEF RetrySummary
    <3>2. DeliveryOK(again)
      BY DEF DeliveryOK, DeliveryType
    <3> HIDE DEF again
    <3>3. /\ DOMAIN deliveries' = DOMAIN deliveries /\ deliveries' = [j \in DOMAIN deliveries' |-> deliveries'[j]]
          /\ deliveries'[k] = again /\ \A j \in DOMAIN deliveries \ {k} : deliveries'[j] = deliveries[j]
      BY <1>1, <3>1 DEF DeliveriesOK
    <3>4. DeliveriesOK(deliveries')
      BY <1>1, <3>2, <3>3 DEF DeliveriesOK
    <3>5. ~Over(deliveries, k)
      BY <3>1 DEF Over
    <3>6. Evolves(deliveries, deliveries', {})
      BY <3>3, <3>4, <3>5 DEF Evolves
    <3> QED
      BY <3>1, <3>6, SoundAside
  <2> QED
    BY <1>8, <2>1, <2>2, <2>3 DEF OnSummary
<1>9. CASE \E p \in Preferences : SavePreferences(p)
  <2>1. deliveries' = deliveries /\ worker' = worker /\ summary' = summary
    BY <1>9 DEF SavePreferences
  <2> QED
    BY <1>3, <2>1, SoundAside
<1> QED
  BY <1>5, <1>6, <1>7, <1>8, <1>9 DEF Operator

LEMMA CrashSound ==
  ASSUME DeliveryInv, Crash
  PROVE  Sound
<1>1. deliveries' = deliveries /\ worker' = [c \in Channels |-> Idle]
  BY DEF Crash
<1>2. PICK ready : summary' = [summary EXCEPT !.ready = ready]
  BY Zenon DEF Crash
<1>3. DOMAIN summary' = DOMAIN summary /\ summary'.channels = summary.channels
  BY <1>2 DEF DeliveryInv
<1>4. WorkOK(worker', DOMAIN deliveries)
  BY <1>1, IdleOK DEF WorkOK
<1> QED
  BY <1>1, <1>3, <1>4, SoundKeeping

LEMMA NextDaySound ==
  ASSUME DeliveryInv, NextDay
  PROVE  Sound
<1>1. deliveries' = deliveries /\ worker' = worker /\ summary' = [summary EXCEPT !.day = @ + 1]
  BY DEF NextDay
<1>2. DOMAIN summary' = DOMAIN summary /\ summary'.channels = summary.channels
  BY <1>1 DEF DeliveryInv
<1> QED
  BY <1>1, <1>2, SoundKeeping DEF DeliveryInv

-----------------------------------------------------------------------------
(* The cycles of the workers.                                              *)

\* A worker's claim from a table that recovery and the day's summary evolved.
LEMMA ClaimSound ==
  ASSUME DeliveryInv, NEW c \in Channels, NEW d, Evolves(deliveries, d, {}),
         NEW due, due \subseteq Rows(d, c, {"pending"}), deliveries' = Claimed(d, due),
         NEW held, DOMAIN held = {"batch", "outcome", "settings"}, held.outcome = "none",
         held.batch = SetToSeq(due), worker' = [worker EXCEPT ![c] = held], summary' = summary
  PROVE  Sound
<1>1. DeliveriesOK(d) /\ DOMAIN deliveries \subseteq DOMAIN d
  BY DEF Evolves
<1>2. Evolves(d, deliveries', {}) /\ DOMAIN deliveries' = DOMAIN d
  BY <1>1, ClaimedEffect
<1>3. Evolves(deliveries, deliveries', {})
  BY <1>2, EvolvesTrans
<1>4. Evolves(deliveries, deliveries', Held)
  BY <1>3, EvolvesMore
<1>5. DeliveriesOK(deliveries')
  BY <1>3 DEF Evolves
<1>6. due \subseteq DOMAIN d
  BY DEF Rows
<1>7. HeldOK(held, DOMAIN d)
  BY <1>1, <1>6, BatchOK DEF HeldOK
<1>8. WorkOK(worker, DOMAIN d)
  BY <1>1, WorkMore DEF DeliveryInv
<1>9. WorkOK(worker', DOMAIN d)
  BY <1>7, <1>8 DEF WorkOK
<1> QED
  BY <1>2, <1>4, <1>5, <1>9 DEF Sound, DeliveryInv

LEMMA PushOrExternalClaimSound ==
  ASSUME DeliveryInv, NEW c \in {"push", "external"}, Claim(c)
  PROVE  Sound
<1>1. PICK d \in {deliveries, Recover(deliveries, c)} :
        \E due \in SUBSET Rows(d, c, {"pending"}) \ {{}} :
          /\ deliveries' = Claimed(d, due)
          /\ worker' = [worker EXCEPT ![c] = [Idle EXCEPT !.batch = SetToSeq(due)]]
  BY Zenon DEF Claim
<1>2. PICK due \in SUBSET Rows(d, c, {"pending"}) \ {{}} :
        /\ deliveries' = Claimed(d, due)
        /\ worker' = [worker EXCEPT ![c] = [Idle EXCEPT !.batch = SetToSeq(due)]]
  BY <1>1, Zenon
<1> DEFINE held == [Idle EXCEPT !.batch = SetToSeq(due)]
<1>3. /\ DOMAIN held = {"batch", "outcome", "settings"} /\ held.outcome = "none"
      /\ held.batch = SetToSeq(due)
  BY DEF Idle
<1>4. worker' = [worker EXCEPT ![c] = held]
  BY <1>2
<1>5. Evolves(deliveries, d, {})
  BY <1>1, EvolvesRefl, RecoverEffect DEF DeliveryInv
<1>6. c \in Channels /\ summary' = summary
  BY DEF Channels, Claim
<1>7. due \subseteq Rows(d, c, {"pending"}) /\ deliveries' = Claimed(d, due)
  BY <1>2
<1> HIDE DEF held
<1> QED
  BY <1>3, <1>4, <1>5, <1>6, <1>7, ClaimSound

LEMMA EnqueueDueEffect ==
  ASSUME DeliveryInv, NEW d, DeliveriesOK(d), NEW built, NEW free
  PROVE  Evolves(d, EnqueueDue(d, built), free)
<1>1. IsFiniteSet({"summary:email", "summary:webhook"})
  <2>1. IsFiniteSet({"summary:email"}) /\ IsFiniteSet({"summary:webhook"})
    BY FS_Singleton
  <2>2. {"summary:email", "summary:webhook"} = {"summary:email"} \cup {"summary:webhook"}
    OBVIOUS
  <2> QED
    BY <2>1, <2>2, FS_Union
<1>2. IsFiniteSet(summary.channels)
  BY <1>1, FS_Subset DEF DeliveryInv, SummaryChannels
<1>3. ScheduledKeys(summary.day) = KeysFor(<<"summary", "daily">>, summary.channels, summary.day, "scheduled")
  BY Zenon DEF ScheduledKeys, KeysFor
<1>4. IsFiniteSet(ScheduledKeys(summary.day))
  BY <1>2, <1>3, KeysAreFinite
<1>5. EnqueueDue(d, built) \in {d, Insert(d, ScheduledKeys(summary.day), "pending")}
  BY Zenon DEF EnqueueDue
<1> QED
  BY <1>4, <1>5, EvolvesRefl, InsertEffect

LEMMA SummaryCycleSound ==
  ASSUME DeliveryInv, SummaryCycle
  PROVE  Sound
<1>1. PICK built \in BOOLEAN :
        LET d   == EnqueueDue(Recover(CancelDisabled(deliveries), "summary"), built)
            due == ClaimSummary(d)
        IN  /\ deliveries' = Claimed(d, due)
            /\ worker' = [worker EXCEPT !["summary"] =
                 [batch |-> SetToSeq(due), outcome |-> "none",
                  settings |-> [on |-> summary.on, ready |-> summary.ready]]]
  BY Zenon DEF SummaryCycle
<1> DEFINE e == CancelDisabled(deliveries)
           f == Recover(e, "summary")
           d == EnqueueDue(f, built)
           due == ClaimSummary(d)
           held == [batch |-> SetToSeq(due), outcome |-> "none",
                    settings |-> [on |-> summary.on, ready |-> summary.ready]]
<1>2. Evolves(deliveries, e, {})
  <2>1. e = deliveries \/ \E keys : e = Cancel(deliveries, keys)
    BY Zenon DEF CancelDisabled
  <2> HIDE DEF e
  <2> QED
    BY <2>1, EvolvesRefl, CancelEffect DEF DeliveryInv
<1>3. DeliveriesOK(e)
  BY <1>2 DEF Evolves
<1> HIDE DEF e
<1>4. Evolves(e, f, {})
  BY <1>3, RecoverEffect
<1>5. DeliveriesOK(f) /\ Evolves(deliveries, f, {})
  <2>1. DeliveriesOK(f)
    BY <1>4 DEF Evolves
  <2> HIDE DEF f
  <2>2. Evolves(deliveries, f, {})
    BY <1>2, <1>4, EvolvesTrans
  <2> QED
    BY <2>1, <2>2
<1> HIDE DEF f
<1>6. Evolves(f, d, {})
  BY <1>5, EnqueueDueEffect
<1>7. Evolves(deliveries, d, {})
  BY <1>5, <1>6, EvolvesTrans
<1>8. deliveries' = Claimed(d, due) /\ worker' = [worker EXCEPT !["summary"] = held]
  BY <1>1 DEF e, f
<1> HIDE DEF d
<1>9. due \subseteq Rows(d, "summary", {"pending"})
  BY DEF ClaimSummary
<1>10. /\ DOMAIN held = {"batch", "outcome", "settings"} /\ held.outcome = "none"
       /\ held.batch = SetToSeq(due)
  OBVIOUS
<1>11. "summary" \in Channels /\ summary' = summary
  BY DEF Channels, SummaryCycle
<1> HIDE DEF due, held
<1> QED
  BY <1>7, <1>8, <1>9, <1>10, <1>11, ClaimSound

LEMMA OutcomeHasBatch ==
  ASSUME DeliveryInv, NEW c \in Channels, worker[c].outcome # "none"
  PROVE  worker[c].batch # <<>>
BY DEF DeliveryInv, WorkOK, HeldOK

\* The row at hand may become anything.
LEMMA SetKeyEffect ==
  ASSUME DeliveryInv, NEW c, NEW keys, keys \subseteq {Key(c)}, NEW status \in {"pending", "sent", "failed", "cancelled"}
  PROVE  Evolves(deliveries, SetStatus(deliveries, keys, status), {Key(c)})
<1>1. DeliveriesOK(deliveries)
  BY DEF DeliveryInv
<1>2. \A k \in keys \cap DOMAIN deliveries : k \in {Key(c)} \/ deliveries[k].status \in {"pending", "sending"}
  OBVIOUS
<1> QED
  BY <1>1, <1>2, SetStatusEffect

LEMMA FailedEffect ==
  ASSUME DeliveryInv, NEW c
  PROVE  Evolves(deliveries, Failed(c), {Key(c)})
<1>1. \E status \in {"pending", "failed"} : Failed(c) = SetStatus(deliveries, {Key(c)}, status)
  BY Zenon DEF Failed
<1> QED
  BY <1>1, SetKeyEffect

LEMMA DropUnwantedSound ==
  ASSUME DeliveryInv, NEW c \in Channels, DropUnwanted(c)
  PROVE  Sound
<1>1. worker[c].batch # <<>> /\ worker' = Done(c) /\ summary' = summary
  BY DEF DropUnwanted, Waiting
<1>2. deliveries' = SetStatus(deliveries, {Key(c)}, "cancelled") \/ deliveries' = Cancel(deliveries, {Key(c)})
  BY Zenon DEF DropUnwanted
<1>3. Evolves(deliveries, deliveries', {Key(c)})
  BY <1>2, SetKeyEffect, CancelEffect DEF DeliveryInv
<1> QED
  BY <1>1, <1>3, SoundDone

LEMMA DeferSound ==
  ASSUME DeliveryInv, NEW c \in Channels, Defer(c)
  PROVE  Sound
<1> DEFINE k == Key(c)
           back == [status |-> "pending", attempts |-> deliveries[k].attempts - 1]
<1>1. worker[c].batch # <<>> /\ worker' = Done(c) /\ summary' = summary
  BY DEF Defer, Waiting
<1>2. deliveries' = IF deliveries[k].status # "sending" THEN deliveries ELSE [deliveries EXCEPT ![k] = back]
  BY DEF Defer
<1>3. k \in DOMAIN deliveries
  BY <1>1, KeyIsHeld
<1> HIDE DEF k
<1>4. CASE deliveries[k].status # "sending"
  BY <1>1, <1>2, <1>4, EvolvesRefl, SoundDone DEF DeliveryInv
<1>5. CASE deliveries[k].status = "sending"
  <2>1. DeliveryOK(deliveries[k])
    BY <1>3 DEF DeliveryInv, DeliveriesOK
  <2>2. deliveries[k].attempts - 1 \in Nat
    BY <1>5, <2>1 DEF DeliveryOK, DeliveryType
  <2>3. DeliveryOK(back)
    BY <2>2 DEF DeliveryOK, DeliveryType
  <2>4. deliveries' = [deliveries EXCEPT ![k] = back]
    BY <1>2, <1>5
  <2> HIDE DEF back
  <2>5. /\ DOMAIN deliveries' = DOMAIN deliveries /\ deliveries' = [j \in DOMAIN deliveries' |-> deliveries'[j]]
        /\ deliveries'[k] = back /\ \A j \in DOMAIN deliveries \ {k} : deliveries'[j] = deliveries[j]
    BY <1>3, <2>4 DEF DeliveryInv, DeliveriesOK
  <2>6. DeliveriesOK(deliveries')
    BY <2>3, <2>5 DEF DeliveryInv, DeliveriesOK
  <2>7. Evolves(deliveries, deliveries', {k})
    BY <2>5, <2>6 DEF Evolves
  <2> QED
    BY <1>1, <2>7, SoundDone DEF k
<1> QED
  BY <1>4, <1>5

LEMMA SendSound ==
  ASSUME DeliveryInv, NEW c \in Channels, Send(c)
  PROVE  Sound
<1>1. worker[c].batch # <<>> /\ deliveries' = deliveries /\ summary' = summary
  BY DEF Send, Waiting
<1>2. PICK outcome : worker' = [worker EXCEPT ![c].outcome = outcome]
  BY Zenon DEF Send
<1> DEFINE held == [worker[c] EXCEPT !.outcome = outcome]
<1>3. HeldOK(worker[c], DOMAIN deliveries) /\ worker = [x \in Channels |-> worker[x]]
  BY DEF DeliveryInv, WorkOK
<1>4. HeldOK(held, DOMAIN deliveries)
  BY <1>1, <1>3 DEF HeldOK
<1>5. worker' = [worker EXCEPT ![c] = held]
  BY <1>2
<1> HIDE DEF held
<1>6. WorkOK(worker', DOMAIN deliveries)
  BY <1>3, <1>4, <1>5 DEF DeliveryInv, WorkOK
<1> QED
  BY <1>1, <1>6, SoundKeeping

\* The row fails, and the worker keeps it until the webhook is retired.
LEMMA FailGoneSound ==
  ASSUME DeliveryInv, FailGone
  PROVE  Sound
<1> DEFINE c == "external"
           keys == DOMAIN deliveries
           held == [worker[c] EXCEPT !.outcome = "retire"]
<1>1. c \in Channels /\ worker[c].outcome # "none" /\ deliveries' = Failed(c) /\ summary' = summary
      /\ worker' = [worker EXCEPT ![c] = held]
  BY DEF FailGone, Channels
<1>2. worker[c].batch # <<>>
  BY <1>1, OutcomeHasBatch
<1>3. Evolves(deliveries, deliveries', {Key(c)})
  BY <1>1, FailedEffect
<1>4. DeliveriesOK(deliveries') /\ DOMAIN deliveries \subseteq DOMAIN deliveries'
  BY <1>3 DEF Evolves
<1>5. WorkOK(worker, keys) /\ HeldOK(worker[c], keys)
  BY <1>1 DEF DeliveryInv, WorkOK
<1>6. HeldOK(held, keys)
  BY <1>2, <1>5 DEF HeldOK
<1> HIDE DEF held
<1>7. WorkOK(worker', keys)
  BY <1>1, <1>5, <1>6 DEF WorkOK
<1>8. WorkOK(worker', DOMAIN deliveries')
  BY <1>4, <1>7, WorkMore
<1>9. {Key(c)} \subseteq Held
  BY <1>1, <1>2, KeyIsHeld
<1>10. Evolves(deliveries, deliveries', Held)
  BY <1>3, <1>9, EvolvesMore
<1> QED
  BY <1>1, <1>4, <1>8, <1>10 DEF Sound, DeliveryInv

LEMMA DeliverSound ==
  ASSUME DeliveryInv, NEW c \in Channels, Deliver(c)
  PROVE  Sound
<1>1. ASSUME Complete(c) PROVE Sound
  <2>1. worker[c].outcome # "none" /\ worker' = Done(c) /\ summary' = summary
        /\ deliveries' = SetStatus(deliveries, {Key(c)}, "sent")
    BY <1>1 DEF Complete
  <2>2. Evolves(deliveries, deliveries', {Key(c)})
    BY <2>1, SetKeyEffect
  <2> QED
    BY <2>1, <2>2, OutcomeHasBatch, SoundDone
<1>2. ASSUME c = "summary", CompleteSummary PROVE Sound
  <2>1. worker[c].outcome # "none" /\ worker' = Done(c) /\ summary' = summary
        /\ deliveries' = SetStatus(deliveries, {Key(c)} \cap Rows(deliveries, "summary", {"sending"}), "sent")
    BY <1>2 DEF CompleteSummary
  <2>2. Evolves(deliveries, deliveries', {Key(c)})
    BY <2>1, SetKeyEffect
  <2> QED
    BY <2>1, <2>2, OutcomeHasBatch, SoundDone
<1>3. ASSUME c = "push", FailPush PROVE Sound
  <2>1. worker[c].outcome # "none" /\ worker' = Done(c) /\ summary' = summary /\ deliveries' = Failed(c)
    BY <1>3 DEF FailPush, Failing
  <2> QED
    BY <2>1, FailedEffect, OutcomeHasBatch, SoundDone
<1>4. ASSUME c = "external", FailExternal PROVE Sound
  <2>1. worker[c].outcome # "none" /\ worker' = Done(c) /\ summary' = summary /\ deliveries' = Failed(c)
    BY <1>4 DEF FailExternal, Failing
  <2> QED
    BY <2>1, FailedEffect, OutcomeHasBatch, SoundDone
<1>6. ASSUME c = "external", RetireWebhook PROVE Sound
  <2> DEFINE queued == Rows(deliveries, "external", {"pending"})
  <2>1. worker[c].outcome # "none" /\ worker' = Done(c) /\ summary' = summary
        /\ deliveries' = SetStatus(deliveries, queued, "cancelled")
    BY <1>6 DEF RetireWebhook
  <2>2. \A k \in queued \cap DOMAIN deliveries : k \in {Key(c)} \/ deliveries[k].status \in {"pending", "sending"}
    BY DEF Rows
  <2>3. Evolves(deliveries, deliveries', {Key(c)})
    BY <2>1, <2>2, SetStatusEffect DEF DeliveryInv
  <2> QED
    BY <2>1, <2>3, OutcomeHasBatch, SoundDone
<1>5. ASSUME c = "summary", FailSummary PROVE Sound
  <2>1. worker[c].outcome # "none" /\ worker' = Done(c) /\ summary' = summary /\ deliveries' = Failed(c)
    BY <1>5 DEF FailSummary, Failing
  <2> QED
    BY <2>1, FailedEffect, OutcomeHasBatch, SoundDone
<1> QED
  BY <1>1, <1>2, <1>3, <1>4, <1>5, <1>6, DropUnwantedSound, DeferSound, SendSound, FailGoneSound DEF Deliver

LEMMA QuietScanSound ==
  ASSUME DeliveryInv, Scan, ~RecordSignal, ~ClearSource
  PROVE  Sound
<1>1. deliveries' = deliveries /\ worker' = worker /\ summary' = summary
  BY DEF Scan, ScanStart, ReadSource, ReadFails, SkipSource, RecordFails, ScanEnd
<1> QED
  BY <1>1, SoundKeeping DEF DeliveryInv

LEMMA EveryStepSound ==
  ASSUME DeliveryInv, [Next]_vars
  PROVE  Sound
<1>1. CASE Scan
  BY <1>1, RecordSound, ClearSound, QuietScanSound
<1>2. CASE \E c \in {"push", "external"} : Claim(c)
  BY <1>2, PushOrExternalClaimSound
<1>3. CASE SummaryCycle
  BY <1>3, SummaryCycleSound
<1>4. CASE \E c \in Channels : Deliver(c)
  BY <1>4, DeliverSound
<1>5. CASE Intelligence
  BY <1>5, IntelligenceSound
<1>6. CASE Operator
  BY <1>6, OperatorSound
<1>7. CASE Crash
  BY <1>7, CrashSound
<1>8. CASE NextDay
  BY <1>8, NextDaySound
<1>9. CASE UNCHANGED vars
  <2>1. deliveries' = deliveries /\ worker' = worker /\ summary' = summary
    BY <1>9 DEF vars
  <2> QED
    BY <2>1, SoundKeeping DEF DeliveryInv
<1> QED
  BY <1>1, <1>2, <1>3, <1>4, <1>5, <1>6, <1>7, <1>8, <1>9 DEF Next

LEMMA DeliveryInit ==
  ASSUME Init
  PROVE  DeliveryInv
<1>1. deliveries = [k \in {} |-> [status |-> "none", attempts |-> 0]] /\ worker = [c \in Channels |-> Idle]
  BY DEF Init
<1>2. PICK d \in Deployments :
        summary = [channels |-> d.summary, on |-> d.summary # {}, ready |-> TRUE, day |-> 0]
  BY Zenon DEF Init
<1>3. d.summary \in SUBSET SummaryChannels
  BY AlertsAssumption DEF Deployment
<1>4. DOMAIN summary = {"channels", "on", "ready", "day"} /\ summary.channels = d.summary
  BY <1>2
<1>5. DeliveriesOK(deliveries)
  BY <1>1, FS_EmptySet DEF DeliveriesOK
<1>6. WorkOK(worker, DOMAIN deliveries)
  BY <1>1, IdleOK DEF WorkOK
<1> QED
  BY <1>3, <1>4, <1>5, <1>6 DEF DeliveryInv

LEMMA DeliveryAlways == Spec => []DeliveryInv
<1>1. DeliveryInv /\ [Next]_vars => DeliveryInv'
  BY EveryStepSound DEF Sound
<1> QED
  BY <1>1, DeliveryInit, PTL DEF Spec

\* Every reachable state is well typed; an attempt is given back only by a
\* delivery that was claimed, so the count never falls below zero.
THEOREM TypeCorrect == Spec => []TypeOK
<1>1. TableInv /\ DeliveryInv => TypeOK
  <2>1. TableInv => /\ incidents \in [Signals -> [status : {"none", "open", "acknowledged", "resolved"},
                                severity : {"info", "warning", "critical"}, suppress : BOOLEAN]]
                    /\ notes \in [Signals -> [state : {"none", "unread", "read", "acknowledged", "dismissed"},
                            severity : {"info", "warning", "critical"}, source : {"info", "warning", "critical"},
                            resolved : BOOLEAN, occurrences : Nat, level : {0, 1}]]
    BY DEF TableInv, RowType, NoteType, Severities
  <2> QED
    BY <2>1 DEF DeliveryInv, DeliveriesOK, DeliveryOK, DeliveryType, TypeOK
<1> QED
  BY <1>1, TablesAlways, DeliveryAlways, PTL

\* A delivery that is over and that no worker holds is never rewritten.
THEOREM SettledIsSettled == Spec => SettledStaysSettled
<1> DEFINE Kept == \A k \in DOMAIN deliveries :
                     Final(k) /\ k \notin Held => k \in DOMAIN deliveries' /\ deliveries'[k] = deliveries[k]
<1>1. DeliveryInv /\ [Next]_vars => [Kept]_vars
  BY EveryStepSound DEF Sound, Evolves, Over, Final
<1> QED
  BY <1>1, DeliveryAlways, PTL DEF Spec, SettledStaysSettled

-----------------------------------------------------------------------------
(* The keys of the delivery tables: no raise finds its key taken.          *)

\* A notification was queued for an occurrence that was counted; an escalation
\* too, and for the present one only while the note is escalated.
KeyOK(key, ns) ==
  /\ key[4] \in {"notification", "escalation"} => key[1] \in Signals /\ key[3] \in Nat
  /\ key[4] = "notification" => key[3] <= ns[key[1]].occurrences
  /\ key[4] = "escalation" =>
       key[3] <= ns[key[1]].occurrences /\ (ns[key[1]].level = 0 => key[3] < ns[key[1]].occurrences)

KeyInv == \A k \in DOMAIN deliveries : KeyOK(k, notes)

\* An occurrence is never uncounted, and a note falls back to its own severity
\* only with a new occurrence.
Counts(note, n) ==
  /\ n.occurrences >= note.occurrences
  /\ n.level # note.level => n.level = 1 \/ n.occurrences > note.occurrences

LEMMA KeysKept ==
  ASSUME TableInv, TableInv', NEW k, KeyOK(k, notes), \A f \in Signals : Counts(notes[f], notes'[f])
  PROVE  KeyOK(k, notes')
<1>1. CASE k[4] \in {"notification", "escalation"}
  <2> DEFINE note == notes[k[1]]
             n == notes'[k[1]]
  <2>1. k[1] \in Signals /\ k[3] \in Nat
    BY <1>1 DEF KeyOK
  <2>2. note \in NoteType /\ n \in NoteType /\ Counts(note, n)
    BY <2>1 DEF TableInv
  <2>3. /\ k[4] = "notification" => k[3] <= note.occurrences
        /\ k[4] = "escalation" => k[3] <= note.occurrences /\ (note.level = 0 => k[3] < note.occurrences)
    BY DEF KeyOK
  <2> HIDE DEF note, n
  <2>4. /\ k[4] = "notification" => k[3] <= n.occurrences
        /\ k[4] = "escalation" => k[3] <= n.occurrences /\ (n.level = 0 => k[3] < n.occurrences)
    BY <2>1, <2>2, <2>3 DEF Counts, NoteType
  <2> QED
    BY <2>1, <2>4 DEF KeyOK, n
<1>2. CASE k[4] \notin {"notification", "escalation"}
  BY <1>2 DEF KeyOK
<1> QED
  BY <1>1, <1>2

LEMMA SameDomains ==
  ASSUME NEW d
  PROVE  /\ \A keys, status : DOMAIN SetStatus(d, keys, status) = DOMAIN d
         /\ \A keys : DOMAIN Cancel(d, keys) = DOMAIN d
         /\ \A c : DOMAIN Recover(d, c) = DOMAIN d
         /\ DOMAIN CancelDisabled(d) = DOMAIN d
         /\ \A keys : DOMAIN Claimed(d, keys) = DOMAIN d
<1>1. \A keys, status : DOMAIN SetStatus(d, keys, status) = DOMAIN d
  BY DEF SetStatus
<1>2. \A keys : DOMAIN Cancel(d, keys) = DOMAIN d
  BY <1>1, Zenon DEF Cancel
<1>3. \A c : DOMAIN Recover(d, c) = DOMAIN d
  BY <1>1, Zenon DEF Recover
<1>4. DOMAIN CancelDisabled(d) = DOMAIN d
  BY <1>2, Zenon DEF CancelDisabled
<1>5. \A keys : DOMAIN Claimed(d, keys) = DOMAIN d
  BY DEF Claimed
<1> QED
  BY <1>1, <1>2, <1>3, <1>4, <1>5

\* A step that raises nothing queues tests and daily summaries at most.
Unraised == \A k \in DOMAIN deliveries' \ DOMAIN deliveries : k[4] \in {"test", "scheduled"}

LEMMA OperatorUnraised ==
  ASSUME Operator
  PROVE  Unraised
<1>1. ASSUME DOMAIN deliveries' = DOMAIN deliveries PROVE Unraised
  BY <1>1 DEF Unraised
<1>2. ASSUME NEW keys, deliveries' = Cancel(deliveries, keys) PROVE Unraised
  BY <1>1, <1>2, SameDomains
<1>3. ASSUME NEW targets, EnqueueTests(targets) PROVE Unraised
  <2> DEFINE keys == {<<<<"test", "operator">>, t, budget.acts, "test">> : t \in targets}
  <2>1. deliveries' = Insert(deliveries, keys, "pending")
    BY <1>3 DEF EnqueueTests
  <2>2. \A k \in keys : k[4] = "test"
    OBVIOUS
  <2> HIDE DEF keys
  <2>3. DOMAIN deliveries' = DOMAIN deliveries \cup keys
    BY <2>1 DEF Insert
  <2> QED
    BY <2>2, <2>3 DEF Unraised
<1>4. CASE OnNotifications
  <2>1. \E keys : deliveries' = Cancel(deliveries, keys)
    BY <1>4, Zenon DEF OnNotifications, MarkNotification, MarkAllRead
  <2> QED
    BY <1>2, <2>1
<1>5. CASE OnIncidents
  <2>1. \E keys : deliveries' = Cancel(deliveries, keys)
    BY <1>5, Zenon DEF OnIncidents, AcknowledgeIncident, ResolveIncident
  <2> QED
    BY <1>2, <2>1
<1>6. CASE OnDestinations
  <2>1. CASE \E s \in Subscriptions : Subscribe(s) \/ Unsubscribe(s)
    <3>1. deliveries' = deliveries \/ \E keys : deliveries' = Cancel(deliveries, keys)
      BY <2>1, Zenon DEF Subscribe, Unsubscribe
    <3> QED
      BY <1>1, <1>2, <3>1
  <2>2. CASE \E h \in Hooks \cup {Off} : SaveWebhook(h)
    <3>1. deliveries' = deliveries \/ \E keys : deliveries' = Cancel(deliveries, keys)
      BY <2>2, Zenon DEF SaveWebhook
    <3> QED
      BY <1>1, <1>2, <3>1
  <2> QED
    BY <1>3, <1>6, <2>1, <2>2 DEF OnDestinations, PushTest, ExternalTest
<1>7. CASE OnSummary
  <2>1. ASSUME NEW on, SaveSummary(on) PROVE Unraised
    <3>1. deliveries' = deliveries \/ \E keys : deliveries' = Cancel(deliveries, keys)
      BY <2>1, Zenon DEF SaveSummary
    <3> QED
      BY <1>1, <1>2, <3>1
  <2>2. ASSUME NEW c, SummaryTest(c) PROVE Unraised
    BY <1>3, <2>2 DEF SummaryTest
  <2>3. ASSUME NEW k, RetrySummary(k) PROVE Unraised
    <3>1. DOMAIN deliveries' = DOMAIN deliveries
      BY <2>3 DEF RetrySummary
    <3> QED
      BY <1>1, <3>1
  <2> QED
    BY <1>7, <2>1, <2>2, <2>3 DEF OnSummary
<1>8. CASE \E p \in Preferences : SavePreferences(p)
  BY <1>1, <1>8 DEF SavePreferences
<1> QED
  BY <1>4, <1>5, <1>6, <1>7, <1>8 DEF Operator

LEMMA DeliverUnraised ==
  ASSUME NEW c \in Channels, Deliver(c)
  PROVE  Unraised
<1>1. ASSUME DOMAIN deliveries' = DOMAIN deliveries PROVE Unraised
  BY <1>1 DEF Unraised
<1>2. ASSUME NEW k PROVE DOMAIN Failed(k) = DOMAIN deliveries
  <2>1. PICK status : Failed(k) = SetStatus(deliveries, {Key(k)}, status)
    BY Zenon DEF Failed
  <2> QED
    BY <2>1, SameDomains
<1>3. ASSUME DropUnwanted(c) PROVE Unraised
  <2>1. deliveries' = SetStatus(deliveries, {Key(c)}, "cancelled") \/ deliveries' = Cancel(deliveries, {Key(c)})
    BY <1>3, Zenon DEF DropUnwanted
  <2>2. /\ DOMAIN SetStatus(deliveries, {Key(c)}, "cancelled") = DOMAIN deliveries
        /\ DOMAIN Cancel(deliveries, {Key(c)}) = DOMAIN deliveries
    BY SameDomains DEF SetStatus
  <2> QED
    BY <1>1, <2>1, <2>2
<1>4. ASSUME Defer(c) PROVE Unraised
  <2>1. DOMAIN deliveries' = DOMAIN deliveries
    BY <1>4 DEF Defer
  <2> QED
    BY <1>1, <2>1
<1>5. ASSUME Send(c) PROVE Unraised
  BY <1>1, <1>5 DEF Send
<1>6. ASSUME Complete(c) \/ CompleteSummary PROVE Unraised
  <2>1. \E keys : deliveries' = SetStatus(deliveries, keys, "sent")
    BY <1>6, Zenon DEF Complete, CompleteSummary
  <2> QED
    BY <1>1, <2>1, SameDomains
<1>7. ASSUME FailPush \/ FailSummary PROVE Unraised
  <2>1. \E k : deliveries' = Failed(k)
    BY <1>7, Zenon DEF FailPush, FailSummary
  <2> QED
    BY <1>1, <1>2, <2>1
<1>8. ASSUME FailExternal \/ FailGone PROVE Unraised
  <2>1. deliveries' = Failed("external")
    BY <1>8, Zenon DEF FailExternal, FailGone
  <2> QED
    BY <1>1, <1>2, <2>1
<1>9. ASSUME RetireWebhook PROVE Unraised
  <2>1. \E keys : deliveries' = SetStatus(deliveries, keys, "cancelled")
    BY <1>9, Zenon DEF RetireWebhook
  <2> QED
    BY <1>1, <2>1, SameDomains
<1> QED
  BY <1>3, <1>4, <1>5, <1>6, <1>7, <1>8, <1>9 DEF Deliver

LEMMA SummaryCycleUnraised ==
  ASSUME SummaryCycle
  PROVE  Unraised
<1> DEFINE e == Recover(CancelDisabled(deliveries), "summary")
           keys == ScheduledKeys(summary.day)
<1>1. \E built, due : deliveries' = Claimed(EnqueueDue(e, built), due)
  BY Zenon DEF SummaryCycle
<1>2. DOMAIN e = DOMAIN deliveries
  BY SameDomains
<1>3. \A k \in keys : k[4] = "scheduled"
  BY DEF ScheduledKeys
<1> HIDE DEF e, keys
<1>4. \A built : EnqueueDue(e, built) = e \/ EnqueueDue(e, built) = Insert(e, keys, "pending")
  BY Zenon DEF EnqueueDue, keys
<1>5. \A built : DOMAIN EnqueueDue(e, built) \subseteq DOMAIN e \cup keys
  BY <1>4 DEF Insert
<1>6. DOMAIN deliveries' \subseteq DOMAIN deliveries \cup keys
  <2>1. PICK built, due : deliveries' = Claimed(EnqueueDue(e, built), due)
    BY <1>1
  <2>2. DOMAIN deliveries' = DOMAIN EnqueueDue(e, built)
    BY <2>1, SameDomains
  <2> QED
    BY <1>2, <1>5, <2>2
<1> QED
  BY <1>3, <1>6 DEF Unraised

LEMMA OthersUnraised ==
  ASSUME [Next]_vars, ~RecordSignal, ~Intelligence
  PROVE  Unraised
<1>1. ASSUME DOMAIN deliveries' = DOMAIN deliveries PROVE Unraised
  BY <1>1 DEF Unraised
<1>2. CASE Scan
  <2>1. deliveries' = deliveries \/ \E keys : deliveries' = Cancel(deliveries, keys)
    BY <1>2, Zenon DEF Scan, ScanStart, ReadSource, ReadFails, SkipSource, RecordFails, ClearSource, ScanEnd
  <2> QED
    BY <1>1, <2>1, SameDomains
<1>3. CASE \E c \in {"push", "external"} : Claim(c)
  <2>1. PICK c \in {"push", "external"} : Claim(c)
    BY <1>3
  <2>2. PICK d \in {deliveries, Recover(deliveries, c)} : \E due : deliveries' = Claimed(d, due)
    BY <2>1, Zenon DEF Claim
  <2>3. DOMAIN d = DOMAIN deliveries
    BY SameDomains
  <2>4. DOMAIN deliveries' = DOMAIN d
    BY <2>2, SameDomains
  <2> QED
    BY <1>1, <2>3, <2>4
<1>4. CASE SummaryCycle
  BY <1>4, SummaryCycleUnraised
<1>5. CASE \E c \in Channels : Deliver(c)
  BY <1>5, DeliverUnraised
<1>6. CASE Operator
  BY <1>6, OperatorUnraised
<1>7. CASE Crash \/ NextDay \/ UNCHANGED vars
  BY <1>1, <1>7 DEF Crash, NextDay, vars
<1> QED
  BY <1>2, <1>3, <1>4, <1>5, <1>6, <1>7 DEF Next

-----------------------------------------------------------------------------
(* The two steps that raise.                                               *)

\* The keys a notification that asks for attention is queued under.
RaiseKeys(fp, n, kind) == KeysFor(fp, PushTargets \cup ExternalTargets, n, kind)

LEMMA KeyFields ==
  ASSUME NEW fp, NEW targets, NEW n, NEW kind, NEW k \in KeysFor(fp, targets, n, kind)
  PROVE  k[1] = fp /\ k[3] = n /\ k[4] = kind
BY DEF KeysFor

LEMMA KeyForTarget ==
  ASSUME NEW fp, NEW targets, NEW n, NEW kind, NEW t \in targets
  PROVE  \E k \in KeysFor(fp, targets, n, kind) : k[1] = fp /\ k[2] = t
<1> DEFINE k == <<fp, t, n, kind>>
<1>1. k \in KeysFor(fp, targets, n, kind) /\ k[1] = fp /\ k[2] = t
  BY DEF KeysFor
<1> QED
  BY <1>1

LEMMA QueuedDomain ==
  ASSUME NEW d, NEW fp, NEW note, NEW kind, NEW cooling, NEW quiet
  PROVE  /\ DOMAIN Queue(d, fp, note, kind, cooling, quiet) \subseteq DOMAIN d \cup RaiseKeys(fp, note.occurrences, kind)
         /\ note.state = "unread" /\ ~note.resolved =>
              DOMAIN Queue(d, fp, note, kind, cooling, quiet) = DOMAIN d \cup RaiseKeys(fp, note.occurrences, kind)
<1>1. DOMAIN Queue(d, fp, note, kind, cooling, quiet) =
        DOMAIN d \cup QueuedKeys(fp, note, kind, PushTargets) \cup QueuedKeys(fp, note, kind, ExternalTargets)
  <2> DEFINE held == Suppressed(fp, note, cooling, quiet)
             e == QueueRows(d, fp, note, kind, PushTargets, held)
             f == QueueRows(e, fp, note, kind, ExternalTargets, held)
  <2>1. Queue(d, fp, note, kind, cooling, quiet) = f
    BY Zenon DEF Queue, QueuePush, QueueExternal
  <2> HIDE DEF held
  <2>2. DOMAIN e = DOMAIN d \cup QueuedKeys(fp, note, kind, PushTargets)
    BY QueueRowsDomain
  <2> HIDE DEF e
  <2>3. DOMAIN f = DOMAIN e \cup QueuedKeys(fp, note, kind, ExternalTargets)
    BY QueueRowsDomain
  <2> QED
    BY <2>1, <2>2, <2>3
<1>2. RaiseKeys(fp, note.occurrences, kind) =
        KeysFor(fp, PushTargets, note.occurrences, kind) \cup KeysFor(fp, ExternalTargets, note.occurrences, kind)
  BY Zenon DEF RaiseKeys, KeysFor
<1>3. CASE note.state # "unread" \/ note.resolved
  BY <1>1, <1>3 DEF QueuedKeys
<1>4. CASE ~(note.state # "unread" \/ note.resolved)
  BY <1>1, <1>2, <1>4 DEF QueuedKeys
<1> QED
  BY <1>3, <1>4

\* What the property asks of a step, for one fingerprint.
Raised(f) ==
  \/ incidents'[f].status = "open" /\
       (incidents[f].status # "open" \/ Rank(incidents'[f].severity) > Rank(incidents[f].severity))
  \/ notes'[f].level > notes[f].level

QueuedFor(f) ==
  \A t \in PushTargets \cup ExternalTargets :
    \E k \in DOMAIN deliveries' \ DOMAIN deliveries : k[1] = f /\ k[2] = t

LEMMA RankOrder ==
  \A severity \in Severities : ~(Rank(severity) > Rank(severity))
BY RankValues DEF Severities

LEMMA RecordRaises ==
  ASSUME TableInv, ScanInv, DeliveryInv, KeyInv, RecordSignal
  PROVE  KeyInv' /\ \A g \in Signals : Raised(g) => QueuedFor(g)
<1> DEFINE signal == Head(scan.todo)
<1>1. signal \in Reports
  BY ActiveOK DEF ScanInv, RecordSignal
<1>2. PICK old, cooling, quiet : Upsert(signal, old, cooling, quiet)
  BY Zenon DEF RecordSignal
<1> HIDE DEF signal
<1> DEFINE f == signal.fp
           action == IncidentAction(incidents[f], signal.severity)
           row == Reported(incidents[f], signal.severity)
           note == Synced(notes[f], row, action)
<1>3. /\ f \in Signals /\ signal.severity \in Grave
      /\ notes' = [g \in Signals |-> notes'[g]]
      /\ incidents'[f] \in {row, NoIncident} /\ notes'[f] = note
      /\ \A g \in Signals \ {f} : incidents'[g] \in {incidents[g], NoIncident} /\ notes'[g] = notes[g]
  BY <1>1, <1>2, UpsertTables
<1>4. \A g \in Signals : incidents[g] \in RowType /\ notes[g] \in NoteType /\ Paired(incidents[g], notes[g])
  BY DEF TableInv
<1>5. /\ note \in NoteType
      /\ note.occurrences >= notes[f].occurrences /\ note.level <= notes[f].level
      /\ note.level # notes[f].level => note.occurrences > notes[f].occurrences
      /\ SyncRaises(notes[f], row, action) =>
           note.state = "unread" /\ ~note.resolved /\ note.occurrences = notes[f].occurrences + 1
      /\ row.status = "open" /\ (incidents[f].status # "open" \/ Rank(row.severity) > Rank(incidents[f].severity))
           => SyncRaises(notes[f], row, action)
  <2>1. incidents[f] \in RowType /\ notes[f] \in NoteType /\ Paired(incidents[f], notes[f])
    BY <1>3, <1>4
  <2> QED
    BY <1>3, <2>1, SyncEffect
<1>6. deliveries' = IF SyncRaises(notes[f], row, action)
                    THEN Queue(deliveries, f, note, "notification", cooling /\ notes[f].resolved, quiet)
                    ELSE deliveries
  BY <1>2 DEF Upsert
<1>7. TableInv'
  BY RecordTables
<1> HIDE DEF f, action, row, note
<1> DEFINE keys == RaiseKeys(f, note.occurrences, "notification")
<1>8. SyncRaises(notes[f], row, action) => DOMAIN deliveries' = DOMAIN deliveries \cup keys
  <2> DEFINE late == cooling /\ notes[f].resolved
  <2>1. SyncRaises(notes[f], row, action) => deliveries' = Queue(deliveries, f, note, "notification", late, quiet)
    BY <1>6, Zenon
  <2> HIDE DEF late
  <2>2. SyncRaises(notes[f], row, action) => note.state = "unread" /\ ~note.resolved
    BY <1>5
  <2>3. DeliveriesOK(deliveries)
    BY DEF DeliveryInv
  <2>4. \A x : note.state = "unread" /\ ~note.resolved =>
          DOMAIN Queue(deliveries, f, note, "notification", x, quiet) = DOMAIN deliveries \cup keys
    BY <2>3, QueuedDomain
  <2> QED
    BY <2>1, <2>2, <2>4
<1>9. ~SyncRaises(notes[f], row, action) => deliveries' = deliveries
  BY <1>6
<1>10. \A k \in keys : k[1] = f /\ k[3] = note.occurrences /\ k[4] = "notification"
  BY KeyFields DEF RaiseKeys
<1>11. notes[f] \in NoteType
  BY <1>3, <1>4
<1>12. KeyInv'
  <2>1. \A g \in Signals : Counts(notes[g], notes'[g])
    BY <1>3, <1>4, <1>5 DEF Counts, NoteType
  <2>2. \A k \in DOMAIN deliveries : KeyOK(k, notes')
    BY <1>7, <2>1, KeysKept DEF KeyInv
  <2>3. note.occurrences \in Nat
    BY <1>5 DEF NoteType
  <2> HIDE DEF keys
  <2>4. \A k \in keys : KeyOK(k, notes')
    BY <1>3, <1>10, <2>3 DEF KeyOK
  <2> QED
    BY <1>8, <1>9, <2>2, <2>4 DEF KeyInv
<1>13. ASSUME SyncRaises(notes[f], row, action) PROVE QueuedFor(f)
  <2>1. note.occurrences = notes[f].occurrences + 1
    BY <1>5, <1>13
  <2>2. notes[f].occurrences \in Nat
    BY <1>11 DEF NoteType
  <2> HIDE DEF keys
  <2>3. ASSUME NEW k \in keys PROVE k \notin DOMAIN deliveries
    <3>1. KeyOK(k, notes) => k[3] <= notes[f].occurrences
      BY <1>10, <2>3 DEF KeyOK
    <3>2. k[3] = notes[f].occurrences + 1
      BY <1>10, <2>1, <2>3
    <3>3. ~KeyOK(k, notes)
      BY <2>2, <3>1, <3>2
    <3> QED
      BY <3>3 DEF KeyInv
  <2>4. \A t \in PushTargets \cup ExternalTargets : \E k \in keys : k[1] = f /\ k[2] = t
    BY KeyForTarget DEF keys, RaiseKeys
  <2> QED
    BY <1>8, <1>13, <2>3, <2>4 DEF QueuedFor
<1>14. ASSUME NEW g \in Signals, Raised(g) PROVE QueuedFor(g)
  <2>1. NoIncident.status = "none"
    BY DEF NoIncident
  <2>2. CASE g = f
    <3>1. ~(note.level > notes[f].level)
      BY <1>5, <1>11 DEF NoteType
    <3>2. /\ incidents'[f].status = "open"
          /\ incidents[f].status # "open" \/ Rank(incidents'[f].severity) > Rank(incidents[f].severity)
      BY <1>3, <1>14, <2>2, <3>1 DEF Raised
    <3>3. incidents'[f] = row
      BY <1>3, <2>1, <3>2
    <3>4. SyncRaises(notes[f], row, action)
      BY <1>5, <3>2, <3>3
    <3> QED
      BY <1>13, <2>2, <3>4
  <2>3. CASE g # f
    <3>1. notes'[g] = notes[g] /\ incidents'[g] \in {incidents[g], NoIncident}
      BY <1>3, <2>3
    <3>2. ~(notes[g].level > notes[g].level) /\ ~(Rank(incidents[g].severity) > Rank(incidents[g].severity))
      BY <1>4, RankOrder DEF NoteType, RowType
    <3> QED
      BY <1>14, <2>1, <3>1, <3>2 DEF Raised
  <2> QED
    BY <2>2, <2>3
<1> QED
  BY <1>12, <1>14

LEMMA IntelligenceRaises ==
  ASSUME TableInv, DeliveryInv, KeyInv, Intelligence
  PROVE  KeyInv' /\ \A g \in Signals : Raised(g) => QueuedFor(g)
<1>1. PICK f \in EscalationEligible, quiet \in BOOLEAN :
        /\ notes' = [notes EXCEPT ![f] = EscalatedNote(@)]
        /\ deliveries' = Queue(Cancel(deliveries, About(deliveries, {f})), f,
                               EscalatedNote(notes[f]), "escalation", FALSE, quiet)
  BY Zenon DEF Intelligence
<1>2. f \in Signals /\ notes[f].level = 0 /\ ~notes[f].resolved
  BY DEF EscalationEligible
<1>3. \A g \in Signals : incidents[g] \in RowType /\ notes[g] \in NoteType
  BY DEF TableInv
<1>4. TableInv' /\ incidents' = incidents
  BY IntelligenceTables
<1> DEFINE note == EscalatedNote(notes[f])
           d == Cancel(deliveries, About(deliveries, {f}))
           keys == RaiseKeys(f, notes[f].occurrences, "escalation")
<1>5. /\ note.state = "unread" /\ ~note.resolved /\ note.occurrences = notes[f].occurrences /\ note.level = 1
      /\ notes[f].occurrences \in Nat
  BY <1>2, <1>3 DEF EscalatedNote, NoteType
<1>6. DeliveriesOK(d) /\ DOMAIN d = DOMAIN deliveries
  BY CancelEffect DEF DeliveryInv, Evolves
<1>7. notes'[f] = note /\ \A g \in Signals \ {f} : notes'[g] = notes[g]
  BY <1>1, <1>2 DEF TableInv
<1> HIDE DEF note, d
<1>8. DOMAIN deliveries' = DOMAIN deliveries \cup keys
  <2>1. \A n : n.state = "unread" /\ ~n.resolved =>
          DOMAIN Queue(d, f, n, "escalation", FALSE, quiet) = DOMAIN d \cup RaiseKeys(f, n.occurrences, "escalation")
    BY <1>6, QueuedDomain
  <2>2. deliveries' = Queue(d, f, note, "escalation", FALSE, quiet)
    BY <1>1, Zenon DEF d, note
  <2> QED
    BY <1>5, <1>6, <2>1, <2>2
<1>9. \A k \in keys : k[1] = f /\ k[3] = notes[f].occurrences /\ k[4] = "escalation"
  BY KeyFields DEF RaiseKeys
<1>10. KeyInv'
  <2>1. \A g \in Signals : Counts(notes[g], notes'[g])
    BY <1>2, <1>3, <1>5, <1>7 DEF Counts, NoteType
  <2>2. \A k \in DOMAIN deliveries : KeyOK(k, notes')
    BY <1>4, <2>1, KeysKept DEF KeyInv
  <2> HIDE DEF keys
  <2>3. \A k \in keys : KeyOK(k, notes')
    BY <1>2, <1>5, <1>7, <1>9 DEF KeyOK
  <2> QED
    BY <1>8, <2>2, <2>3 DEF KeyInv
<1>11. QueuedFor(f)
  <2> HIDE DEF keys
  <2>1. ASSUME NEW k \in keys PROVE k \notin DOMAIN deliveries
    <3>1. KeyOK(k, notes) => k[3] < notes[f].occurrences
      BY <1>2, <1>9, <2>1 DEF KeyOK
    <3>2. ~KeyOK(k, notes)
      BY <1>5, <1>9, <2>1, <3>1
    <3> QED
      BY <3>2 DEF KeyInv
  <2>2. \A t \in PushTargets \cup ExternalTargets : \E k \in keys : k[1] = f /\ k[2] = t
    BY KeyForTarget DEF keys, RaiseKeys
  <2> QED
    BY <1>8, <2>1, <2>2 DEF QueuedFor
<1>12. ASSUME NEW g \in Signals, Raised(g) PROVE QueuedFor(g)
  <2>1. CASE g = f
    BY <1>11, <2>1
  <2>2. CASE g # f
    <3>1. ~(notes[g].level > notes[g].level) /\ ~(Rank(incidents[g].severity) > Rank(incidents[g].severity))
      BY <1>3, RankOrder DEF NoteType, RowType
    <3> QED
      BY <1>4, <1>7, <1>12, <2>2, <3>1 DEF Raised
  <2> QED
    BY <2>1, <2>2
<1> QED
  BY <1>10, <1>12

\* No other step raises, or uncounts an occurrence.
LEMMA OthersCount ==
  ASSUME TableInv, [Next]_vars, ~RecordSignal, ~Intelligence
  PROVE  \A g \in Signals : SameCounts(notes[g], notes'[g]) /\ ~Raised(g)
<1>1. \A g \in Signals : incidents[g] \in RowType /\ notes[g] \in NoteType
  BY DEF TableInv
<1>2. \A g \in Signals : ~(Rank(incidents[g].severity) > Rank(incidents[g].severity))
  BY <1>1, RankOrder DEF RowType
<1>3. ASSUME \A g \in Signals : SameCounts(notes[g], notes'[g]),
             \A g \in Signals : incidents'[g].status = "open" => incidents'[g] = incidents[g]
      PROVE  \A g \in Signals : SameCounts(notes[g], notes'[g]) /\ ~Raised(g)
  <2>1. \A g \in Signals : ~(notes'[g].level > notes[g].level)
    BY <1>1, <1>3 DEF SameCounts, NoteType
  <2> QED
    BY <1>2, <1>3, <2>1 DEF Raised
<1>4. ASSUME incidents' = incidents, notes' = notes
      PROVE  \A g \in Signals : SameCounts(notes[g], notes'[g]) /\ ~Raised(g)
  BY <1>3, <1>4 DEF SameCounts
<1>5. CASE Scan /\ ~ClearSource
  BY <1>4, <1>5, OtherScanSteps
<1>6. CASE ClearSource
  <2> DEFINE source == FirstOf(scan.scanned)
  <2>1. \A g \in Signals :
          /\ incidents'[g] = IF g \in Inactive(source) THEN Cleared(incidents[g]) ELSE incidents[g]
          /\ notes'[g] = IF g \in Gone(source) THEN ResolvedNote(notes[g]) ELSE notes[g]
    BY <1>6, ClearEffect
  <2> HIDE DEF source
  <2>2. \A g \in Signals : Cleared(incidents[g]).status # "open"
    BY <1>1, ClearedEffect DEF RowType
  <2>3. \A g \in Signals : SameCounts(notes[g], ResolvedNote(notes[g]))
    BY <1>1 DEF SameCounts, ResolvedNote, NoteType
  <2>4. \A g \in Signals : SameCounts(notes[g], notes'[g])
    BY <2>1, <2>3 DEF SameCounts
  <2> QED
    BY <1>3, <2>1, <2>2, <2>4
<1>7. CASE OnNotifications
  BY <1>3, <1>7, NotificationTables
<1>8. CASE OnIncidents
  BY <1>3, <1>8, IncidentTables
<1> QED
  BY <1>4, <1>5, <1>6, <1>7, <1>8, StepCases DEF Aside

LEMMA KeysNext ==
  ASSUME TableInv, ScanInv, DeliveryInv, KeyInv, [Next]_vars
  PROVE  KeyInv' /\ \A g \in Signals : Raised(g) => QueuedFor(g)
<1>1. CASE RecordSignal
  BY <1>1, RecordRaises
<1>2. CASE Intelligence
  BY <1>2, IntelligenceRaises
<1>3. CASE ~RecordSignal /\ ~Intelligence
  <2>1. \A g \in Signals : SameCounts(notes[g], notes'[g]) /\ ~Raised(g)
    BY <1>3, OthersCount
  <2>2. TableInv'
    BY TablesNext
  <2>3. \A g \in Signals : Counts(notes[g], notes'[g])
    BY <2>1 DEF SameCounts, Counts, TableInv, NoteType
  <2>4. \A k \in DOMAIN deliveries : KeyOK(k, notes')
    BY <2>2, <2>3, KeysKept DEF KeyInv
  <2>5. \A k \in DOMAIN deliveries' \ DOMAIN deliveries : KeyOK(k, notes')
    BY <1>3, OthersUnraised DEF Unraised, KeyOK
  <2> QED
    BY <2>1, <2>4, <2>5 DEF KeyInv
<1> QED
  BY <1>1, <1>2, <1>3

LEMMA KeysAlways == Spec => []KeyInv
<1>1. Init => KeyInv
  BY DEF Init, KeyInv
<1>2. TableInv /\ ScanInv /\ DeliveryInv /\ KeyInv /\ [Next]_vars => KeyInv'
  BY KeysNext
<1> QED
  BY <1>1, <1>2, TablesAlways, DeliveryAlways, PTL DEF Spec

\* Whenever an incident opens, reopens or worsens, or a warning escalates, each
\* enabled destination gets a row: the unique key never swallows it.
THEOREM RaisesAreQueued == Spec => EveryRaiseQueued
<1> DEFINE Queued == \A f \in Signals :
      \/ incidents'[f].status = "open" /\
           (incidents[f].status # "open" \/ Rank(incidents'[f].severity) > Rank(incidents[f].severity))
      \/ notes'[f].level > notes[f].level
      => \A t \in PushTargets \cup ExternalTargets :
           \E k \in DOMAIN deliveries' \ DOMAIN deliveries : k[1] = f /\ k[2] = t
<1>1. TableInv /\ ScanInv /\ DeliveryInv /\ KeyInv /\ [Next]_vars => [Queued]_vars
  BY KeysNext DEF Raised, QueuedFor
<1> QED
  BY <1>1, TablesAlways, DeliveryAlways, KeysAlways, PTL DEF Spec, EveryRaiseQueued

=============================================================================

------------------------------- MODULE Alerts -------------------------------
(***************************************************************************)
(* How ZEN Control tells somebody that something is wrong: the incident    *)
(* monitor scans its sources and raises or clears incidents                *)
(* (app/incidents.py), every incident has one notification                 *)
(* (app/policy_store.py), a notification that needs attention is queued    *)
(* for every browser subscription and every external destination, and a    *)
(* worker per channel sends what is queued (app/push_delivery.py,          *)
(* app/external_delivery.py, app/summary_delivery.py).                     *)
(*                                                                         *)
(* Each database transaction is one step.  A cycle of a worker is a claim, *)
(* then for each claimed row a send and the transaction that records its   *)
(* outcome, so an operator, the scan or a crash may come between any two.  *)
(***************************************************************************)
EXTENDS Naturals, Sequences, FiniteSets, SequencesExt

CONSTANTS
  Deployments,    \* the deployments a behaviour may start in: see Deployment
  Preferences,    \* the notification preferences an operator may save
  Subscriptions,  \* browser push subscriptions
  Hooks,          \* webhook URLs
  Off,            \* no webhook is enabled
  MaxAttempts,    \* attempts per channel before a delivery has failed
  MaxDays         \* the last day a summary is due, less than the shortest retention

SummaryChannels == {"summary:email", "summary:webhook"}

\* A deployment: the sources that may report something, in scan order, where
\* alerts go at first, the channels its daily summary has an address for, and how many scans, operator's acts and upsets
\* (crashes, failed database writes, prunings) a behaviour may have.
Deployment ==
  [sources : Seq({"security", "reconciler", "operations", "bypass", "quota"}),
   prefs : Preferences, subs : [Subscriptions -> BOOLEAN], webhook : Hooks \cup {Off}, summary : SUBSET SummaryChannels,
   budget : [scans : Nat, acts : Nat, upsets : Nat]]

ASSUME AlertsAssumption ==
  /\ MaxAttempts \in [{"push", "external", "summary"} -> Nat \ {0}]
  /\ MaxDays \in 0 .. 29
  /\ IsFiniteSet(Subscriptions)
  /\ Off \notin Hooks
  /\ \A d \in Deployments : d \in Deployment

VARIABLES
  sources,        \* the sources of this deployment, in scan order
  incidents,      \* table incidents, by fingerprint
  notes,          \* table notifications, by the incident's fingerprint
  prefs,          \* app_settings notification_*
  subs,           \* enabled flag of each push subscription
  webhook,        \* the enabled webhook URL, or Off
  deliveries,     \* the three delivery tables, by their unique key
  worker,         \* what each channel's cycle holds in memory
  scan,           \* what the incident monitor's cycle holds in memory
  summary,        \* daily summary settings and the day that is due
  budget          \* what is left of each of the deployment's bounds

vars == <<sources, incidents, notes, prefs, subs, webhook, deliveries, worker, scan, summary, budget>>

-----------------------------------------------------------------------------
(* Signals *)

Rank(severity) == CASE severity = "info" -> 0 [] severity = "warning" -> 1 [] severity = "critical" -> 2

Worse(a, b) == IF Rank(a) > Rank(b) THEN a ELSE b

\* A fingerprint is the source and what is wrong there.
Signal(source, what, severity) == [fp |-> <<source, what>>, severity |-> severity]

When(condition, signal) == IF condition THEN <<signal>> ELSE <<>>

\* What a successful read of a source may find, in the order it is recorded.
SecurityFindings ==
  { When(report.failed, Signal("security", "enforcement-authority", "critical"))
      \o When(report.warned, Signal("security", "posture-warnings", "warning"))
    : report \in [failed : BOOLEAN, warned : BOOLEAN] }

ReconcilerFindings ==
  { When(report.hold, Signal("reconciler", "cooldown-hold", "critical"))
      \o When(report.last = "security_hold", Signal("reconciler", "security-hold", "critical"))
      \o When(report.last = "failed", Signal("reconciler", "last-cycle-failed", "warning"))
    : report \in [hold : BOOLEAN, last : {"ok", "security_hold", "failed"}] }

ReadinessIssues ==
  SUBSET {"policy database", "RouterOS API", "RouterOS enforcement posture",
          "security posture", "reconciliation worker"}

\* Readiness has one incident, unless the closed security gate is all that is wrong.
OperationsFindings ==
  { When(issues \ {"RouterOS enforcement posture"} # {}, Signal("operations", "not-ready", "critical"))
    : issues \in ReadinessIssues }

BypassFindings ==
  { When(risk # "clear", Signal("bypass", "device", IF risk = "high" THEN "critical" ELSE "warning"))
    : risk \in {"clear", "elevated", "high"} }

QuotaFindings ==
  { When(~report.available, Signal("quota", "telemetry", "warning"))
      \o When(report.available /\ report.daily, Signal("quota", "daily", "warning"))
      \o When(report.available /\ report.service, Signal("quota", "service", "warning"))
    : report \in [available : BOOLEAN, daily : BOOLEAN, service : BOOLEAN] }

TelemetrySignal == Signal("telemetry", "bypass-unavailable", "warning")

Findings(source) ==
  CASE source = "security"   -> SecurityFindings
    [] source = "reconciler" -> ReconcilerFindings
    [] source = "operations" -> OperationsFindings
    [] source = "bypass"     -> BypassFindings
    [] source = "quota"      -> QuotaFindings

Signals ==
  {TelemetrySignal.fp} \cup
  UNION { { f[i].fp : i \in DOMAIN f } :
          f \in SecurityFindings \cup ReconcilerFindings \cup OperationsFindings
                  \cup BypassFindings \cup QuotaFindings }

SourceOf(fp) == fp[1]

\* Sources are cleared in alphabetical order.
ClearOrder == <<"bypass", "operations", "quota", "reconciler", "security", "telemetry">>

-----------------------------------------------------------------------------
(* Delivery rows: their key is <<about, destination, occurrence, kind>>. *)

ChannelOf(key) ==
  IF key[2] \in Subscriptions THEN "push" ELSE IF key[2] \in Hooks THEN "external" ELSE "summary"

\* INSERT OR IGNORE under the unique key.
Insert(d, keys, status) ==
  [k \in DOMAIN d \cup keys |-> IF k \in DOMAIN d THEN d[k] ELSE [status |-> status, attempts |-> 0]]

WithStatus(row, status) == [row EXCEPT !.status = status]

SetStatus(d, keys, status) ==
  [k \in DOMAIN d |-> IF k \in keys THEN WithStatus(d[k], status) ELSE d[k]]

About(d, fps) == {k \in DOMAIN d : k[1] \in fps}

CancelEverything(d, keys) == SetStatus(d, keys \cap DOMAIN d, "cancelled")

Cancel(d, keys) ==
  SetStatus(d, {k \in keys \cap DOMAIN d : d[k].status \in {"pending", "sending"}}, "cancelled")

-----------------------------------------------------------------------------
(* Notifications *)

NoNote ==
  [state |-> "none", severity |-> "info", source |-> "info", resolved |-> FALSE, occurrences |-> 0, level |-> 0]

WithState(note, state) == [note EXCEPT !.state = state]

\* _notification_policy_decision: cooling says the row was resolved less than
\* the cooldown ago, quiet that the clock is inside the quiet hours.
Suppressed(fp, note, cooling, quiet) ==
  \/ ~prefs.enabled
  \/ Rank(note.severity) < Rank(prefs.min_severity)
  \/ SourceOf(fp) \in prefs.muted
  \/ cooling /\ note.severity # "critical"
  \/ prefs.quiet_hours /\ quiet /\ ~(note.severity = "critical" /\ prefs.critical_bypass)

PushTargets == {s \in Subscriptions : subs[s]}

\* The SMTP recipient is one more such target, which cannot be retired; the model has the webhook.
ExternalTargets == {webhook} \ {Off}

\* A row for each target, pending or suppressed for good.
QueueRows(d, fp, note, kind, targets, held) ==
  IF note.state # "unread" \/ note.resolved
  THEN d
  ELSE Insert(d, {<<fp, t, note.occurrences, kind>> : t \in targets}, IF held THEN "suppressed" ELSE "pending")

QueuePush(d, fp, note, kind, held) == QueueRows(d, fp, note, kind, PushTargets, held)

QueueExternal(d, fp, note, kind, held) == QueueRows(d, fp, note, kind, ExternalTargets, held)

Queue(d, fp, note, kind, cooling, quiet) ==
  LET held == Suppressed(fp, note, cooling, quiet)
  IN  QueueExternal(QueuePush(d, fp, note, kind, held), fp, note, kind, held)

Reopens(note, attention) == attention /\ note.resolved

Escalates(note, severity) == Rank(severity) > Rank(note.source)

\* An escalation by age or repetition outlives a milder report of the same signal.
AttentionSeverityForgets(note, severity, attention) == severity

AttentionSeverity(note, severity, attention) ==
  IF note.level = 0 \/ Reopens(note, attention) \/ (attention /\ Escalates(note, severity))
  THEN severity
  ELSE Worse(severity, note.severity)

Upserted(note, severity, attention, increment) ==
  IF note.state = "none"
  THEN [NoNote EXCEPT !.state = "unread", !.severity = severity, !.source = severity, !.occurrences = 1]
  ELSE [state       |-> IF Reopens(note, attention) \/ (attention /\ Escalates(note, severity))
                        THEN "unread" ELSE note.state,
        severity    |-> AttentionSeverity(note, severity, attention),
        source      |-> severity,
        resolved    |-> note.resolved /\ ~Reopens(note, attention),
        occurrences |-> IF increment THEN note.occurrences + 1 ELSE note.occurrences,
        level       |-> IF Reopens(note, attention) THEN 0 ELSE note.level]

\* The upserts that call for attention are the ones that are queued.
Raises(note, severity, attention) ==
  attention /\ (note.state = "none" \/ note.resolved \/ Escalates(note, severity))

-----------------------------------------------------------------------------
(* Incidents *)

NoIncident == [status |-> "none", severity |-> "info", suppress |-> FALSE]

\* upsert_incident: what happens to the row, and the row afterwards.
IncidentAction(row, severity) ==
  CASE row.status = "none" -> "opened"
    [] row.status = "resolved" -> IF row.suppress THEN "suppressed" ELSE "reopened"
    [] OTHER -> IF row.severity # severity THEN "severity_changed" ELSE "updated"

Reported(row, severity) ==
  [row EXCEPT !.severity = severity,
              !.status = IF IncidentAction(row, severity) \in {"opened", "reopened"} THEN "open" ELSE @]

\* _sync_incident_notification_db: only a new state of the incident counts as an occurrence.
CountsAsOccurrenceOpened(action) == action = "opened"

CountsAsOccurrence(action) == action \in {"opened", "reopened", "severity_changed"}

Synced(note, row, action) ==
  LET creates == note.state = "none" /\ row.status # "resolved"
      news    == creates \/ CountsAsOccurrence(action)
      written == Upserted(note, row.severity, news /\ row.status = "open", CountsAsOccurrence(action))
  IN  IF ~news /\ note.state = "none" THEN note
      ELSE IF creates /\ row.status = "acknowledged" THEN WithState(written, "acknowledged")
      ELSE written

SyncRaises(note, row, action) ==
  /\ row.status = "open"
  /\ note.state = "none" \/ CountsAsOccurrence(action)
  /\ Raises(note, row.severity, TRUE)

\* Any resolved incident may be past its retention when an upsert prunes the table.
Pruned(rows, old) ==
  [f \in Signals |-> IF f \in old /\ rows[f].status = "resolved" THEN NoIncident ELSE rows[f]]

Upsert(signal, old, cooling, quiet) ==
  LET f      == signal.fp
      action == IncidentAction(incidents[f], signal.severity)
      row    == Reported(incidents[f], signal.severity)
      note   == Synced(notes[f], row, action)
  IN  /\ incidents' = Pruned([incidents EXCEPT ![f] = row], old)
      /\ notes' = [notes EXCEPT ![f] = note]
      /\ deliveries' = IF SyncRaises(notes[f], row, action)
                       THEN Queue(deliveries, f, note, "notification", cooling /\ notes[f].resolved, quiet)
                       ELSE deliveries

ResolvedNote(note) == IF note.state = "none" THEN note ELSE [note EXCEPT !.resolved = TRUE]

-----------------------------------------------------------------------------
(* The incident monitor's cycle *)

NoScan == [at |-> 0, todo |-> <<>>, scanned |-> {}, active |-> {}, read |-> {}, handler |-> FALSE]

Current == sources[scan.at]

Scanning == scan.at \in DOMAIN sources

NextSource(s) == [s EXCEPT !.at = @ + 1, !.todo = <<>>, !.handler = FALSE]

Upset == budget.upsets > 0 /\ budget' = [budget EXCEPT !.upsets = @ - 1, !.used = @ + 1]

ScanStart ==
  /\ scan.at = 0 /\ budget.scans > 0
  /\ scan' = [NoScan EXCEPT !.at = 1]
  /\ budget' = [budget EXCEPT !.scans = @ - 1]
  /\ UNCHANGED <<sources, incidents, notes, prefs, subs, webhook, deliveries, worker, summary>>

\* The bypass source answers for telemetry as well, once all of it is recorded.
Recorded(s) ==
  IF Current = "bypass" /\ ~s.handler
  THEN [NextSource(s) EXCEPT !.scanned = @ \cup {"telemetry"}, !.read = @ \cup {"telemetry"}]
  ELSE NextSource(s)

Found(s, found) ==
  [s EXCEPT !.scanned = @ \cup {Current}, !.read = @ \cup {Current}, !.todo = found]

ReadSource ==
  /\ Scanning /\ scan.todo = <<>>
  /\ \E found \in Findings(Current) :
       scan' = IF found = <<>> THEN Recorded(Found(scan, found)) ELSE Found(scan, found)
  /\ UNCHANGED <<sources, incidents, notes, prefs, subs, webhook, deliveries, worker, summary, budget>>

\* A source that cannot be read is not scanned; for bypass evidence that is a signal itself.
AfterFailureScanned(s) == NextSource([s EXCEPT !.scanned = @ \cup {Current}])

AfterFailure(s) ==
  IF Current = "bypass" THEN [s EXCEPT !.todo = <<TelemetrySignal>>, !.handler = TRUE] ELSE NextSource(s)

ReadFails ==
  /\ Scanning /\ scan.todo = <<>>
  /\ scan' = AfterFailure(scan)
  /\ UNCHANGED <<sources, incidents, notes, prefs, subs, webhook, deliveries, worker, summary, budget>>

\* Without a managed device there is no bypass evidence and no quota to read.
SkipSource ==
  /\ Scanning /\ scan.todo = <<>> /\ Current \in {"bypass", "quota"}
  /\ scan' = NextSource(scan)
  /\ UNCHANGED <<sources, incidents, notes, prefs, subs, webhook, deliveries, worker, summary, budget>>

\* _record_signal notes the fingerprint as active, then upserts the incident.
Active(s) == [s EXCEPT !.active = @ \cup {Head(s.todo).fp}, !.todo = Tail(@)]

RecordSignal ==
  /\ scan.todo # <<>>
  /\ \E old \in SUBSET {f \in Signals : incidents[f].status = "resolved"}, cooling, quiet \in BOOLEAN :
       /\ cooling => prefs.cooldown
       /\ quiet => prefs.quiet_hours
       /\ IF old = {} THEN UNCHANGED budget ELSE Upset
       /\ Upsert(Head(scan.todo), old, cooling, quiet)
  /\ scan' = IF Len(scan.todo) = 1 THEN Recorded(Active(scan)) ELSE Active(scan)
  /\ UNCHANGED <<sources, prefs, subs, webhook, worker, summary>>

\* The upsert raises: the source's handler takes it as a failed read; in the
\* handler of the bypass source it ends the cycle.
RecordFails ==
  /\ scan.todo # <<>> /\ Upset
  /\ scan' = IF scan.handler THEN NoScan ELSE AfterFailure(Active(scan))
  /\ UNCHANGED <<sources, incidents, notes, prefs, subs, webhook, deliveries, worker, summary>>

\* resolve_inactive_incidents for one scanned source.
Inactive(source) == {f \in Signals : SourceOf(f) = source} \ scan.active

Gone(source) == {f \in Inactive(source) : incidents[f].status \in {"open", "acknowledged"}}

Cleared(row) ==
  [row EXCEPT !.status = IF @ \in {"open", "acknowledged"} THEN "resolved" ELSE @, !.suppress = FALSE]

FirstOf(names) ==
  ClearOrder[CHOOSE i \in DOMAIN ClearOrder :
               ClearOrder[i] \in names /\ \A j \in DOMAIN ClearOrder : j < i => ClearOrder[j] \notin names]

ClearSource ==
  /\ scan.at > Len(sources) /\ scan.scanned # {}
  /\ LET source == FirstOf(scan.scanned)
     IN  /\ incidents' = [f \in Signals |-> IF f \in Inactive(source) THEN Cleared(incidents[f]) ELSE incidents[f]]
         /\ notes' = [f \in Signals |-> IF f \in Gone(source) THEN ResolvedNote(notes[f]) ELSE notes[f]]
         /\ deliveries' = Cancel(deliveries, About(deliveries, Gone(source)))
         /\ scan' = [scan EXCEPT !.scanned = @ \ {source}]
  /\ UNCHANGED <<sources, prefs, subs, webhook, worker, summary, budget>>

ScanEnd ==
  /\ scan.at > Len(sources) /\ scan.scanned = {}
  /\ scan' = NoScan
  /\ UNCHANGED <<sources, incidents, notes, prefs, subs, webhook, deliveries, worker, summary, budget>>

-----------------------------------------------------------------------------
(* The delivery workers *)

Idle == [batch |-> <<>>, outcome |-> "none", settings |-> [on |-> FALSE, ready |-> FALSE]]

Channels == {"push", "external", "summary"}

Held == UNION {Range(worker[c].batch) : c \in Channels}

Rows(d, c, statuses) == {k \in DOMAIN d : ChannelOf(k) = c /\ d[k].status \in statuses}

\* Deliveries left in 'sending' by an interrupted cycle are pending again after two minutes.
RecoverNone(d, c) == d

Recover(d, c) == SetStatus(d, Rows(d, c, {"sending"}), "pending")

Claimed(d, keys) ==
  [k \in DOMAIN d |-> IF k \in keys THEN [status |-> "sending", attempts |-> d[k].attempts + 1] ELSE d[k]]

\* run_cycle recovers, then claims what is pending and due, however often it was tried.
Claim(c) ==
  /\ worker[c].batch = <<>>
  /\ \E d \in {deliveries, Recover(deliveries, c)} :
       \E due \in SUBSET Rows(d, c, {"pending"}) \ {{}} :
         /\ deliveries' = Claimed(d, due)
         /\ worker' = [worker EXCEPT ![c] = [Idle EXCEPT !.batch = SetToSeq(due)]]
  /\ UNCHANGED <<sources, incidents, notes, prefs, subs, webhook, scan, summary, budget>>

ScheduledKeys(day) == {<<<<"summary", "daily">>, c, day, "scheduled">> : c \in summary.channels}

\* cancel_disabled_summary_deliveries: a test only needs its channel.
CancelDisabled(d) ==
  IF summary.on THEN d
  ELSE Cancel(d, {k \in DOMAIN d : ChannelOf(k) = "summary" /\ k[4] = "scheduled"})

\* enqueue_due: the day's summary, once for each channel, when it can be built.
EnqueueDue(d, built) ==
  IF summary.on /\ built THEN Insert(d, ScheduledKeys(summary.day), "pending") ELSE d

\* The summary worker recovers whatever is in 'sending' and claims only what has attempts left.
ClaimSummary(d) == {k \in Rows(d, "summary", {"pending"}) : d[k].attempts < MaxAttempts["summary"]}

SummaryCycle ==
  /\ worker["summary"].batch = <<>>
  /\ \E built \in BOOLEAN :
       LET d   == EnqueueDue(Recover(CancelDisabled(deliveries), "summary"), built)
           due == ClaimSummary(d)
       IN  /\ d # deliveries \/ due # {}
           /\ deliveries' = Claimed(d, due)
           /\ worker' = [worker EXCEPT !["summary"] =
                [batch |-> SetToSeq(due), outcome |-> "none",
                 settings |-> [on |-> summary.on, ready |-> summary.ready]]]
  /\ UNCHANGED <<sources, incidents, notes, prefs, subs, webhook, scan, summary, budget>>

Key(c) == Head(worker[c].batch)

Rest(held) == [held EXCEPT !.batch = Tail(@), !.outcome = "none"]

Done(c) == [worker EXCEPT ![c] = Rest(@)]

\* What may come of a send: delivered, an error worth a retry, a refusal that
\* is not, or a destination that is gone for good (404 and 410; 410 for a webhook).
Outcomes(c) ==
  CASE c = "push"     -> {"ok", "error", "gone"}
    [] c = "external" -> {"ok", "error", "refused", "gone"}
    [] c = "summary"  -> {"ok", "error"}

\* A subscription disabled since the claim, or a summary schedule that was off at it, cancels.
Unwanted(c) ==
  \/ c = "push" /\ ~subs[Key(c)[2]]
  \/ c = "summary" /\ Key(c)[4] = "scheduled" /\ ~worker[c].settings.on

Deferred(c) == c = "summary" /\ ~worker[c].settings.ready

Waiting(c) == worker[c].batch # <<>> /\ worker[c].outcome = "none"

DropUnwanted(c) ==
  /\ Waiting(c) /\ Unwanted(c)
  /\ deliveries' = IF c = "summary" THEN SetStatus(deliveries, {Key(c)}, "cancelled")
                   ELSE Cancel(deliveries, {Key(c)})
  /\ worker' = Done(c)
  /\ UNCHANGED <<sources, incidents, notes, prefs, subs, webhook, scan, summary, budget>>

\* A transport that is not configured gives the attempt back.
Defer(c) ==
  /\ Waiting(c) /\ ~Unwanted(c) /\ Deferred(c)
  /\ deliveries' = IF deliveries[Key(c)].status # "sending" THEN deliveries
                   ELSE [deliveries EXCEPT ![Key(c)] = [status |-> "pending", attempts |-> @.attempts - 1]]
  /\ worker' = Done(c)
  /\ UNCHANGED <<sources, incidents, notes, prefs, subs, webhook, scan, summary, budget>>

Send(c) ==
  /\ Waiting(c) /\ ~Unwanted(c) /\ ~Deferred(c)
  /\ \E outcome \in Outcomes(c) : worker' = [worker EXCEPT ![c].outcome = outcome]
  /\ UNCHANGED <<sources, incidents, notes, prefs, subs, webhook, deliveries, scan, summary, budget>>

\* A push or external row is sent whatever became of it since the claim; a
\* summary only when it is still in 'sending'.
Complete(c) ==
  /\ c # "summary" /\ worker[c].outcome = "ok"
  /\ deliveries' = SetStatus(deliveries, {Key(c)}, "sent")
  /\ worker' = Done(c)
  /\ UNCHANGED <<sources, incidents, notes, prefs, subs, webhook, scan, summary, budget>>

CompleteSummary ==
  /\ worker["summary"].outcome = "ok"
  /\ deliveries' = SetStatus(deliveries, {Key("summary")} \cap Rows(deliveries, "summary", {"sending"}), "sent")
  /\ worker' = Done("summary")
  /\ UNCHANGED <<sources, incidents, notes, prefs, subs, webhook, scan, summary, budget>>

Exhausted(attempts, c) == attempts >= MaxAttempts[c]

\* The row fails or is tried again, whatever became of it since the claim.
\* A send that could not be recorded as sent is taken as an error.
Failed(c) ==
  SetStatus(deliveries, {Key(c)},
    IF worker[c].outcome \in {"gone", "refused"} \/ Exhausted(deliveries[Key(c)].attempts, c)
    THEN "failed" ELSE "pending")

Failing(c) ==
  /\ worker[c].outcome # "none"
  /\ IF worker[c].outcome = "ok" THEN Upset ELSE UNCHANGED budget
  /\ worker' = Done(c)

\* A subscription that is gone is disabled.
FailPush ==
  /\ Failing("push")
  /\ deliveries' = Failed("push")
  /\ subs' = IF worker["push"].outcome = "gone" THEN [subs EXCEPT ![Key("push")[2]] = FALSE] ELSE subs
  /\ UNCHANGED <<sources, incidents, notes, prefs, webhook, scan, summary>>

FailExternal ==
  /\ Failing("external") /\ worker["external"].outcome \notin {"gone", "retire"}
  /\ deliveries' = Failed("external")
  /\ UNCHANGED <<sources, incidents, notes, prefs, subs, webhook, scan, summary>>

\* What a webhook that is gone refused fails at once; the cycle retires the webhook next.
FailGone ==
  /\ worker["external"].outcome = "gone"
  /\ deliveries' = Failed("external")
  /\ worker' = [worker EXCEPT !["external"].outcome = "retire"]
  /\ UNCHANGED <<sources, incidents, notes, prefs, subs, webhook, scan, summary, budget>>

\* The webhook that is set by now is switched off, and what is pending for any webhook cancelled.
RetireWebhook ==
  /\ worker["external"].outcome = "retire"
  /\ webhook' = Off
  /\ deliveries' = SetStatus(deliveries, Rows(deliveries, "external", {"pending"}), "cancelled")
  /\ worker' = Done("external")
  /\ UNCHANGED <<sources, incidents, notes, prefs, subs, scan, summary, budget>>

FailSummary ==
  /\ Failing("summary")
  /\ deliveries' = Failed("summary")
  /\ UNCHANGED <<sources, incidents, notes, prefs, subs, webhook, scan, summary>>

-----------------------------------------------------------------------------
(* Escalation by age or repetition, and the operator *)

\* evaluate_notification_intelligence: the warnings nobody settled that are old
\* enough, or repeated often enough, become critical and are told again.
EscalationEligible ==
  {f \in Signals : /\ notes[f].state \in {"unread", "read"} /\ ~notes[f].resolved
                   /\ notes[f].level = 0 /\ notes[f].source = "warning" /\ notes[f].severity # "critical"}

EscalatedNote(note) == [note EXCEPT !.severity = "critical", !.level = 1, !.state = "unread"]

Act == budget.acts > 0 /\ budget' = [budget EXCEPT !.acts = @ - 1]

Intelligence ==
  /\ Act
  /\ \E f \in EscalationEligible, quiet \in BOOLEAN :
       /\ quiet => prefs.quiet_hours
       /\ notes' = [notes EXCEPT ![f] = EscalatedNote(@)]
       /\ deliveries' = Queue(Cancel(deliveries, About(deliveries, {f})), f,
                              EscalatedNote(notes[f]), "escalation", FALSE, quiet)
  /\ UNCHANGED <<sources, incidents, prefs, subs, webhook, worker, scan, summary>>

\* _notification_transition
MarkNotification(f, state) ==
  /\ Act /\ notes[f].state # "none"
  /\ notes' = [notes EXCEPT ![f] = WithState(@, state)]
  /\ deliveries' = Cancel(deliveries, About(deliveries, {f}))
  /\ UNCHANGED <<sources, incidents, prefs, subs, webhook, worker, scan, summary>>

MarkAllRead ==
  /\ Act
  /\ LET unread == {f \in Signals : notes[f].state = "unread"}
     IN  /\ unread # {}
         /\ notes' = [f \in Signals |-> IF f \in unread THEN WithState(notes[f], "read") ELSE notes[f]]
         /\ deliveries' = Cancel(deliveries, About(deliveries, unread))
  /\ UNCHANGED <<sources, incidents, prefs, subs, webhook, worker, scan, summary>>

AcknowledgeIncident(f) ==
  /\ Act /\ incidents[f].status \in {"open", "acknowledged"}
  /\ incidents' = [incidents EXCEPT ![f] = WithStatus(@, "acknowledged")]
  /\ notes' = IF notes[f].state = "none" THEN notes ELSE [notes EXCEPT ![f] = WithState(@, "acknowledged")]
  /\ deliveries' = Cancel(deliveries, About(deliveries, {f}))
  /\ UNCHANGED <<sources, prefs, subs, webhook, worker, scan, summary>>

\* Resolved by the operator, the incident stays so until a scan finds the signal gone.
SetAside(row) == [row EXCEPT !.status = "resolved", !.suppress = TRUE]

ResolveIncident(f) ==
  /\ Act /\ incidents[f].status # "none"
  /\ incidents' = [incidents EXCEPT ![f] = SetAside(@)]
  /\ notes' = [notes EXCEPT ![f] = ResolvedNote(@)]
  /\ deliveries' = Cancel(deliveries, About(deliveries, {f}))
  /\ UNCHANGED <<sources, prefs, subs, webhook, worker, scan, summary>>

SavePreferences(p) ==
  /\ Act /\ prefs # p /\ prefs' = p
  /\ UNCHANGED <<sources, incidents, notes, subs, webhook, deliveries, worker, scan, summary>>

Subscribe(s) ==
  /\ Act /\ ~subs[s]
  /\ subs' = [subs EXCEPT ![s] = TRUE]
  /\ UNCHANGED <<sources, incidents, notes, prefs, webhook, deliveries, worker, scan, summary>>

Unsubscribe(s) ==
  /\ Act /\ subs[s]
  /\ subs' = [subs EXCEPT ![s] = FALSE]
  /\ deliveries' = Cancel(deliveries, {k \in DOMAIN deliveries : k[2] = s})
  /\ UNCHANGED <<sources, incidents, notes, prefs, webhook, worker, scan, summary>>

SaveWebhook(h) ==
  /\ Act /\ h # webhook
  /\ webhook' = h
  /\ deliveries' = IF h = Off THEN Cancel(deliveries, {k \in DOMAIN deliveries : k[2] \in Hooks}) ELSE deliveries
  /\ UNCHANGED <<sources, incidents, notes, prefs, subs, worker, scan, summary>>

\* A test row is unique: its occurrence is the time it was asked for.
EnqueueTests(targets) ==
  /\ Act /\ targets # {}
  /\ deliveries' = Insert(deliveries, {<<<<"test", "operator">>, t, budget.acts, "test">> : t \in targets}, "pending")
  /\ UNCHANGED <<sources, incidents, notes, prefs, subs, webhook, worker, scan, summary>>

PushTest == EnqueueTests(PushTargets)

ExternalTest == EnqueueTests(ExternalTargets)

SummaryTest(c) == summary.ready /\ c \in summary.channels /\ EnqueueTests({c})

\* save_summary_delivery_settings, with the reconciliation the handler runs after it.
SaveSummary(on) ==
  /\ Act /\ summary.on # on /\ summary.channels # {}
  /\ summary' = [summary EXCEPT !.on = on]
  /\ deliveries' = IF on THEN deliveries
                   ELSE Cancel(deliveries, {k \in DOMAIN deliveries : ChannelOf(k) = "summary" /\ k[4] = "scheduled"})
  /\ UNCHANGED <<sources, incidents, notes, prefs, subs, webhook, worker, scan>>

RetrySummary(key) ==
  /\ Act /\ ChannelOf(key) = "summary" /\ deliveries[key].status # "sent"
  /\ deliveries' = [deliveries EXCEPT ![key] = [status |-> "pending", attempts |-> 0]]
  /\ UNCHANGED <<sources, incidents, notes, prefs, subs, webhook, worker, scan, summary>>

\* The SMTP or webhook environment becomes complete, or is lost, at a restart.
Crash ==
  /\ Upset
  /\ \E ready \in (IF summary.channels = {} THEN {TRUE} ELSE BOOLEAN) : summary' = [summary EXCEPT !.ready = ready]
  /\ worker' = [c \in Channels |-> Idle]
  /\ scan' = NoScan
  /\ UNCHANGED <<sources, incidents, notes, prefs, subs, webhook, deliveries>>

NextDay ==
  /\ summary.day < MaxDays /\ summary.channels # {}
  /\ summary' = [summary EXCEPT !.day = @ + 1]
  /\ UNCHANGED <<sources, incidents, notes, prefs, subs, webhook, deliveries, worker, scan, budget>>

-----------------------------------------------------------------------------
Init ==
  /\ \E d \in Deployments :
       /\ sources = d.sources /\ prefs = d.prefs /\ subs = d.subs /\ webhook = d.webhook
       /\ summary = [channels |-> d.summary, on |-> d.summary # {}, ready |-> TRUE, day |-> 0]
       /\ budget = [scans |-> d.budget.scans, acts |-> d.budget.acts, upsets |-> d.budget.upsets, used |-> 0]
  /\ incidents = [f \in Signals |-> NoIncident]
  /\ notes = [f \in Signals |-> NoNote]
  /\ deliveries = [k \in {} |-> [status |-> "none", attempts |-> 0]]
  /\ worker = [c \in Channels |-> Idle]
  /\ scan = NoScan

Scan == ScanStart \/ ReadSource \/ ReadFails \/ SkipSource \/ RecordSignal \/ RecordFails \/ ClearSource \/ ScanEnd

Deliver(c) ==
  \/ DropUnwanted(c) \/ Defer(c) \/ Send(c) \/ Complete(c)
  \/ c = "push" /\ FailPush
  \/ c = "external" /\ (FailExternal \/ FailGone \/ RetireWebhook)
  \/ c = "summary" /\ (CompleteSummary \/ FailSummary)

OnNotifications ==
  \/ \E f \in Signals, state \in {"read", "acknowledged", "dismissed"} : MarkNotification(f, state)
  \/ MarkAllRead

OnIncidents == \E f \in Signals : AcknowledgeIncident(f) \/ ResolveIncident(f)

OnDestinations ==
  \/ \E s \in Subscriptions : Subscribe(s) \/ Unsubscribe(s)
  \/ PushTest
  \/ \E h \in Hooks \cup {Off} : SaveWebhook(h)
  \/ ExternalTest

OnSummary ==
  \/ \E on \in BOOLEAN : SaveSummary(on)
  \/ \E c \in SummaryChannels : SummaryTest(c)
  \/ \E k \in DOMAIN deliveries : RetrySummary(k)

Operator ==
  OnNotifications \/ OnIncidents \/ OnDestinations \/ OnSummary \/ \E p \in Preferences : SavePreferences(p)

Next ==
  \/ Scan
  \/ \E c \in {"push", "external"} : Claim(c)
  \/ SummaryCycle
  \/ \E c \in Channels : Deliver(c)
  \/ Intelligence
  \/ Operator
  \/ Crash
  \/ NextDay

\* The workers' threads run for as long as the process does.
Spec ==
  /\ Init
  /\ [][Next]_vars
  /\ \A c \in {"push", "external"} : WF_vars(Claim(c)) /\ WF_vars(Deliver(c))

-----------------------------------------------------------------------------
(* Properties *)

TypeOK ==
  /\ incidents \in [Signals -> [status : {"none", "open", "acknowledged", "resolved"},
                                severity : {"info", "warning", "critical"}, suppress : BOOLEAN]]
  /\ notes \in [Signals -> [state : {"none", "unread", "read", "acknowledged", "dismissed"},
                            severity : {"info", "warning", "critical"}, source : {"info", "warning", "critical"},
                            resolved : BOOLEAN, occurrences : Nat, level : {0, 1}]]
  /\ \A k \in DOMAIN deliveries :
       deliveries[k] \in [status : {"pending", "sending", "sent", "failed", "cancelled", "suppressed"}, attempts : Nat]

\* _sync_incident_notification_db and the operator's handlers keep the two
\* tables in step: an incident that is not resolved has a notification that is
\* not resolved, of its severity; a resolved one has none that still asks for
\* attention; and an escalation is not undone by a milder report.
IncidentNotified ==
  \A f \in Signals :
    /\ incidents[f].status # "none" =>
         /\ notes[f].state # "none"
         /\ notes[f].resolved <=> incidents[f].status = "resolved"
         /\ notes[f].source = incidents[f].severity
    /\ notes[f].level = 1 /\ ~notes[f].resolved => notes[f].severity = "critical"

\* Whenever an incident opens, reopens or worsens, or a warning escalates, a
\* new row is queued for every enabled subscription and webhook: the unique
\* key of the delivery tables never swallows it.
EveryRaiseQueued ==
  [][ \A f \in Signals :
        \/ incidents'[f].status = "open" /\
             (incidents[f].status # "open" \/ Rank(incidents'[f].severity) > Rank(incidents[f].severity))
        \/ notes'[f].level > notes[f].level
        => \A t \in PushTargets \cup ExternalTargets :
             \E k \in DOMAIN deliveries' \ DOMAIN deliveries : k[1] = f /\ k[2] = t ]_vars

\* "The key false-clear protection" of run_cycle: the monitor resolves an
\* incident only when it read the incident's source in this cycle and did not
\* record the incident's signal in it.
ClearedOnlyIfRead ==
  [][ \A f \in Signals :
        /\ incidents[f].status \in {"open", "acknowledged"}
        /\ incidents'[f].status = "resolved" /\ ~incidents'[f].suppress
        => SourceOf(f) \in scan.read /\ f \notin scan.active ]_vars

Final(key) ==
  \/ deliveries[key].status = "sent"
  \/ ChannelOf(key) # "summary" /\ deliveries[key].status \in {"failed", "cancelled", "suppressed"}

\* A delivery that is over, and that no worker holds, is never sent again and
\* never rewritten: not by a later raise, an escalation, a cancellation, a
\* recovery after a crash or the retirement of its destination.
SettledStaysSettled ==
  [][ \A k \in DOMAIN deliveries :
        Final(k) /\ k \notin Held => k \in DOMAIN deliveries' /\ deliveries'[k] = deliveries[k] ]_vars

\* Every push and external delivery is eventually sent, failed, cancelled or
\* suppressed, a crash in the middle of a cycle included.
QueuesDrain ==
  []<>(\A k \in DOMAIN deliveries : ChannelOf(k) # "summary" => deliveries[k].status \notin {"pending", "sending"})

=============================================================================

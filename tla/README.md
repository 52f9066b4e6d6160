# Formal models of ZEN control

ZEN control (`app/`) manages the internet access of a household's devices: policy
lives in SQLite, enforcement in a MikroTik router that is driven through the
RouterOS API, and a FastAPI application with several daemon threads keeps the two
in step. The hard part of the program is not a formula but an order: two stores
that cannot commit together, request threads beside daemon threads, leases and
locks that expire, and a process that can die between any two calls. The modules
here model that part of the code, TLC checks them on small instances, and TLAPS
proves the safety of the queue, the revisions, the configuration, temporary access, the
reconciler, the cutover and the alerts for every value of their constants.

Contents: [inventory](#inventory), [modules](#modules), [runs](#runs),
[where code and documents disagree](#where-code-and-documents-disagree), [proofs](#proofs),
[what is not modelled](#what-is-not-modelled), [plan](#plan).

## Inventory

| component | state it keeps | operations | hard behaviour | what makes it correct |
|---|---|---|---|---|
| Revisioned configuration (`policy_store.py`) | `config_revision_state`, journal, `outbox_events` | `config_write` around every configuration change | writers of several threads, SQLite's single write lock, optimistic check outside the transaction | revisions form a log, each with one journal row and one event |
| Background work (`background_work.py`, `policy_store.py`, producers and handlers in `main.py`) | `background_jobs`, `background_scope_locks`, `prepared_views` | recover, produce, dispatch, claim, run, complete, fail, defer, prune | leases that expire under a running handler, crash between any two transactions, overlapping processes | no job lost, stranded or run again; one handler per scope; the last view prepared |
| Automatic reconciler (`reconciler.py`, `parallel_observation.py`) | cycle lock, failure counter, hold, `reconciliation_requests` | loop, run now, requested runs, authority-transfer guard | two locks, a circuit breaker, a desired state that moves during a run | one cycle at a time, no write in a hold, requests served, convergence |
| Temporary access and rewards (`router.py`, `main.py`, `reward_recovery.py`) | RouterOS scheduler and script, reward account, redemptions | start, extend, cancel, read, redeem, recheck, expiry, start-up recovery | a transaction in SQLite around several RouterOS calls, readers that clean up, expiry at any time | NORMAL is temporary; minutes are conserved; a debit means access |
| Kid Control cutover (`main.py`, `kid_control_cutover.py`) | staged proposal, cutover events, legacy profiles, Restricted_Devices | stage, cutover, clean-up, rollback, discard | a saga with compensation, evidence written between its steps, crash and retry | always recoverable, never a gap in authority, rollback restores |
| Device enforcement (`router.py`, `bandwidth.py`, `service_catalog.py`) | address lists, queues, firewall rules, schedulers | device and global mode, temporary NORMAL, bandwidth, services, schedules, clean-up | several RouterOS calls per change, each of which may raise after its effect; a gate that refuses writes on an inconsistent router | never less restricted in between; the application does not shut itself out |
| Service provisioning (`service_provisioning.py`, `router.py`, `main.py`) | address lists and rules of a custom service, its approval | preview, provision, verify, approve, roll back, remove | partial failure in two stores | all or nothing |
| Policy configuration (`policy_store.py`) | profiles, devices, presets, services, groups, collections, schedules, templates, exceptions, snapshots | edit, delete, export, snapshot, restore, import | validation and write in separate transactions, an import of many transactions | references resolve; a backup restores what was saved |
| Policy engine (`policy_store.py`, `policy_time.py`, `policy_groups.py`, `quota.py`, `policy_quality.py`) | none | resolve the effective policy, preview, explain, check quality | precedence of several layers, clocks that skip and repeat an hour, ties | the next event is the first change; previews, explanations and quality report agree with the resolver |
| Policy history (`policy_history.py`, `policy_store.py`) | checkpoints per address and management identity | record, prune, list, report | reuse of an address, retention, limited reads | a report says what was decided |
| Notification centre, incidents (`policy_store.py`, `incidents.py`, `operations.py`) | notifications, timeline, incidents | scan, upsert, acknowledge, snooze, archive, resolve, escalate | sources that fail half way, operators beside the scan | nothing cleared that was not read; every raise told |
| Push, external and summary delivery | delivery queues | claim, send, complete, fail, cancel, recover | send without record, crash, retry limits | queues drain, settled deliveries stay settled |
| Authentication (`auth.py`, `security.py`) | sessions, counters, one-time passwords | login, lock-out, recovery | replay, counters | documented limits |
| Upgrade safety | backups | save, migrate | interruption | a backup precedes a migration |
| Telemetry ingest (`telemetry/ingest`) | batches, checkpoint | read, insert, commit | restart | no loss |
| Analytics, diagnostics, user interface | none of their own | read and render | - | - |

How they interact: a configuration write commits an outbox event that the
background worker turns into jobs, and moves the revision that requested
reconciliations compare with. The reconciler, the manual routes, temporary access
and the cutover all write RouterOS under one process-wide mutation lane; the
reconciler and the cutover also share the cycle lock (`authority_transfer_guard`).
Temporary access is the exception the reconciler has to respect. What the reconciler
enforces is the answer of the policy engine, which reads the policy configuration and
today's telemetry; each answer leaves a checkpoint in the policy history. The incident
monitor reads the security posture, the reconciler, readiness, bypass evidence and
quotas, and hands what it finds to the notification centre, which feeds the delivery
queues. Start-up runs
recovery (reward reservations, background leases, interrupted requests) before or
beside the first requests.

## Modules

One component is one module; `MC...` modules only give constants their values, and
`...Proofs` modules hold theorems. Variables carry the names of the code's columns
and attributes; an action is one SQLite transaction or one RouterOS operation,
because those are the points where other threads, expiry and crashes come between.
Every definition that stands for code is tied to its lines in `PROJECT.json`
(`map`). Operators whose comment starts with "Mutant" are the plausible bugs that
the properties are tried against; no specification uses them.

**ConfigRevision** (with **RevisionLog**, the abstract specification).
`config_write`: a writer loads a revision, compares it, opens SQLite's write
transaction with its first change, advances the revision, writes journal row and
outbox event, and commits or rolls back; a second writer waits or fails as busy.
RevisionLog has one action, append the next revision with its row and its event.

**BackgroundWork**. Rows of `background_jobs` are identified by idempotency key.
The worker's cycle is recover expired leases, produce view and retention jobs,
dispatch the outbox, then claim, lock the scope, run, complete or fail, release.
Time is abstract: a tick ages leases and retry delays, a bucket is the producer's
time slot. Lease tokens, uuids in the code, are the workers themselves; the theorem
`TokensAreFresh` is what justifies that. A crash leaves tokens of the dead process
behind (`Orphan`). `fail_background_job` reads and writes in two statements, and a
view is built, stamped with the revision and saved in three steps, as in the code.

**Reconciler**. A device's policy is a version number; `Mixed` is a device that got
some of the three writes of a reconciliation and not the others. The loop serves
requests, then runs an automatic cycle; UI threads run cycles and authority
transfers. Plans are read outside the lane, proven again inside it, written, and
verified. A call of the store may raise wherever a run makes one: in the recovery of
start-up (`BootRaises`), at the top of the loop (`TopRaises`) and before a run is
prepared (`SettingsRaise`), where the error leaves the code's `try` blocks, in a request
after its claim, the enqueue of a successor included (`RequestRaises`), and in the finish
of the `except` branch (`AbortRaises`), which leaves the row running until the next start.
The audit swallows its own errors (`main.py:302`).

**TempAccess**. One restricted device with its RouterOS scheduler and script, a
reward account, and threads that redeem, start, cancel, read and recheck, and that
observe and enforce for the reconciler. `get_device_temporary_access` is modelled with the
clean-up it performs, and clean-up finds its resources by name, so it may remove what
another thread has created since. An automatic cycle observes a NORMAL device outside
the mutation lane first (`main.py:704`) and reads it again under the lane; a requested run
(`Enforce`) reads it under the lane only. Calls raise before or after their effect. The
scheduler may fire at any moment while it is enabled; a deadline that passes while a
cancel has it disabled is missed (`Miss`), and enabling it again does not bring it back.
The history variable `lapsed` remembers the four ways in which a NORMAL device loses its
guard: a clean-up outside the lane takes it, a failed grant removes what it had prepared,
an extension renews a scheduler that has just run, a cancel disables it and does not get
to restore the device. The device stays managed, so the clean-up of leftovers of devices
nobody manages does not arise.

**KidControlCutover**. Legacy profiles, Restricted_Devices rows with their owner,
device modes, the local policy, the staged proposal and the last cutover event with
its evidence. Clean-up is the same code for a failed cutover and for a rollback, as
in the source. The history variable `outdated` remembers that a rollback entered
the guard with evidence that had changed since it read it.

**PolicyConfig**. The eleven tables of the local policy as rows with a name and
references (SQLite does not enforce foreign keys here). A form is read, validated and
written in steps of its own, so two administrators interleave; a delete checks its
users first, an approval or removal of a service comes from provisioning. Export reads
table after table; import takes a snapshot, wipes, and recreates section by section,
with the identity maps for profiles and templates. Groups of the product
(`BuiltinGroups`) can be edited and are exported, but neither deleted nor wiped: their
members, possibly custom services, survive until the group section of the import. A
section stops at the first row that is refused, and an import may be interrupted, by a
statement that raises or by a crash, after any row and between a service and its
approval. `raced`, `crossed`, `lost` and `torn` remember that a decision was overtaken,
that an export was crossed by an edit, that an import failed after its deletion, and that
services were deleted whose groups have not all been imported since. Edits of others come
between the sections of an import, not between its rows. A row with a key of its own is
named by its key, so a built-in group that was renamed to the name of another group
(unique, `policy_store.py:214`) is not told apart.

**Enforcement**. The router is a record of counted address-list entries, queues, rules
of custom services, the global mode, the MC-TEMP restore, and schedulers. One job holds
the mutation lane; its plan is the sequence of calls the method still has to make,
including the gate (`assert_policy_enforcement_ready`) before and the verification
after. A call may raise with or without its effect; what the `except` branches then do
(`Undo`) is the rest of the plan; the process may die between two calls. Schedulers
fire, learners learn and somebody edits the router by hand at any time; an edit marks the
job that is running (`shaken`), for properties that exclude it. The catalogue, the devices
and the schedules are finite, and the lists of services have a prefix of their own
(`FiniteAssumption`, `KeysAssumption`). The schedulers and scripts of temporary access of a
device are TempAccess's: `Stale` leaves out their clean-up (`router.py:876`), and the gate
its check for those of devices nobody manages.

**Alerts**. A scan reads its sources in order, records signals, and resolves what a
completed source no longer reports; an operator acknowledges, resolves, snoozes and
archives; each incident has one notification, a raised notification is queued for every
subscription and the webhook; a worker per channel claims, sends and records, with
retries, suppression, cancellation and recovery at start-up. Each transaction is a
step, so a cancellation may meet a delivery in flight, and a delivery to a webhook that
is gone is failed (`FailGone`) before the webhook is retired (`RetireWebhook`). That the
retirement itself raises, which ends the worker's cycle, is left out.

**Policy**. `_compute_effective_policy_from_context` for one device as an operator
`Resolve` of an explicit context, as in the code, with schedules, exceptions, templates,
groups, quotas and the household clock below it and previews, explanation, quality
report and history above it. Time is a count of slots; a zone moves the wall clock one
slot forward at one instant and back at another. A refusal (`ValueError`) is `None`.
`answer` is what the resolver says in the current state. An observer resolves the policy
(`Observe`), then records the answer in a transaction that looks up the management identity
itself (`Record`), or fails to, which its caller ignores (`RecordingFails`); whatever else
happens may come between. `heard` lists the answers that were recorded, with the identity
each was resolved for and the one it was stored under. The several connections of one
resolution are one step. An answer for another instant within 300 seconds would be recorded
as well (`main.py:665`), but no caller passes an instant.

## Runs

Bounds are constants named `Max...` in the modules, and every bound is a guard of
the action it bounds.

| run | instance | checks |
|---|---|---|
| `revision_log` | 3 writers, 4 revisions | `ImplementsLog` (refinement of RevisionLog) |
| `background_one` | the deployed single worker, 1 view, the baseline's event, a crash, 2 attempts, leases of one tick, fair scheduling | `TypeOK`, `NoStrandedJob`; liveness `ConfigDelivered`, `LastViewsPrepared` |
| `background_two` | 2 workers on one database, 2 revisions | `TokensFresh`, `ScopeExclusive` |
| `reconciler_safety` | loop and a UI thread that runs a cycle or a transfer, 2 requests, 2 revisions, a failing RouterOS call, a failing store call, a crash | `HoldBlocksWrites`, `SupersededHasSuccessor`, `SucceededIsConverged` |
| `reconciler_live` | the loop, a request, a surprise, a fault, a crash, fair scheduling | `RequestsServed`, `Converges` |
| `access_paid` | 2 threads, 2 redemptions, 3 operations beside the reconciler's, readers, a fault, a crash | `FailSafe`, `Conservation` |
| `access_all` | 2 threads, 2 operations, rechecks among them, beside the reconciler's cycles, a fault, a crash, fair scheduling | `AppliedMeansGranted`, `ActiveAccessKept`, `NormalIsTemporary` |
| `cutover_safe` | 2 administrators, 4 transfers, 2 devices (one managed before), 2 profiles, 2 faults, a crash | `RecoveryEvidence`, `RollbackFeasible`, `NoGap`, `RolledBackRestores` |
| `config_restore` | a full and a new household, 2 administrators, 3 requests of which 2 edits, one key or name per table and a built-in group, a crash or a statement that raises | `ReferencesResolve`, `ConsistentBackupRestores`, `RestoreIsFaithful`, `DeletedIsSaved` |
| `enforcement_writes` | 1 device, a router with and without its rules in order, 2 built-in services and a custom one, a schedule over 2 days, 2 jobs, 1 upset | `FailsRestrictive`, `ReleasesLast`, `ArmedBeforeNormal`, `NoSelfLockout` |
| `alerts_told` | 10 deployments (sources, preferences, destinations) with their own number of scans, acts and upsets; 2 attempts | `IncidentNotified`, `EveryRaiseQueued`, `ClearedOnlyIfRead`, `SettledStaysSettled`; liveness `QueuesDrain` |
| `policy_decisions` | households with combinations of schedules, exceptions, templates, groups and quotas, days of 4 slots, a missing and a repeated slot, 2 callers | `RefusalForeseen`, `ExplanationAgrees`, `HistoryTruthful`, `ChangesAnnounced`, `PreviewPredicts` |

Why the bounds are enough for what is asked: the races of this code are between two
threads, so two of each kind meet all of them; a lease of one tick is enough to
expire under a handler, be recovered and be claimed again; two attempts give a retry
and a last attempt; two revisions give a change during a run; one crash and one fault
at every point, also one after the other, give every interrupted step. In
`config_restore`, `UntilRaced` ends a behaviour once a decision was overtaken by another
thread, because every property excludes what follows; requests that overlap before that
are all explored. In `enforcement_writes` two jobs are enough for one to start from what
another left half done, and the one upset may be a call that raises, a crash, a manual
edit or an event of the router. In `alerts_told` each deployment puts its budget on one
kind of difficulty, since they hardly meet: a returning signal needs scans, a race with
an operator needs acts, recovery needs an upset. In `policy_decisions` two schedules and
two exceptions give every tie the resolver can meet, a week of days is kept as it is, and
each household has a budget of ticks, edits, uses and observations. Keeping them small
keeps every run under four minutes.

What these bounds leave out: `background_one` follows the event of the baseline and later
buckets of the view, never a second revision, with which liveness takes too long to check
(`background_two` has one). The second operation of `access_all` is the last, so at most
two of a redemption, a start, a cancel and a recheck meet there. No household of
`policy_decisions` allows a service by the schedule of a group while the profile blocks the
service itself, nor has it several groups.

Fairness. `BackgroundWork!FairSpec` assumes that the daemon thread keeps cycling and
time passes (`_loop` with a timed wait), `Reconciler!FairSpec` the same of the loop
and of a hold, which is a point in time, and `TempAccess!FairSpec` that begun
requests go on, RouterOS keeps its clock, the container restarts the process, and the
reconciler's loop comes back to observe the device. `Alerts!Spec` assumes that the push and external
workers, daemon threads with a timed wait, keep claiming and delivering. No fairness is assumed of users, faults or
crashes.

Deadlock checking is off where the bounded system may stop: `reconciler_safety`, where
a dead loop with all users done is a final state of the code, and the runs of
PolicyConfig, Enforcement, Alerts and Policy, where nothing more happens once the
budgets of requests, scans, ticks and faults are used up.

Every property of a passing run has a mutant in `PROJECT.json`: a definition replaced
by a version with a plausible bug, under which TLC finds the property violated.

## Where code and documents disagree

What a comment, a doc or the changelog says and the code does not do. The configuration
files named here reproduce the counterexample with TLC; they are not among the runs of
`PROJECT.json`, which all pass.

- `BackgroundWork_stamp.cfg` refutes `EligibleViewIsCurrent`: the handler reads the
  revision after it has built a view (`main.py:1458`), so a configuration write in between
  makes old content eligible, against "A configuration revision mismatch never silently
  serves old policy/service semantics" (`policy_store.py:1723`).
- `TempAccess_reader.cfg` refutes `AlwaysGuarded`: a status read, and the reconciler's own
  observation, delete outside the lane what they find under the device's names
  (`router.py:2379`, `router.py:2406`), which may be the scheduler or the script that a new
  grant has just created; the device stays NORMAL until the reconciler ends it, against
  "Read-only methods never acquire this lock" (`router.py:44`) and "Read-only analysis must
  not become a hidden write path" (`docs/ARCHITECTURE.md:95`). The run has redemptions and
  observations only, without faults.
- `TempAccess_stranded.cfg` refutes `AlwaysEnds`: when the deadline passes between the
  disabling of the scheduler (`router.py:2696`) and the call that enables it again
  (`router.py:2720`), it never fires, and the status read takes the override for active, so
  that the reconciler leaves the device NORMAL; against "so a failed cancel does not discard
  the RouterOS restore safety net" (the comment above that call).
- `Reconciler_orphan.cfg` refutes `NoOrphan`: the row is marked superseded in one
  transaction and its successor queued in another, which may raise or not be reached
  (`reconciler.py:653`); against "the completed request is marked superseded and a new
  request is queued for the latest revision" (`reconciler.py:566`).
- `Policy_epoch.cfg` refutes `OwnPolicyRecorded`: the identity is looked up when an answer is
  recorded (`policy_store.py:1997`), so the policy of a device that has been retired and
  added again meanwhile is stored for its new identity, against the "current management
  epoch" of the docstring (`policy_store.py:1978`).
- `PolicyConfig_builtin.cfg` refutes `MembersResolve`: an import that stops after the wipe
  and before its groups leaves a built-in group naming a service that was deleted
  (`policy_store.py:7242`), which the form for groups refuses ("Unknown concrete
  service(s)").
- `ConfigRevision_stale.cfg` refutes `StaleWriteRejected`: two writers that loaded the same
  revision can both pass the optimistic check, because it runs before the write transaction
  begins (`policy_store.py:1031`), against "callers that present a revision gain stale-write
  rejection" (`policy_store.py:1027`).
- `KidControlCutover_residue.cfg` refutes `AdoptedRestored`: after a rollback, a device
  adopted by the migration keeps the mode ZEN gave it, outside Restricted_Devices, where
  nothing resets it (`main.py:7046`), against "removing that row is the complete restoration
  for that device" (`main.py:7035`).
- `PolicyConfig_malformed.cfg` refutes `FailsBeforeDeleting`: a backup whose profile has a
  quota on a custom service that has since lost its approval passes the preflight and is
  refused after the wipe (`policy_store.py:7227`), against "A malformed backup therefore
  cannot fail only after current configuration has already been deleted"
  (`CHANGELOG.md:469`).

Other behaviour seen while modelling, without a run of its own:

- a job that loses its last attempt to a crash is failed by recovery without the
  notification that `fail_background_job` raises (`policy_store.py:1233`);
- the clean-up after a failing `set_device_mode` removes the fail-safe of a device that
  may already be NORMAL (`router.py:2617`), and an override that expires while it is
  extended keeps its run-count and is removed by the final read (`router.py:2561`);
  both are ended by the reconciler, which is what `NormalIsTemporary` checks;
- a crash between NORMAL and the bound reference, followed by expiry, leads recovery
  to refund access that was used (`reward_recovery.py:83`), and an operator's recheck
  may refund a redemption in flight (`main.py:7697`), whose completion then commits
  over the refund: `Conservation` is checked in an instance without rechecks;
- when the finish of the `except` branch raises, a request stays running until the next
  start (`reconciler.py:684`);
- a failing settings read leaks the cycle lock (`reconciler.py:702`) or ends the loop's
  thread (`reconciler.py:974`), after which no request is served;
- with two worker processes, a job that is recovered and claimed between the two statements
  of `fail_background_job` is left retrying without an attempt (`policy_store.py:1533`);
  one process, as deployed, cannot get there;
- a rollback of the cutover that waits for the guard works from evidence that may have
  changed (`main.py:7255`), and may then lose the record of an active transfer; a later
  cutover then takes a migration row for one of ZEN's own (`RollbackFeasible`);
- when a cutover fails and removing its local policy fails too, the reconciler applies that
  policy to devices the evidence does not name (`main.py:7046`), which a rollback leaves
  as they are: `RolledBackRestores` is stated for at most one failing call;
- when re-enabling a legacy profile fails, the clean-up still removes ZEN's rows
  (`main.py:7024`); `NoGap` is therefore stated for `faults = 0`;
- *enforcement*: provisioning an approved service again, when its approval cannot be
  stored, removes the contract of a service that stays approved (`main.py:5035`); a lost
  answer to an install, or a removal that stops half way, leaves a contract that both
  provisioning and removal refuse; once MASTER stands after the established accept and is
  enabled, the gate refuses every policy write, a return to NORMAL included
  (`router.py:486`), which `NoSelfLockout` leaves out; `/mode` cancels the pending restore
  before the gate and `set_mode`, either of which may refuse (`main.py:4680`); a second
  `/temporary` arms a restore to NORMAL; a removed device keeps its mode entries until
  clean-up;
- *alerts*: a failure while recording, after a source counts as scanned
  (`incidents.py:179`, `308`), resolves siblings still signalled, which
  `ClearedOnlyIfRead` leaves out; a delivery cancelled while it is sent is sent all the
  same, and pending again if the send fails (`policy_store.py:3159`); a summary
  interrupted in its last attempt stays in sending (`policy_store.py:7625`), and an
  operator's retry of one in flight sends it twice (`policy_store.py:7737`); a 410 for an
  old URL retires the webhook configured since (`policy_store.py:3316`); an acknowledged
  incident that becomes critical tells nobody (`policy_store.py:4278`); resolving an
  incident that has resolved itself silences its return until a clean scan
  (`policy_store.py:4548`); the quota incidents of a removed device never clear;
- *policy*: a preview of "unassigned" applies exceptions of the saved profile
  (`policy_store.py:5688`, against the comment above it), and one that adds quotas shows
  them unused (`main.py:622`); two schedules that a missing hour moves onto one instant are
  refused although the quality report is clean; the start of an exception is not announced
  as the next event; the explanation of a service in two scheduled groups names the group
  that sorts last; a report over more checkpoints than its limit (`main.py:4200`) extends
  the last one read to its end, and a checkpoint that has stood longer than the retention
  is forgotten until the next observation. The properties name these cases as conditions.

## Proofs

Checked by TLAPS with its SMT, Zenon and PTL backends, from the assumptions on
constants that the modules name (`ASSUME`), which TLC evaluates on every run.

Every invariant below was checked by TLC on the instance of a run before it was proved.
In each module the step lemma has one case per action; effect lemmas say once what the
operators do to the tables, and the cases cite them.

`BackgroundWorkProofs`, for any workers, views, attempts, lease lengths and bounds:

- `TypeCorrect`: `Spec => []TypeOK`. `TypeInv` adds `HeldOK`, that a worker between
  claim and end of a job holds a real key, which the row updates need.
- `TokensAreFresh`: `Spec => []TokensFresh`. The inductive invariant `LeaseInv` is
  `TypeInv`, `TokensFresh` and `LockCovers`.
- `ScopesAreExclusive`: `Spec => []ScopeExclusive`. Not inductive by itself: a worker
  that handles a job must be known to own the scope lock, or to have a lease that has
  run out no later than the lock. `LockCovers` says so: the lock is taken after the
  claim with the same length, hence outlives it, so two live leases on one scope would
  mean one lock with two owners.
- `NoJobIsStranded`: `Spec => []NoStrandedJob`, under `SoleWorker`, one worker process as
  the compose file deploys it. The hypothesis is needed: with two workers, a retry that one
  decides before the other claims the recovered job leaves it retrying with no attempt left.

`ConfigRevisionProofs`, for any writers:

- `WritesAreALog`: ConfigRevision implements RevisionLog; initial states map to
  initial states, a commit to an append, every other step to a stutter. The invariant
  it needs is that an open transaction has read what is committed.

The refinement is `Log == INSTANCE RevisionLog WITH ...` in ConfigRevision: the revision,
the journal and the outbox of the log are those that readers of the database see, while
the staged revision, the lock and the writers' own state are hidden.

`TempAccessProofs`, for any threads, redemptions, minutes, faults and crashes:

- `TypeCorrect`. `TypeInv` adds where each call may stand (`FlowOK`) and that no minute is
  both in the account and reserved, which keeps the balance within the credit.
- `AppliedRedemptionsWereGranted`: `Spec => []AppliedMeansGranted`. `EvidenceInv`: every
  reference on the scheduler, or that a read of it returned, is that of a redemption for
  which NORMAL was written; recovery judges by that reference only.
- `OnlyExpiryRestricts`: `Spec => ActiveAccessKept`. `LaneInv` says who owns the mutation
  lane, `KnowInv` what its owner knows of the scheduler it has read.
- `BankBalances`: `Spec => []Conservation` under `NoRecheck`. `BankInv` ties every reserved
  redemption to the one thread that may settle it; an operator's recheck settles beside
  that thread, which is the behaviour described above.
- `NormalIsGuarded`: `Spec => []FailSafe`, with every operation, the reconciler's
  observations outside the lane, faults and crashes included. `GuardInv` says what each call
  of a grant, an extension and a cancel relies on, as long as none of the four causes that
  `lapsed` records has occurred; `SchedRemoved`, `ScriptRemoved`, `SchedExtended` and the
  calls of a cancel are where they do.

`ReconcilerProofs`, for any devices, UI threads, revisions and bounds:

- `TypeCorrect`. `FlowOK` includes that a cycle from its gate on owns the cycle lock and,
  unless it only observes, passed the gate without a hold.
- `HoldsBlockWrites`: `Spec => []HoldBlocksWrites`, from the same invariant: a hold is
  taken only at the end of a cycle, by the owner of the cycle lock.
- `SupersededAreSucceeded`: `Spec => SupersededHasSuccessor`, crashes and failing calls
  included: a superseded row loses its successor only in a step in which the process dies, or
  the call raises, between the two transactions of the loop at that very row. `QueueInv` counts
  rows against requests and revisions, which shows that the queue always has room for a
  requeued one.
- `SuccessMeansConverged`: `Spec => SucceededIsConverged`. `ServeInv`: while a request is
  served, nothing changed since its claim and no device failed, the targets done have
  their policy.

`KidControlCutoverProofs`, for any administrators, devices, profiles and bounds:

- `TypeCorrect`. `TypeInv` adds that the guard has the owner whose request is past it.
- `AlwaysRecoverable` and `RollbackStaysFeasible`: `Spec => []RecoveryEvidence` and
  `[]RollbackFeasible`. `RecoveryInv`: the last event reaches every disabled profile and
  every migration row, and what a request in flight is about to do is in the event already;
  both hold until a rollback used outdated evidence (`outdated`).
- `AuthorityHasNoGap`: `Spec => []NoGap`. `GapInv`: while no call failed, the legacy profiles
  are enabled or every device is in Restricted_Devices under the local policy.
- `RollbackRestores`: `Spec => []RolledBackRestores`. `RestoreInv` follows the mode of each
  device that ZEN managed before through cutover, clean-up and rollback, without outdated
  evidence, without crashes and for at most one failing call, as the property says.

`AlertsProofs`, for any signals, sources, subscriptions, webhooks, attempts and preferences:

- `TypeCorrect`. `TableInv` pairs each incident with its notification, `DeliveryInv` types
  the deliveries together with what the workers hold of them.
- `TablesInStep`: `Spec => []IncidentNotified`, from `TableInv`, with `ScanInv` for the scan.
- `NoFalseClear`: `Spec => ClearedOnlyIfRead`, with `ScanInv`: the sources a scan has read and
  the signals it has recorded fit together.
- `SettledIsSettled`: `Spec => SettledStaysSettled`. Every transaction on the deliveries is an
  `Evolves`: it keeps the rows that are final and that no worker holds, and this relation is
  transitive, which carries it over loops of transactions.
- `RaisesAreQueued`: `Spec => EveryRaiseQueued`. `KeyInv`: a delivery row for a signal has an
  occurrence no later than the notification's, and an escalation row of the current
  occurrence only once it is escalated; hence the key of a raise is not in the table.

`PolicyConfigProofs`, for any administrators, configurations, forms and bounds. The program
is started on a configuration that its own forms saved (`ConfigsAssumption`): references
resolve, the settings are seeded, and rows are numbered from 1 (`Seeded`); gaps in the ids
and references to rows that are no more arise by the model's own steps:

- `ReferencesAlwaysResolve`: `Spec => []ReferencesResolve`. `RefInv`: unless a write raced,
  the references of the configuration resolve, and what was decided about an edit (the
  references of a save exist, nothing uses what is deleted) still holds until somebody
  overtakes it. Each section of an import names only rows that earlier sections, or the
  built-in services, have put there. While `torn`, the members of groups are excepted: those
  of a built-in group survive the wipe, and the theorem says that the group section of this
  import, or of the one that makes up for it, ends that.
- `WhatIsDeletedIsSaved`: `Spec => DeletedIsSaved`. `SaveInv`: at most one request exports or
  is about to delete, an export that nobody crossed has read what the configuration holds,
  and from its end to the wipe the newest snapshot is the configuration.
- `RestoresAreFaithful`: `Spec => []RestoreIsFaithful`, and `ConsistentBackupsRestore`:
  `Spec => []ConsistentBackupRestores`. `NumInv`: every id of a row, and every id that a
  reference to a profile or a template names, in the configuration, a snapshot, a request or
  what an export has read, is below the next one of its table, so that an id given anew is
  not one that an old reference names by chance. `Recreated`: before section `s` of an import
  that nobody has overtaken, the tables of the sections before mean what they mean in the
  backup (the same names, and references to rows with the same names), the others are empty,
  and the identity maps lead from each row of the backup to the row with its name. The order
  of the sections is what carries it: what a row refers to was recreated before it
  (`SectionFacts`), hence a reference means, moved, what it meant (`MovedMeaning`), and a row
  whose references a form would accept fits (`RowsFit`). After the last section the digests
  are equal, so the verification of a restore passes as well.

`EnforcementProofs`, for any devices, built-in and custom services, schedules, days and
bounds. The inductive invariant `IInv` is about the rest of the plan of the request that
holds the lane, so that each theorem is a fact about its first call:

- `TypeCorrect`: `Spec => []TypeOK`. `JobOK`: every call that is left names what exists,
  and a request about a device writes to that device only.
- `GateStaysOpen`: `Spec => NoSelfLockout`. `OrderOK`: whatever writes comes after a gate;
  once the gate was passed, no list holds a device twice, and the additions that are left
  are at the head of the plan, one for each entry, of entries that are not there.
- `StaysLimited`: `Spec => FailsRestrictive`, and `BlocksComeFirst`: `Spec => ReleasesLast`.
  `PolicyOK`: what limits the new mode (the block, or the slow queue, enabled) is on the
  router or is added before anything is released, and is itself not released; services
  outside the policy are released after those of the policy are in their lists. `Fresh`: a
  queue that is disabled exists, so that one just added is enabled.
- `RestoreIsArmed`: `Spec => ArmedBeforeNormal`. `TempOK`: what is left of the plan is a
  suffix of it, and in its last three calls the restore is armed; undoing it disarms only.

The plans are sequences of any length: the operators that build them (`Each`, `Ordered`,
`Block`, `ServiceCalls`, `Stale`) have lemmas that say which calls they contain and in which
order. Where that needs induction over a length, the lemma `Least` (a set of numbers that is
not empty has a least one, from the well-foundedness of `<`) takes its place.

Only model-checked:

- every liveness property (`RequestsServed`, `QueuesDrain`, `Converges` and their like):
  they rest on fairness and `ENABLED`, which the provers do not handle;
- *Policy*: its properties speak of every answer the resolver gives, and their proofs begin
  with lemmas about its operators that are not stated yet.

## What is not modelled

- The job `notifications.intelligence` of `_schedule_background_analytics`, queued like
  a view; published observations and the `partial` result of the reconciler, which carry
  no control; bandwidth and services apart from the mode, and SLOW apart from BLOCKED.
- The translation of the legacy Kid Control configuration and the one-time passwords of
  the cutover; the several transactions inside `materialize_kid_control_replacement`,
  which the code undoes together.
- Built-in services and presets, which no operation here changes, and the renaming of
  built-in groups.
- In Enforcement the rates of queues, the reset of live connections, and names and comments
  of RouterOS objects; in PolicyConfig everything of a row but its name and references; in
  Alerts wording, payloads and encryption, e-mail apart from webhooks for alerts, and the
  thresholds behind a signal; in Policy labels, warning percentages, checkpoints written
  for a changed name only, and more than one device and one template.
- Authentication, upgrade safety and telemetry ingest. Analytics (except `daily_usage`),
  diagnostics, support bundle and user interface only read or render.
- RouterOS, SQLite and the container runtime are the environment: RouterOS calls are
  atomic and may fail before or after their effect, SQLite has one writer at a time, a
  dead process is started again.

## Plan

What is left, in this order, each with the inductive invariant that TLC checks first:

1. *Policy*: what `Selected`, `ResolveWall` and `ScheduledBlocks` return, as lemmas, then
   `HistoryTruthful`.

After that, modules for authentication and for telemetry ingest.

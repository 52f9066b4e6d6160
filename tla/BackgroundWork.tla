--------------------------- MODULE BackgroundWork ---------------------------
(***************************************************************************)
(* The durable read-side work queue of ZEN Control: the revisioned         *)
(* configuration with its transactional outbox, the background_jobs table  *)
(* with leases and bounded attempts, the background_scope_locks table, the *)
(* prepared views, and the BackgroundWorker whose cycle drives them        *)
(* (app/background_work.py, app/policy_store.py, app/main.py).             *)
(*                                                                         *)
(* One action is one SQLite transaction, or one step of the worker between *)
(* two of them.  Instants are kept as the time that is left: a lease, a    *)
(* scope lock and an available_at are numbers of ticks that Tick counts    *)
(* down, so "expires_at <= now" is "no tick left".  A lease token is the   *)
(* worker whose current claim it is, or Orphan once the process that       *)
(* claimed has died; TokensFresh, in BackgroundWorkProofs, is the reason   *)
(* this identification is sound.                                           *)
(***************************************************************************)
EXTENDS Naturals, FiniteSets

CONSTANTS
  Workers,         \* BackgroundWorker threads (the deployment runs one)
  Views,           \* names of prepared views, each with a scope of its own
  Attempts,        \* kind -> max_attempts
  LeaseTicks,      \* lease_seconds of a claim and of a scope lock
  RetryTicks,      \* delay before a failed attempt is retried
  DeferTicks,      \* delay of a job whose scope lock was busy
  MaxJobsPerCycle, \* jobs one cycle may claim
  KeepRows,        \* newest finished rows that pruning always keeps
  BucketsPerHour,  \* scheduling buckets in one hour
  MaxRevision,     \* bound: configuration writes
  MaxBucket,       \* bound: two-minute scheduling buckets
  MaxCrashes,      \* bound: process crashes
  None, Orphan     \* lease tokens that belong to no worker

Kinds == {"config", "view", "retention"}

ASSUME WorkersAssumption ==
  /\ None \notin Workers /\ Orphan \notin Workers /\ None # Orphan
ASSUME ViewsAssumption == "config" \notin Views /\ "retention" \notin Views
ASSUME AttemptsAssumption == Attempts \in [Kinds -> Nat \ {0}]
ASSUME TicksAssumption ==
  /\ LeaseTicks \in Nat \ {0}
  /\ RetryTicks \in Nat
  /\ DeferTicks \in Nat
  /\ MaxJobsPerCycle \in Nat \ {0}
  /\ KeepRows \in Nat
  /\ BucketsPerHour \in Nat \ {0}
ASSUME BoundsAssumption ==
  MaxRevision \in Nat \ {0} /\ MaxBucket \in Nat /\ MaxCrashes \in Nat

VARIABLES
  revision,   \* config_revision_state.revision
  outbox,     \* revision -> status of its config.changed outbox row
  bucket,     \* int(now) // 120
  jobs,       \* idempotency key -> row of background_jobs
  nextId,     \* AUTOINCREMENT of background_jobs
  locks,      \* scope -> row of background_scope_locks
  views,      \* view -> row of prepared_views
  notified,   \* scope -> the notification background:kind:scope is open
  pc,         \* worker -> where its cycle is
  held,       \* worker -> key of the job it claimed
  seen,       \* worker -> revision and bucket its producer read
  todo,       \* worker -> views its producer has still to enqueue
  left,       \* worker -> jobs its cycle may still claim
  built,      \* worker -> revision its handler read, and the stamp of its result
  crashes     \* crashes so far

durable == <<revision, outbox, jobs, nextId, locks, views, notified>>
local == <<pc, held, seen, todo, left, built>>
vars == <<durable, bucket, local, crashes>>

-----------------------------------------------------------------------------
Revisions == 1..MaxRevision
Buckets == 0..MaxBucket
Scopes == Views \cup {"config", "retention"}
Tokens == Workers \cup {None, Orphan}

\* Idempotency keys: config-analytics:rN, prepared:view:rN:bB and
\* background-retention:hH.  The UNIQUE column makes them the rows' identity.
ConfigKey(r) == [kind |-> "config", scope |-> "config", rev |-> r, slot |-> 0]
ViewKey(v, r, b) == [kind |-> "view", scope |-> v, rev |-> r, slot |-> b]
RetentionKey(h) ==
  [kind |-> "retention", scope |-> "retention", rev |-> 0, slot |-> h]
ConfigKeys ==
  [kind : {"config"}, scope : {"config"}, rev : Revisions, slot : {0}]
ViewKeys == [kind : {"view"}, scope : Views, rev : Revisions, slot : Buckets]
RetentionKeys ==
  [kind : {"retention"}, scope : {"retention"}, rev : {0},
   slot : {b \div BucketsPerHour : b \in Buckets}]
Keys == ConfigKeys \cup ViewKeys \cup RetentionKeys

JobRow ==
  [status : {"absent", "pending", "running", "succeeded", "failed"},
   id : Nat, attempts : Nat, delay : Nat, token : Tokens, lease : 0..LeaseTicks]
AbsentJob ==
  [status |-> "absent", id |-> 0, attempts |-> 0, delay |-> 0,
   token |-> None, lease |-> 0]
NewJob(id) ==
  [status |-> "pending", id |-> id, attempts |-> 0, delay |-> 0,
   token |-> None, lease |-> 0]
LockRow == [token : Tokens, lease : 0..LeaseTicks]
FreeLock == [token |-> None, lease |-> 0]
NoView == [src |-> 1, built |-> 1, live |-> FALSE]

Terminal == {"succeeded", "failed"}
Present(k) == jobs[k].status # "absent"
\* status='running' AND lease_owner=? AND lease_token=?
OwnsLease(w) == /\ jobs[held[w]].status = "running"
                /\ jobs[held[w]].token = w
MaxAttempts(k) == Attempts[k.kind]

Goto(w, l) == pc' = [pc EXCEPT ![w] = l]
SetJob(w, j) == jobs' = [jobs EXCEPT ![held[w]] = j]

NoKey == ConfigKey(0)
NothingSeen == [rev |-> 1, bucket |-> 0]
BuiltRow == [read : Revisions, stamp : Revisions]
NothingBuilt == [read |-> 1, stamp |-> 1]

\* Local variables are reset where the code's last use of them is.
DropJob(w) == held' = [held EXCEPT ![w] = NoKey]
DropSeen(w) == seen' = [seen EXCEPT ![w] = NothingSeen]
DropBuilt(w) == built' = [built EXCEPT ![w] = NothingBuilt]

\* Where a worker is between its claim and the end of that job.
Handling == {"run", "stamp", "save", "finish", "fail", "failLast", "failRetry"}
Working == Handling \cup {"lock", "defer"}
Locked == Handling \cup {"release", "abort"}
Labels == Working \cup Locked
            \cup {"down", "idle", "schedule", "enqueue", "dispatch", "claim"}

TypeOK ==
  /\ revision \in Revisions
  /\ outbox \in [Revisions -> {"none", "pending", "dispatched", "pruned"}]
  /\ bucket \in Buckets
  /\ jobs \in [Keys -> JobRow]
  /\ nextId \in Nat
  /\ locks \in [Scopes -> LockRow]
  /\ views \in [Views -> [src : Revisions, built : Revisions, live : BOOLEAN]]
  /\ notified \in [Scopes -> BOOLEAN]
  /\ pc \in [Workers -> Labels]
  /\ held \in [Workers -> Keys \cup {NoKey}]
  /\ seen \in [Workers -> [rev : Revisions, bucket : Buckets]]
  /\ todo \in [Workers -> SUBSET Views]
  /\ left \in [Workers -> 0..MaxJobsPerCycle]
  /\ built \in [Workers -> BuiltRow]
  /\ crashes \in 0..MaxCrashes

\* Startup has journalled revision 1 (ensure_config_revision_baseline) before
\* the worker thread starts.
Init ==
  /\ revision = 1
  /\ outbox = [r \in Revisions |-> IF r = 1 THEN "pending" ELSE "none"]
  /\ bucket = 0
  /\ jobs = [k \in Keys |-> AbsentJob]
  /\ nextId = 1
  /\ locks = [s \in Scopes |-> FreeLock]
  /\ views = [v \in Views |-> NoView]
  /\ notified = [s \in Scopes |-> FALSE]
  /\ pc = [w \in Workers |-> "idle"]
  /\ held = [w \in Workers |-> NoKey]
  /\ seen = [w \in Workers |-> NothingSeen]
  /\ todo = [w \in Workers |-> {}]
  /\ left = [w \in Workers |-> 0]
  /\ built = [w \in Workers |-> NothingBuilt]
  /\ crashes = 0

-----------------------------------------------------------------------------
(* The rest of the application: configuration writers and the clock.       *)

\* config_write commits the change, its journal row and its outbox row in one
\* transaction.  (Writers that race for one revision: module ConfigRevision.)
ConfigWrite ==
  /\ revision < MaxRevision
  /\ revision' = revision + 1
  /\ outbox' = [outbox EXCEPT ![revision + 1] = "pending"]
  /\ UNCHANGED <<jobs, nextId, locks, views, notified, bucket, local, crashes>>

Elapse(n) == IF n = 0 THEN 0 ELSE n - 1
Aged(j) == [j EXCEPT !.delay = Elapse(j.delay), !.lease = Elapse(j.lease)]

\* One tick of the wall clock, for every instant the tables hold.
Tick ==
  /\ \/ \E k \in Keys : jobs[k].delay > 0 \/ jobs[k].lease > 0
     \/ \E s \in Scopes : locks[s].lease > 0
  /\ jobs' = [k \in Keys |-> Aged(jobs[k])]
  /\ locks' = [s \in Scopes |->
                 [locks[s] EXCEPT !.lease = Elapse(locks[s].lease)]]
  /\ UNCHANGED <<revision, outbox, nextId, views, notified, bucket, local,
                 crashes>>

NextBucket ==
  /\ bucket < MaxBucket
  /\ bucket' = bucket + 1
  /\ UNCHANGED <<durable, local, crashes>>

\* The ttl of a prepared view runs out.
ExpireView(v) ==
  /\ views[v].live
  /\ views' = [views EXCEPT ![v].live = FALSE]
  /\ UNCHANGED <<revision, outbox, jobs, nextId, locks, notified, bucket,
                 local, crashes>>

-----------------------------------------------------------------------------
(* The worker's cycle.                                                     *)

Requeued(j) == [j EXCEPT !.status = "pending", !.token = None, !.delay = 0]
GivenUp(j) == [j EXCEPT !.status = "failed"]
\* Mutants: recovery that forgets the attempt bound; recovery that never happens.
RecoveredJobUnbounded(k) ==
  IF jobs[k].status = "running" /\ jobs[k].lease = 0 THEN Requeued(jobs[k])
                                                     ELSE jobs[k]
RecoveredJobNever(k) == jobs[k]

RecoveredJob(k) ==
  IF jobs[k].status = "running" /\ jobs[k].lease = 0
  THEN IF jobs[k].attempts < MaxAttempts(k) THEN Requeued(jobs[k])
                                            ELSE GivenUp(jobs[k])
  ELSE jobs[k]

\* recover_expired_background_work: expired scope locks are deleted, expired
\* leases go back to the queue or, out of attempts, to failed.
RecoverExpired(w) ==
  /\ pc[w] = "idle"
  /\ locks' = [s \in Scopes |-> IF locks[s].lease = 0 THEN FreeLock ELSE locks[s]]
  /\ jobs' = [k \in Keys |-> RecoveredJob(k)]
  /\ Goto(w, "schedule")
  /\ UNCHANGED <<revision, outbox, nextId, views, notified, bucket, held, seen,
                 todo, left, built, crashes>>

\* The producer reads the clock and the revision once, then enqueues.
Schedule(w) ==
  /\ pc[w] = "schedule"
  /\ seen' = [seen EXCEPT ![w] = [rev |-> revision, bucket |-> bucket]]
  /\ todo' = [todo EXCEPT ![w] = Views]
  /\ Goto(w, "enqueue")
  /\ UNCHANGED <<durable, bucket, held, left, built, crashes>>

\* INSERT OR IGNORE: an idempotency key that is already there stays as it is.
Inserted(table, k) ==
  IF table[k].status = "absent" THEN [table EXCEPT ![k] = NewJob(nextId)] ELSE table

\* The DELETE that precedes the INSERT when replace_pending is set.
Coalesced(k) ==
  [j \in Keys |-> IF /\ j.kind = k.kind /\ j.scope = k.scope /\ j # k
                     /\ jobs[j].status = "pending"
                  THEN AbsentJob ELSE jobs[j]]

EnqueueView(w, v) ==
  LET k == ViewKey(v, seen[w].rev, seen[w].bucket) IN
  /\ pc[w] = "enqueue"
  /\ v \in todo[w]
  /\ jobs' = Inserted(Coalesced(k), k)
  /\ nextId' = IF Present(k) THEN nextId ELSE nextId + 1
  /\ todo' = [todo EXCEPT ![w] = todo[w] \ {v}]
  /\ UNCHANGED <<revision, outbox, locks, views, notified, bucket, pc, held,
                 seen, left, built, crashes>>

EnqueueRetention(w) ==
  LET k == RetentionKey(seen[w].bucket \div BucketsPerHour) IN
  /\ pc[w] = "enqueue"
  /\ todo[w] = {}
  /\ jobs' = Inserted(jobs, k)
  /\ nextId' = IF Present(k) THEN nextId ELSE nextId + 1
  /\ DropSeen(w)
  /\ Goto(w, "dispatch")
  /\ UNCHANGED <<revision, outbox, locks, views, notified, bucket, held, todo,
                 left, built, crashes>>

\* Rows are dispatched in id order, which is revision order, in a transaction
\* (limit 50 is above the bound on revisions).
PendingRows == {r \in Revisions : outbox[r] = "pending"}
RowsBefore(r) == {q \in PendingRows : q < r /\ ~Present(ConfigKey(q))}

DispatchOutbox(w) ==
  /\ pc[w] = "dispatch"
  /\ jobs' = [k \in Keys |->
                IF k \in {ConfigKey(r) : r \in PendingRows} /\ ~Present(k)
                THEN NewJob(nextId + Cardinality(RowsBefore(k.rev)))
                ELSE jobs[k]]
  /\ nextId' = nextId + Cardinality({r \in PendingRows : ~Present(ConfigKey(r))})
  /\ outbox' = [r \in Revisions |->
                  IF r \in PendingRows THEN "dispatched" ELSE outbox[r]]
  /\ left' = [left EXCEPT ![w] = MaxJobsPerCycle]
  /\ Goto(w, "claim")
  /\ UNCHANGED <<revision, locks, views, notified, bucket, held, seen, todo,
                 built, crashes>>

Claimable == {k \in Keys : /\ jobs[k].status = "pending"
                           /\ jobs[k].delay = 0
                           /\ jobs[k].attempts < MaxAttempts(k)}
FirstClaimable(k) ==
  k \in Claimable /\ \A j \in Claimable : jobs[k].id <= jobs[j].id

Leased(j, w) ==
  [j EXCEPT !.status = "running", !.attempts = j.attempts + 1, !.token = w,
            !.lease = LeaseTicks]

\* Mutant: the cycle does not count the jobs it claims.
ClaimUnbounded(w) ==
  /\ pc[w] = "claim"
  /\ \E k \in Keys :
       /\ FirstClaimable(k)
       /\ held' = [held EXCEPT ![w] = k]
       /\ jobs' = [jobs EXCEPT ![k] = Leased(jobs[k], w)]
  /\ left' = [left EXCEPT ![w] = left[w] - 1]
  /\ Goto(w, "lock")
  /\ UNCHANGED <<revision, outbox, nextId, locks, views, notified, bucket,
                 seen, todo, built, crashes>>

\* claim_background_job: the oldest claimable job, under a fresh token.
Claim(w) ==
  /\ pc[w] = "claim"
  /\ left[w] > 0
  /\ \E k \in Keys :
       /\ FirstClaimable(k)
       /\ held' = [held EXCEPT ![w] = k]
       /\ jobs' = [jobs EXCEPT ![k] = Leased(jobs[k], w)]
  /\ left' = [left EXCEPT ![w] = left[w] - 1]
  /\ Goto(w, "lock")
  /\ UNCHANGED <<revision, outbox, nextId, locks, views, notified, bucket,
                 seen, todo, built, crashes>>

EndCycle(w) ==
  /\ pc[w] = "claim"
  /\ left[w] = 0 \/ Claimable = {}
  /\ left' = [left EXCEPT ![w] = 0]
  /\ Goto(w, "idle")
  /\ UNCHANGED <<durable, bucket, held, seen, todo, built, crashes>>

\* Mutant: the lock of another holder is overwritten.
AcquireScopeAnyway(w) ==
  /\ pc[w] = "lock"
  /\ locks' = [locks EXCEPT ![held[w].scope] = [token |-> w, lease |-> LeaseTicks]]
  /\ Goto(w, "run")
  /\ UNCHANGED <<revision, outbox, jobs, nextId, views, notified, bucket,
                 held, seen, todo, left, built, crashes>>

\* acquire_background_scope_lock: an expired lock of the scope is deleted
\* first; the token is fresh, so a lock that is left belongs to someone else.
AcquireScope(w) ==
  LET s == held[w].scope
      free == locks[s].token = None \/ locks[s].lease = 0
  IN
  /\ pc[w] = "lock"
  /\ IF free
     THEN /\ locks' = [locks EXCEPT ![s] = [token |-> w, lease |-> LeaseTicks]]
          /\ Goto(w, "run")
     ELSE UNCHANGED locks /\ Goto(w, "defer")
  /\ UNCHANGED <<revision, outbox, jobs, nextId, views, notified, bucket,
                 held, seen, todo, left, built, crashes>>

Deferred(j) ==
  [j EXCEPT !.status = "pending", !.token = None, !.lease = 0,
            !.attempts = Elapse(j.attempts), !.delay = DeferTicks]

\* defer_background_job gives the attempt back.  A lost lease raises, outside
\* the try block, and ends the cycle.
Defer(w) ==
  /\ pc[w] = "defer"
  /\ IF OwnsLease(w)
     THEN /\ SetJob(w, Deferred(jobs[held[w]]))
          /\ Goto(w, "claim")
     ELSE UNCHANGED jobs /\ Goto(w, "idle")
  /\ DropJob(w)
  /\ UNCHANGED <<revision, outbox, nextId, locks, views, notified, bucket,
                 seen, todo, left, built, crashes>>

\* _background_config_analytics reads; its result goes into the job's row.
Analyse(w) ==
  /\ pc[w] = "run"
  /\ held[w].kind = "config"
  /\ Goto(w, "finish")
  /\ UNCHANGED <<durable, bucket, held, seen, todo, left, built, crashes>>

\* _background_prepared_view reads the configuration...
BuildView(w) ==
  /\ pc[w] = "run"
  /\ held[w].kind = "view"
  /\ built' = [built EXCEPT ![w].read = revision]
  /\ Goto(w, "stamp")
  /\ UNCHANGED <<durable, bucket, held, seen, todo, left, crashes>>

\* ...then, once the result is there, the revision to stamp it with...
StampView(w) ==
  /\ pc[w] = "stamp"
  /\ built' = [built EXCEPT ![w].stamp = revision]
  /\ Goto(w, "save")
  /\ UNCHANGED <<durable, bucket, held, seen, todo, left, crashes>>

\* ...and save_prepared_view publishes it in a transaction of its own.
SaveView(w) ==
  /\ pc[w] = "save"
  /\ views' = [views EXCEPT ![held[w].scope] =
                 [src |-> built[w].stamp, built |-> built[w].read, live |-> TRUE]]
  /\ DropBuilt(w)
  /\ Goto(w, "finish")
  /\ UNCHANGED <<revision, outbox, jobs, nextId, locks, notified, bucket,
                 held, seen, todo, left, crashes>>

\* Terminal jobs and dispatched outbox rows beyond the newest KeepRows may go.
\* How old a row is decides whether it does; a row of the current bucket is
\* never old enough.
PrunableJobs ==
  LET done == {k \in Keys : jobs[k].status \in Terminal} IN
  {k \in done : /\ Cardinality({j \in done : jobs[j].id > jobs[k].id}) >= KeepRows
                /\ k.kind = "view" => k.slot < bucket
                /\ k.kind = "retention" => k.slot < bucket \div BucketsPerHour}
PrunableRows ==
  LET done == {r \in Revisions : outbox[r] = "dispatched"} IN
  {r \in done : Cardinality({q \in done : q > r}) >= KeepRows}

\* _background_retention: prune_background_history.
Prune(w) ==
  /\ pc[w] = "run"
  /\ held[w].kind = "retention"
  /\ \E old \in SUBSET PrunableJobs, rows \in SUBSET PrunableRows :
       /\ jobs' = [k \in Keys |-> IF k \in old THEN AbsentJob ELSE jobs[k]]
       /\ outbox' = [r \in Revisions |-> IF r \in rows THEN "pruned" ELSE outbox[r]]
  /\ Goto(w, "finish")
  /\ UNCHANGED <<revision, nextId, locks, views, notified, bucket, held, seen,
                 todo, left, built, crashes>>

\* The handler raises: telemetry is unavailable, a payload is too large...
HandlerRaises(w) ==
  /\ pc[w] \in {"run", "stamp", "save"}
  /\ DropBuilt(w)
  /\ Goto(w, "fail")
  /\ UNCHANGED <<durable, bucket, held, seen, todo, left, crashes>>

Succeeded(j) == [j EXCEPT !.status = "succeeded", !.token = None, !.lease = 0]

\* complete_background_job, or the ValueError of a lost lease, which the
\* except branch turns into fail_background_job.
Complete(w) ==
  /\ pc[w] = "finish"
  /\ IF OwnsLease(w)
     THEN /\ SetJob(w, Succeeded(jobs[held[w]]))
          /\ notified' = [notified EXCEPT ![held[w].scope] = FALSE]
          /\ Goto(w, "release")
     ELSE UNCHANGED <<jobs, notified>> /\ Goto(w, "fail")
  /\ UNCHANGED <<revision, outbox, nextId, locks, views, bucket, held, seen,
                 todo, left, built, crashes>>

\* Mutant: attempts > max_attempts.
FailReadOffByOne(w) ==
  LET last == jobs[held[w]].attempts > MaxAttempts(held[w]) IN
  /\ pc[w] = "fail"
  /\ Goto(w, IF ~OwnsLease(w) THEN "abort"
             ELSE IF last THEN "failLast" ELSE "failRetry")
  /\ UNCHANGED <<durable, bucket, held, seen, todo, left, built, crashes>>

\* fail_background_job reads the lease and the attempts before its transaction
\* begins; on a lost lease it raises too, and the cycle ends once the finally
\* block has released the scope.
FailRead(w) ==
  LET last == jobs[held[w]].attempts >= MaxAttempts(held[w]) IN
  /\ pc[w] = "fail"
  /\ Goto(w, IF ~OwnsLease(w) THEN "abort"
             ELSE IF last THEN "failLast" ELSE "failRetry")
  /\ UNCHANGED <<durable, bucket, held, seen, todo, left, built, crashes>>

Failed(j) == [j EXCEPT !.status = "failed", !.token = None, !.lease = 0]
Retried(j) == [j EXCEPT !.status = "pending", !.token = None, !.lease = 0,
                        !.delay = RetryTicks]

\* UPDATE ... WHERE id=?: whatever the row has become since.
FailWrite(w) ==
  LET last == pc[w] = "failLast" IN
  /\ pc[w] \in {"failLast", "failRetry"}
  /\ IF Present(held[w])
     THEN SetJob(w, IF last THEN Failed(jobs[held[w]]) ELSE Retried(jobs[held[w]]))
     ELSE UNCHANGED jobs
  /\ notified' = [notified EXCEPT ![held[w].scope] = @ \/ last]
  /\ Goto(w, "release")
  /\ UNCHANGED <<revision, outbox, nextId, locks, views, bucket, held, seen,
                 todo, left, built, crashes>>

\* Mutant: a cycle that aborts does not release its scope.
ReleaseScopeNotOnAbort(w) ==
  LET s == held[w].scope IN
  /\ pc[w] \in {"release", "abort"}
  /\ locks' = IF locks[s].token = w /\ pc[w] = "release"
              THEN [locks EXCEPT ![s] = FreeLock] ELSE locks
  /\ DropJob(w)
  /\ Goto(w, IF pc[w] = "release" THEN "claim" ELSE "idle")
  /\ UNCHANGED <<revision, outbox, jobs, nextId, views, notified, bucket,
                 seen, todo, left, built, crashes>>

\* release_background_scope_lock deletes the lock only with the owner's token.
ReleaseScope(w) ==
  LET s == held[w].scope IN
  /\ pc[w] \in {"release", "abort"}
  /\ locks' = IF locks[s].token = w THEN [locks EXCEPT ![s] = FreeLock] ELSE locks
  /\ DropJob(w)
  /\ Goto(w, IF pc[w] = "release" THEN "claim" ELSE "idle")
  /\ UNCHANGED <<revision, outbox, jobs, nextId, views, notified, bucket,
                 seen, todo, left, built, crashes>>

-----------------------------------------------------------------------------
(* The process dies between two steps (also stop(), which joins the thread *)
(* for three seconds only) and is started again.                           *)

Orphaned(j) == [j EXCEPT !.token = Orphan]

Crash(w) ==
  /\ pc[w] # "down"
  /\ crashes < MaxCrashes
  /\ crashes' = crashes + 1
  /\ jobs' = [k \in Keys |->
                IF jobs[k].token = w THEN Orphaned(jobs[k]) ELSE jobs[k]]
  /\ locks' = [s \in Scopes |-> IF locks[s].token = w
                                THEN Orphaned(locks[s])
                                ELSE locks[s]]
  /\ Goto(w, "down")
  /\ todo' = [todo EXCEPT ![w] = {}]
  /\ left' = [left EXCEPT ![w] = 0]
  /\ DropJob(w) /\ DropSeen(w) /\ DropBuilt(w)
  /\ UNCHANGED <<revision, outbox, nextId, views, notified, bucket>>

Restart(w) ==
  /\ pc[w] = "down"
  /\ Goto(w, "idle")
  /\ UNCHANGED <<durable, bucket, held, seen, todo, left, built, crashes>>

WorkerStep(w) ==
  \/ RecoverExpired(w) \/ Schedule(w)
  \/ \E v \in Views : EnqueueView(w, v)
  \/ EnqueueRetention(w) \/ DispatchOutbox(w)
  \/ Claim(w) \/ EndCycle(w)
  \/ AcquireScope(w) \/ Defer(w)
  \/ Analyse(w) \/ BuildView(w) \/ StampView(w) \/ SaveView(w) \/ Prune(w)
  \/ HandlerRaises(w)
  \/ Complete(w) \/ FailRead(w) \/ FailWrite(w) \/ ReleaseScope(w)
  \/ Restart(w)

Next ==
  \/ ConfigWrite \/ Tick \/ NextBucket
  \/ \E v \in Views : ExpireView(v)
  \/ \E w \in Workers : WorkerStep(w) \/ Crash(w)

Spec == Init /\ [][Next]_vars

\* The daemon thread keeps cycling (run_cycle, then wait(interval)), a handler
\* returns or raises, the container restarts a dead process, and time passes.
FairSpec ==
  /\ Spec
  /\ WF_vars(Tick)
  /\ \A w \in Workers : WF_vars(WorkerStep(w))

-----------------------------------------------------------------------------
(* Properties.                                                             *)

\* A worker that starts a claim owns nothing under its name: a token that
\* equals the worker is always the token of its current claim.
JobTokensFresh ==
  \A k \in Keys, w \in Workers :
    jobs[k].status = "running" /\ jobs[k].token = w
      => pc[w] \in Working /\ held[w] = k
LockTokensFresh ==
  \A s \in Scopes, w \in Workers :
    locks[s].token = w => pc[w] \in Locked /\ held[w].scope = s
TokensFresh == JobTokensFresh /\ LockTokensFresh

\* With one worker, no job is stranded: claim_background_job skips a pending
\* job that is out of attempts, so recovery, retry and deferral must never leave
\* one like that, and a running job always has a lease that somebody will see
\* expire.
NoStrandedJob ==
  \A k \in Keys :
    /\ jobs[k].status = "pending" => jobs[k].attempts < MaxAttempts(k)
    /\ jobs[k].status = "running" => /\ jobs[k].attempts \in 1..MaxAttempts(k)
                                     /\ jobs[k].token # None

\* Two handlers never work on one scope under two live leases: the scope lock
\* is taken after the claim, so it outlives the claim's lease.
ScopeExclusive ==
  \A w1, w2 \in Workers :
    /\ w1 # w2
    /\ pc[w1] \in Handling /\ OwnsLease(w1) /\ jobs[held[w1]].lease > 0
    /\ pc[w2] \in Handling /\ OwnsLease(w2) /\ jobs[held[w2]].lease > 0
    => held[w1].scope # held[w2].scope

\* Every committed configuration change is analysed to the end or reported
\* as failed, across crashes: the outbox row is not lost.
ConfigDelivered ==
  \A r \in Revisions :
    outbox[r] = "pending" ~> jobs[ConfigKey(r)].status \in Terminal

\* Once time and configuration settle, every view is prepared for them, or its
\* job has failed for good.
LastViewsPrepared ==
  \A v \in Views :
    revision = MaxRevision /\ bucket = MaxBucket
      ~> jobs[ViewKey(v, MaxRevision, MaxBucket)].status \in Terminal

\* What get_prepared_view's caller is promised: "A configuration revision
\* mismatch never silently serves old policy/service semantics".
EligibleViewIsCurrent ==
  \A v \in Views :
    views[v].live /\ views[v].src = revision => views[v].built = revision
=============================================================================

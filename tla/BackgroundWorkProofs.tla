------------------------ MODULE BackgroundWorkProofs ------------------------
(* Proofs about BackgroundWork, for any number of workers and any bounds.  *)
EXTENDS BackgroundWork, FiniteSetTheorems, TLAPS

-----------------------------------------------------------------------------
(* Facts about keys and rows.                                              *)

LEMMA KeyFacts ==
  /\ \A r \in Revisions : ConfigKey(r) \in Keys
  /\ \A v \in Views, r \in Revisions, b \in Buckets : ViewKey(v, r, b) \in Keys
  /\ \A b \in Buckets : RetentionKey(b \div BucketsPerHour) \in Keys
  /\ \A k \in Keys : k.scope \in Scopes /\ k.kind \in Kinds
<1>1. \A r \in Revisions : ConfigKey(r) \in Keys
  BY DEF Keys, ConfigKeys, ConfigKey
<1>2. \A v \in Views, r \in Revisions, b \in Buckets : ViewKey(v, r, b) \in Keys
  BY DEF Keys, ViewKeys, ViewKey
<1>3. \A b \in Buckets : RetentionKey(b \div BucketsPerHour) \in Keys
  BY DEF Keys, RetentionKeys, RetentionKey
<1>4. \A k \in Keys : k.scope \in Scopes /\ k.kind \in Kinds
  BY DEF Keys, ConfigKeys, ViewKeys, RetentionKeys, Scopes, Kinds
<1> QED BY <1>1, <1>2, <1>3, <1>4

LEMMA ViewKeyScope ==
  \A k \in Keys : k.kind = "view" => k.scope \in Views
BY DEF Keys, ConfigKeys, ViewKeys, RetentionKeys

LEMMA MaxAttemptsType == \A k \in Keys : MaxAttempts(k) \in Nat \ {0}
BY KeyFacts, AttemptsAssumption DEF MaxAttempts

LEMMA AbsentIsRow == AbsentJob \in JobRow
BY TicksAssumption DEF AbsentJob, JobRow, Tokens

LEMMA NewJobIsRow == \A n \in Nat : NewJob(n) \in JobRow
BY TicksAssumption DEF NewJob, JobRow, Tokens

LEMMA FreeIsLock == FreeLock \in LockRow
BY TicksAssumption DEF FreeLock, LockRow, Tokens

LEMMA RowsCount ==
  ASSUME NEW S \in SUBSET Revisions
  PROVE  Cardinality(S) \in Nat
<1>1. IsFiniteSet(Revisions)
  BY FS_Interval, BoundsAssumption DEF Revisions
<1>2. IsFiniteSet(S)
  BY <1>1, FS_Subset
<1> QED BY <1>2, FS_CardinalityType


LEMMA ElapseFacts == \A n \in Nat : Elapse(n) \in Nat /\ Elapse(n) <= n
BY DEF Elapse

\* The updates of a row keep it a row.
LEMMA RowUpdates ==
  ASSUME NEW j \in JobRow
  PROVE  /\ Aged(j) \in JobRow
         /\ Requeued(j) \in JobRow
         /\ GivenUp(j) \in JobRow
         /\ \A w \in Workers : Leased(j, w) \in JobRow
         /\ Deferred(j) \in JobRow
         /\ Succeeded(j) \in JobRow
         /\ Failed(j) \in JobRow
         /\ Retried(j) \in JobRow
         /\ Orphaned(j) \in JobRow
<1>1. /\ Elapse(j.delay) \in Nat /\ Elapse(j.lease) \in 0..LeaseTicks
      /\ Elapse(j.attempts) \in Nat /\ j.attempts + 1 \in Nat
      /\ LeaseTicks \in 0..LeaseTicks /\ 0 \in 0..LeaseTicks
  BY ElapseFacts, TicksAssumption DEF JobRow
<1>2. Workers \cup {None, Orphan} \subseteq Tokens
  BY DEF Tokens
<1>3. Aged(j) \in JobRow  BY <1>1 DEF Aged, JobRow
<1>4. Requeued(j) \in JobRow  BY <1>2 DEF Requeued, JobRow
<1>5. GivenUp(j) \in JobRow  BY DEF GivenUp, JobRow
<1>6. \A w \in Workers : Leased(j, w) \in JobRow  BY <1>1, <1>2 DEF Leased, JobRow
<1>7. Deferred(j) \in JobRow  BY <1>1, <1>2, TicksAssumption DEF Deferred, JobRow
<1>8. Succeeded(j) \in JobRow  BY <1>1, <1>2 DEF Succeeded, JobRow
<1>9. Failed(j) \in JobRow  BY <1>1, <1>2 DEF Failed, JobRow
<1>10. Retried(j) \in JobRow  BY <1>1, <1>2, TicksAssumption DEF Retried, JobRow
<1>11. Orphaned(j) \in JobRow  BY <1>2 DEF Orphaned, JobRow
<1> QED BY <1>3, <1>4, <1>5, <1>6, <1>7, <1>8, <1>9, <1>10, <1>11

LEMMA LockUpdates ==
  /\ \A l \in LockRow : /\ [l EXCEPT !.lease = Elapse(l.lease)] \in LockRow
                        /\ Orphaned(l) \in LockRow
  /\ \A w \in Workers : [token |-> w, lease |-> LeaseTicks] \in LockRow
BY ElapseFacts, TicksAssumption DEF Orphaned, LockRow, Tokens


-----------------------------------------------------------------------------
(* Type correctness, together with what a worker's program counter says    *)
(* about the job it holds.                                                 *)

HeldOK ==
  \A w \in Workers :
    /\ pc[w] \in Working \cup Locked => held[w] \in Keys
    /\ pc[w] \in {"stamp", "save"} => held[w].kind = "view"

TypeInv == TypeOK /\ HeldOK

LEMMA TypeInit == Init => TypeInv
<1> SUFFICES ASSUME Init PROVE TypeInv
  OBVIOUS
<1>1. jobs \in [Keys -> JobRow]
  BY AbsentIsRow DEF Init
<1>2. locks \in [Scopes -> LockRow]
  BY FreeIsLock DEF Init
<1>3. 1 \in Revisions /\ 0 \in Buckets /\ 0 \in 0..MaxCrashes /\ 0 \in 0..MaxJobsPerCycle
  BY BoundsAssumption, TicksAssumption DEF Revisions, Buckets
<1>4. /\ views \in [Views -> [src : Revisions, built : Revisions, live : BOOLEAN]]
      /\ seen \in [Workers -> [rev : Revisions, bucket : Buckets]]
  BY <1>3 DEF Init, NoView, NothingSeen
<1>8. built \in [Workers -> BuiltRow]
  BY <1>3 DEF Init, NothingBuilt, BuiltRow
<1>5. outbox \in [Revisions -> {"none", "pending", "dispatched", "pruned"}]
  BY DEF Init
<1>6. pc \in [Workers -> Labels]
  BY DEF Init, Labels
<1>7. HeldOK
  BY DEF Init, HeldOK, Working, Locked, Handling
<1> QED BY <1>1, <1>2, <1>3, <1>4, <1>5, <1>6, <1>7, <1>8 DEF Init, TypeInv, TypeOK


LEMMA TypeNext == TypeInv /\ [Next]_vars => TypeInv'
<1> SUFFICES ASSUME TypeInv, [Next]_vars PROVE TypeInv'
  OBVIOUS
<1> USE DEF TypeInv, TypeOK
<1>1. CASE ConfigWrite
  <2>1. revision + 1 \in Revisions
    BY <1>1, BoundsAssumption DEF ConfigWrite, Revisions
  <2> QED BY <1>1, <2>1 DEF ConfigWrite, HeldOK, local
<1>2. CASE Tick
  <2>1. jobs' \in [Keys -> JobRow]
    BY <1>2, RowUpdates DEF Tick
  <2>2. locks' \in [Scopes -> LockRow]
    BY <1>2, LockUpdates DEF Tick
  <2> QED BY <1>2, <2>1, <2>2 DEF Tick, HeldOK, local
<1>3. CASE NextBucket
  BY <1>3, BoundsAssumption DEF NextBucket, Buckets, HeldOK, durable, local
<1>4. ASSUME NEW v \in Views, ExpireView(v) PROVE TypeInv'
  <2>1. views' \in [Views -> [src : Revisions, built : Revisions, live : BOOLEAN]]
    BY <1>4 DEF ExpireView
  <2> QED BY <1>4, <2>1 DEF ExpireView, HeldOK, local
<1>5. ASSUME NEW w \in Workers, RecoverExpired(w) PROVE TypeInv'
  <2>1. jobs' \in [Keys -> JobRow]
    BY <1>5, RowUpdates DEF RecoverExpired, RecoveredJob
  <2>2. locks' \in [Scopes -> LockRow]
    BY <1>5, FreeIsLock DEF RecoverExpired
  <2>3. pc' \in [Workers -> Labels] /\ HeldOK'
    BY <1>5 DEF RecoverExpired, HeldOK, Goto, Labels, Handling, Working, Locked
  <2> QED BY <1>5, <2>1, <2>2, <2>3 DEF RecoverExpired
<1>6. ASSUME NEW w \in Workers, Schedule(w) PROVE TypeInv'
  <2>1. pc' \in [Workers -> Labels] /\ HeldOK'
    BY <1>6 DEF Schedule, HeldOK, Goto, Labels, Handling, Working, Locked
  <2> QED BY <1>6, <2>1 DEF Schedule, durable
<1>7. ASSUME NEW w \in Workers, NEW v \in Views, EnqueueView(w, v) PROVE TypeInv'
  <2>1. ViewKey(v, seen[w].rev, seen[w].bucket) \in Keys
    BY KeyFacts
  <2>2. jobs' \in [Keys -> JobRow]
    BY <1>7, <2>1, AbsentIsRow, NewJobIsRow DEF EnqueueView, Inserted, Coalesced
  <2> QED BY <1>7, <2>2 DEF EnqueueView, HeldOK
<1>8. ASSUME NEW w \in Workers, EnqueueRetention(w) PROVE TypeInv'
  <2>1. RetentionKey(seen[w].bucket \div BucketsPerHour) \in Keys
    BY KeyFacts
  <2>2. jobs' \in [Keys -> JobRow]
    BY <1>8, <2>1, NewJobIsRow DEF EnqueueRetention, Inserted
  <2>3. pc' \in [Workers -> Labels] /\ HeldOK'
    BY <1>8 DEF EnqueueRetention, HeldOK, Goto, Labels, Handling, Working, Locked
  <2>4. NothingSeen \in [rev : Revisions, bucket : Buckets]
    BY BoundsAssumption DEF NothingSeen, Revisions, Buckets
  <2>5. seen' \in [Workers -> [rev : Revisions, bucket : Buckets]]
    BY <1>8, <2>4 DEF EnqueueRetention, DropSeen
  <2>6. nextId' \in Nat
    BY <1>8 DEF EnqueueRetention
  <2> QED BY <1>8, <2>2, <2>3, <2>5, <2>6 DEF EnqueueRetention
<1>9. ASSUME NEW w \in Workers, DispatchOutbox(w) PROVE TypeInv'
  <2>1. Cardinality({r \in PendingRows : ~Present(ConfigKey(r))}) \in Nat
    BY RowsCount DEF PendingRows
  <2>2. \A r \in Revisions : Cardinality(RowsBefore(r)) \in Nat
    BY RowsCount DEF RowsBefore, PendingRows
  <2>3. \A k \in Keys : k \in {ConfigKey(r) : r \in PendingRows} => k.rev \in Revisions
    BY DEF ConfigKey, PendingRows
  <2>4. jobs' \in [Keys -> JobRow]
    <3>1. \A k \in Keys : jobs'[k] = IF k \in {ConfigKey(r) : r \in PendingRows} /\ ~Present(k)
                                    THEN NewJob(nextId + Cardinality(RowsBefore(k.rev)))
                                    ELSE jobs[k]
      BY <1>9 DEF DispatchOutbox
    <3>2. \A k \in Keys : k \in {ConfigKey(r) : r \in PendingRows} =>
                           nextId + Cardinality(RowsBefore(k.rev)) \in Nat
      BY <2>2, <2>3
    <3>3. \A k \in Keys : jobs'[k] \in JobRow
      BY ONLY <3>1, <3>2, NewJobIsRow, jobs \in [Keys -> JobRow]
    <3> QED BY <1>9, <3>3 DEF DispatchOutbox
  <2>5. pc' \in [Workers -> Labels] /\ HeldOK'
    BY <1>9 DEF DispatchOutbox, HeldOK, Goto, Labels, Handling, Working, Locked
  <2>6. /\ nextId' \in Nat
        /\ outbox' \in [Revisions -> {"none", "pending", "dispatched", "pruned"}]
        /\ left' \in [Workers -> 0..MaxJobsPerCycle]
    BY <1>9, <2>1, TicksAssumption DEF DispatchOutbox
  <2> QED BY <1>9, <2>4, <2>5, <2>6 DEF DispatchOutbox
<1>10. ASSUME NEW w \in Workers, Claim(w) PROVE TypeInv'
  <2>1. PICK k \in Keys : /\ held' = [held EXCEPT ![w] = k]
                          /\ jobs' = [jobs EXCEPT ![k] = Leased(jobs[k], w)]
    BY <1>10 DEF Claim
  <2>2. jobs' \in [Keys -> JobRow]
    BY <2>1, RowUpdates
  <2>3. pc' \in [Workers -> Labels] /\ HeldOK'
    BY <1>10, <2>1 DEF Claim, HeldOK, Goto, Labels, Handling, Working, Locked
  <2>4. left' \in [Workers -> 0..MaxJobsPerCycle]
    BY <1>10, TicksAssumption DEF Claim
  <2> QED BY <1>10, <2>1, <2>2, <2>3, <2>4 DEF Claim
<1>11. ASSUME NEW w \in Workers, EndCycle(w) PROVE TypeInv'
  <2>1. pc' \in [Workers -> Labels] /\ HeldOK'
    BY <1>11 DEF EndCycle, HeldOK, Goto, Labels, Handling, Working, Locked
  <2>2. 0 \in 0..MaxJobsPerCycle
    BY TicksAssumption
  <2> QED BY <1>11, <2>1, <2>2 DEF EndCycle, durable
<1>12. ASSUME NEW w \in Workers, AcquireScope(w) PROVE TypeInv'
  <2>1. locks' \in [Scopes -> LockRow]
    BY <1>12, LockUpdates DEF AcquireScope
  <2>2. pc' \in [Workers -> Labels] /\ HeldOK'
    BY <1>12 DEF AcquireScope, HeldOK, Goto, Labels, Handling, Working, Locked
  <2> QED BY <1>12, <2>1, <2>2 DEF AcquireScope
<1>13. ASSUME NEW w \in Workers, Defer(w) PROVE TypeInv'
  <2>1. jobs' \in [Keys -> JobRow]
    BY <1>13, RowUpdates DEF Defer, SetJob, HeldOK, Working
  <2>2. pc' \in [Workers -> Labels] /\ HeldOK'
    BY <1>13 DEF Defer, DropJob, HeldOK, Goto, Labels, Handling, Working, Locked
  <2> QED BY <1>13, <2>1, <2>2 DEF Defer, DropJob
<1>14. ASSUME NEW w \in Workers, Analyse(w) PROVE TypeInv'
  <2>1. pc' \in [Workers -> Labels] /\ HeldOK'
    BY <1>14 DEF Analyse, HeldOK, Goto, Labels, Handling, Working, Locked
  <2> QED BY <1>14, <2>1 DEF Analyse, durable
<1>15. ASSUME NEW w \in Workers, BuildView(w) PROVE TypeInv'
  <2>1. pc' \in [Workers -> Labels] /\ HeldOK'
    BY <1>15 DEF BuildView, HeldOK, Goto, Labels, Handling, Working, Locked
  <2>2. built' \in [Workers -> BuiltRow]
    BY <1>15 DEF BuildView, BuiltRow
  <2> QED BY <1>15, <2>1, <2>2 DEF BuildView, durable
<1>26. ASSUME NEW w \in Workers, StampView(w) PROVE TypeInv'
  <2>1. pc' \in [Workers -> Labels] /\ HeldOK'
    BY <1>26 DEF StampView, HeldOK, Goto, Labels, Handling, Working, Locked
  <2>2. built' \in [Workers -> BuiltRow]
    BY <1>26 DEF StampView, BuiltRow
  <2> QED BY <1>26, <2>1, <2>2 DEF StampView, durable
<1>16. ASSUME NEW w \in Workers, SaveView(w) PROVE TypeInv'
  <2>1. held[w].scope \in Views
    BY <1>16, ViewKeyScope DEF SaveView, HeldOK, Working, Handling
  <2>2. views' \in [Views -> [src : Revisions, built : Revisions, live : BOOLEAN]]
    BY <1>16, <2>1 DEF SaveView, BuiltRow
  <2>3. pc' \in [Workers -> Labels] /\ HeldOK'
    BY <1>16 DEF SaveView, HeldOK, Goto, Labels, Handling, Working, Locked
  <2>4. NothingBuilt \in BuiltRow
    BY BoundsAssumption DEF Revisions, NothingBuilt, BuiltRow
  <2> QED BY <1>16, <2>2, <2>3, <2>4 DEF SaveView, DropBuilt
<1>17. ASSUME NEW w \in Workers, Prune(w) PROVE TypeInv'
  <2>1. jobs' \in [Keys -> JobRow]
    BY <1>17, AbsentIsRow DEF Prune
  <2>2. outbox' \in [Revisions -> {"none", "pending", "dispatched", "pruned"}]
    BY <1>17 DEF Prune
  <2>3. pc' \in [Workers -> Labels] /\ HeldOK'
    BY <1>17 DEF Prune, HeldOK, Goto, Labels, Handling, Working, Locked
  <2> QED BY <1>17, <2>1, <2>2, <2>3 DEF Prune
<1>18. ASSUME NEW w \in Workers, HandlerRaises(w) PROVE TypeInv'
  <2>1. pc' \in [Workers -> Labels] /\ HeldOK'
    BY <1>18 DEF HandlerRaises, HeldOK, Goto, Labels, Handling, Working, Locked
  <2>2. NothingBuilt \in BuiltRow
    BY BoundsAssumption DEF Revisions, NothingBuilt, BuiltRow
  <2> QED BY <1>18, <2>1, <2>2 DEF HandlerRaises, DropBuilt, durable
<1>19. ASSUME NEW w \in Workers, Complete(w) PROVE TypeInv'
  <2>1. held[w] \in Keys /\ held[w].scope \in Scopes
    BY <1>19, KeyFacts DEF Complete, HeldOK, Working, Handling
  <2>2. jobs' \in [Keys -> JobRow]
    BY <1>19, <2>1, RowUpdates DEF Complete, SetJob
  <2>4. notified' \in [Scopes -> BOOLEAN]
    BY <1>19, <2>1 DEF Complete
  <2>3. pc' \in [Workers -> Labels] /\ HeldOK'
    BY <1>19 DEF Complete, HeldOK, Goto, Labels, Handling, Working, Locked
  <2> QED BY <1>19, <2>2, <2>3, <2>4 DEF Complete
<1>20. ASSUME NEW w \in Workers, FailRead(w) PROVE TypeInv'
  <2>1. pc' \in [Workers -> Labels] /\ HeldOK'
    BY <1>20 DEF FailRead, HeldOK, Goto, Labels, Handling, Working, Locked
  <2> QED BY <1>20, <2>1 DEF FailRead, durable
<1>21. ASSUME NEW w \in Workers, FailWrite(w) PROVE TypeInv'
  <2>1. held[w] \in Keys /\ held[w].scope \in Scopes
    BY <1>21, KeyFacts DEF FailWrite, HeldOK, Working, Handling
  <2>2. jobs' \in [Keys -> JobRow]
    BY <1>21, <2>1, RowUpdates DEF FailWrite, SetJob
  <2>3. notified' \in [Scopes -> BOOLEAN]
    BY <1>21, <2>1 DEF FailWrite
  <2>4. pc' \in [Workers -> Labels] /\ HeldOK'
    BY <1>21 DEF FailWrite, HeldOK, Goto, Labels, Handling, Working, Locked
  <2> QED BY <1>21, <2>2, <2>3, <2>4 DEF FailWrite
<1>22. ASSUME NEW w \in Workers, ReleaseScope(w) PROVE TypeInv'
  <2>1. locks' \in [Scopes -> LockRow]
    BY <1>22, FreeIsLock DEF ReleaseScope
  <2>2. pc' \in [Workers -> Labels] /\ HeldOK'
    BY <1>22 DEF ReleaseScope, DropJob, HeldOK, Goto, Labels, Handling, Working, Locked
  <2> QED BY <1>22, <2>1, <2>2 DEF ReleaseScope, DropJob
<1>23. ASSUME NEW w \in Workers, Restart(w) PROVE TypeInv'
  <2>1. pc' \in [Workers -> Labels] /\ HeldOK'
    BY <1>23 DEF Restart, HeldOK, Goto, Labels, Handling, Working, Locked
  <2> QED BY <1>23, <2>1 DEF Restart, durable
<1>24. ASSUME NEW w \in Workers, Crash(w) PROVE TypeInv'
  <2>1. jobs' \in [Keys -> JobRow]
    BY <1>24, RowUpdates DEF Crash
  <2>2. locks' \in [Scopes -> LockRow]
    BY <1>24, LockUpdates DEF Crash
  <2>3. pc' \in [Workers -> Labels] /\ HeldOK'
    BY <1>24 DEF Crash, DropJob, HeldOK, Goto, Labels, Handling, Working, Locked
  <2>4. /\ NothingSeen \in [rev : Revisions, bucket : Buckets]
        /\ NothingBuilt \in BuiltRow
        /\ 0 \in 0..MaxJobsPerCycle
    BY BoundsAssumption, TicksAssumption DEF NothingSeen, NothingBuilt, BuiltRow, Revisions, Buckets
  <2>5. crashes' \in 0..MaxCrashes
    BY <1>24, BoundsAssumption DEF Crash
  <2> QED BY <1>24, <2>1, <2>2, <2>3, <2>4, <2>5
          DEF Crash, DropJob, DropSeen, DropBuilt
<1>25. CASE UNCHANGED vars
  BY <1>25 DEF vars, durable, local, HeldOK
<1> QED
  BY <1>1, <1>2, <1>3, <1>4, <1>5, <1>6, <1>7, <1>8, <1>9, <1>10, <1>11, <1>12,
     <1>13, <1>14, <1>15, <1>16, <1>17, <1>18, <1>19, <1>20, <1>21, <1>22, <1>23,
     <1>24, <1>25, <1>26
  DEF Next, WorkerStep

\* Every reachable state has the declared types, for any number of workers, any
\* views and any bounds (the tables and the worker of app/background_work.py).
THEOREM TypeCorrect == Spec => []TypeOK
<1>1. Spec => []TypeInv
  BY TypeInit, TypeNext, PTL DEF Spec
<1> QED BY <1>1, PTL DEF TypeInv


-----------------------------------------------------------------------------
(* Tokens and scope locks.                                                 *)

LEMMA RowFields ==
  ASSUME NEW j \in JobRow
  PROVE  /\ Aged(j).status = j.status /\ Aged(j).token = j.token
         /\ Aged(j).lease = Elapse(j.lease) /\ Aged(j).attempts = j.attempts
         /\ Requeued(j).status = "pending" /\ Requeued(j).attempts = j.attempts
         /\ GivenUp(j).status = "failed"
         /\ Deferred(j).status = "pending" /\ Deferred(j).attempts = Elapse(j.attempts)
         /\ Succeeded(j).status = "succeeded"
         /\ Failed(j).status = "failed"
         /\ Retried(j).status = "pending" /\ Retried(j).attempts = j.attempts
         /\ Orphaned(j).status = j.status /\ Orphaned(j).token = Orphan
         /\ Orphaned(j).lease = j.lease /\ Orphaned(j).attempts = j.attempts
BY DEF Aged, Requeued, GivenUp, Deferred, Succeeded, Failed, Retried, Orphaned, JobRow

LEMMA LeasedFields ==
  ASSUME NEW j \in JobRow, NEW w
  PROVE  /\ Leased(j, w).status = "running" /\ Leased(j, w).token = w
         /\ Leased(j, w).attempts = j.attempts + 1
         /\ Leased(j, w).lease = LeaseTicks
BY DEF Leased, JobRow

\* The scope lock is acquired after the claim and for as long: while the lease
\* of the claim lives, the lock is there.
LockCovers ==
  \A w \in Workers :
    pc[w] \in Handling /\ OwnsLease(w) /\ jobs[held[w]].lease > 0
      => /\ locks[held[w].scope].token = w
         /\ locks[held[w].scope].lease >= jobs[held[w]].lease

LeaseInv == TypeInv /\ TokensFresh /\ LockCovers

LEMMA LeaseInit == Init => LeaseInv
<1> SUFFICES ASSUME Init PROVE TokensFresh /\ LockCovers
  BY TypeInit DEF LeaseInv
<1>1. TokensFresh
  BY WorkersAssumption DEF Init, TokensFresh, JobTokensFresh, LockTokensFresh, AbsentJob, FreeLock
<1>2. LockCovers
  BY DEF Init, LockCovers, Handling
<1> QED BY <1>1, <1>2

\* Steps that touch neither table and move a worker inside its job.
LEMMA QuietStep ==
  ASSUME LeaseInv, UNCHANGED <<jobs, locks, held>>,
         NEW w \in Workers, NEW l \in Labels, Goto(w, l),
         \/ pc[w] \notin Working \cup Locked /\ l \notin Working \cup Locked
         \/ pc[w] \in Handling /\ l \in Handling
         \/ pc[w] \in Handling /\ l \in Locked /\ ~OwnsLease(w)
  PROVE  TokensFresh' /\ LockCovers'
<1> USE DEF LeaseInv, TypeInv, TypeOK, Goto
<1>1. TokensFresh'
  BY DEF TokensFresh, JobTokensFresh, LockTokensFresh, OwnsLease, Working, Locked
<1>2. LockCovers'
  BY DEF LockCovers, OwnsLease, Working, Locked
<1> QED BY <1>1, <1>2


LEMMA LeaseNext == LeaseInv /\ [Next]_vars => LeaseInv'
<1> SUFFICES ASSUME LeaseInv, [Next]_vars PROVE TokensFresh' /\ LockCovers'
  BY TypeNext DEF LeaseInv
<1> USE DEF LeaseInv, TypeInv, TypeOK, TokensFresh
<1>1. CASE ConfigWrite
  BY <1>1 DEF ConfigWrite, JobTokensFresh, LockTokensFresh, LockCovers, OwnsLease, local
<1>2. CASE Tick
  <2>1. \A k \in Keys : /\ jobs'[k].status = jobs[k].status
                        /\ jobs'[k].token = jobs[k].token
                        /\ jobs'[k].lease = Elapse(jobs[k].lease)
    BY <1>2, RowFields DEF Tick
  <2>2. \A s \in Scopes : /\ locks'[s].token = locks[s].token
                          /\ locks'[s].lease = Elapse(locks[s].lease)
    BY <1>2 DEF Tick, LockRow
  <2>3. TokensFresh'
    <3>1. pc' = pc /\ held' = held
      BY <1>2 DEF Tick, local
    <3>2. JobTokensFresh'
      BY <2>1, <3>1 DEF JobTokensFresh
    <3>3. LockTokensFresh'
      BY <2>2, <3>1 DEF LockTokensFresh
    <3> QED BY <3>2, <3>3
  <2>4. LockCovers'
    <3> SUFFICES ASSUME NEW w \in Workers, pc'[w] \in Handling, OwnsLease(w)',
                        jobs'[held'[w]].lease > 0
                 PROVE  /\ locks'[held'[w].scope].token = w
                        /\ locks'[held'[w].scope].lease >= jobs'[held'[w]].lease
      BY DEF LockCovers
    <3>1. pc' = pc /\ held' = held
      BY <1>2 DEF Tick, local
    <3>2. held[w] \in Keys /\ held[w].scope \in Scopes
      BY <3>1, KeyFacts DEF HeldOK, Working
    <3>3. OwnsLease(w) /\ jobs[held[w]].lease > 0
      BY <2>1, <3>1, <3>2 DEF OwnsLease, Elapse, JobRow
    <3>4. /\ locks[held[w].scope].token = w
          /\ locks[held[w].scope].lease >= jobs[held[w]].lease
      BY <3>1, <3>3 DEF LockCovers
    <3>5. jobs[held[w]].lease \in Nat /\ locks[held[w].scope].lease \in Nat
      BY <3>2, TicksAssumption DEF JobRow, LockRow
    <3>6. /\ jobs'[held'[w]].lease = Elapse(jobs[held[w]].lease)
          /\ locks'[held'[w].scope].lease = Elapse(locks[held[w].scope].lease)
          /\ locks'[held'[w].scope].token = locks[held[w].scope].token
      BY ONLY <2>1, <2>2, <3>1, <3>2
    <3> QED BY ONLY <3>4, <3>5, <3>6 DEF Elapse
  <2> QED BY <2>3, <2>4
<1>3. CASE NextBucket
  BY <1>3 DEF NextBucket, JobTokensFresh, LockTokensFresh, LockCovers, OwnsLease, durable, local
<1>4. ASSUME NEW v \in Views, ExpireView(v) PROVE TokensFresh' /\ LockCovers'
  BY <1>4 DEF ExpireView, JobTokensFresh, LockTokensFresh, LockCovers, OwnsLease, local
<1>5. ASSUME NEW w \in Workers, RecoverExpired(w) PROVE TokensFresh' /\ LockCovers'
  <2>1. \A k \in Keys : jobs'[k].status = "running" => jobs'[k] = jobs[k]
    BY <1>5, RowFields DEF RecoverExpired, RecoveredJob
  <2>2. \A s \in Scopes : /\ locks'[s] = locks[s] \/ locks'[s] = FreeLock
                          /\ locks[s].lease > 0 => locks'[s] = locks[s]
    BY <1>5 DEF RecoverExpired
  <2>3. held' = held /\ pc' = [pc EXCEPT ![w] = "schedule"] /\ pc[w] = "idle"
    BY <1>5 DEF RecoverExpired, Goto
  <2>4. TokensFresh'
    <3>1. JobTokensFresh'
      BY <2>1, <2>2, <2>3 DEF JobTokensFresh, Working, Handling
    <3>2. LockTokensFresh'
      BY <2>1, <2>2, <2>3, WorkersAssumption
      DEF LockTokensFresh, FreeLock, Locked, Handling
    <3> QED BY <3>1, <3>2
  <2>5. LockCovers'
    <3> SUFFICES ASSUME NEW x \in Workers, pc'[x] \in Handling, OwnsLease(x)',
                        jobs'[held'[x]].lease > 0
                 PROVE  /\ locks'[held'[x].scope].token = x
                        /\ locks'[held'[x].scope].lease >= jobs'[held'[x]].lease
      BY DEF LockCovers
    <3>1. pc[x] \in Handling
      BY <2>3 DEF Handling
    <3>2. held[x] \in Keys /\ held[x].scope \in Scopes
      BY <3>1, KeyFacts DEF HeldOK, Working
    <3>3. jobs'[held[x]] = jobs[held[x]] /\ OwnsLease(x)
      BY <2>1, <2>3, <3>2 DEF OwnsLease
    <3>4. /\ locks[held[x].scope].token = x
          /\ locks[held[x].scope].lease >= jobs[held[x]].lease
      BY <2>3, <3>1, <3>3 DEF LockCovers
    <3>5. jobs[held[x]].lease \in Nat /\ locks[held[x].scope].lease \in Nat
      BY <3>2, TicksAssumption DEF JobRow, LockRow
    <3>6. locks[held[x].scope].lease > 0
      BY <2>3, <3>3, <3>4, <3>5
    <3>7. locks'[held[x].scope] = locks[held[x].scope]
      BY ONLY <2>2, <3>2, <3>6
    <3> QED BY ONLY <2>3, <3>3, <3>4, <3>7
  <2> QED BY <2>4, <2>5
<1>6. ASSUME NEW w \in Workers, Schedule(w) PROVE TokensFresh' /\ LockCovers'
  BY <1>6, QuietStep DEF Schedule, durable, Labels, Handling, Working, Locked
<1>7. ASSUME NEW w \in Workers, NEW v \in Views, EnqueueView(w, v)
      PROVE  TokensFresh' /\ LockCovers'
  <2>1. \A k \in Keys : jobs'[k].status = "running" => jobs'[k] = jobs[k]
    BY <1>7, KeyFacts
    DEF EnqueueView, Inserted, Coalesced, AbsentJob, NewJob
  <2> QED BY <1>7, <2>1 DEF EnqueueView, JobTokensFresh, LockTokensFresh, LockCovers, OwnsLease,
                           HeldOK, Working, Locked
<1>8. ASSUME NEW w \in Workers, EnqueueRetention(w) PROVE TokensFresh' /\ LockCovers'
  <2>1. \A k \in Keys : jobs'[k].status = "running" => jobs'[k] = jobs[k]
    BY <1>8, KeyFacts DEF EnqueueRetention, Inserted, NewJob
  <2>2. /\ locks' = locks /\ held' = held
        /\ pc' = [pc EXCEPT ![w] = "dispatch"] /\ pc[w] = "enqueue"
    BY <1>8 DEF EnqueueRetention, Goto
  <2> QED BY <2>1, <2>2 DEF JobTokensFresh, LockTokensFresh, LockCovers, OwnsLease, HeldOK, Working,
                           Locked, Handling
<1>9. ASSUME NEW w \in Workers, DispatchOutbox(w) PROVE TokensFresh' /\ LockCovers'
  <2>1. \A k \in Keys : jobs'[k].status = "running" => jobs'[k] = jobs[k]
    BY <1>9 DEF DispatchOutbox, NewJob
  <2>2. /\ locks' = locks /\ held' = held
        /\ pc' = [pc EXCEPT ![w] = "claim"] /\ pc[w] = "dispatch"
    BY <1>9 DEF DispatchOutbox, Goto
  <2> QED BY <2>1, <2>2 DEF JobTokensFresh, LockTokensFresh, LockCovers, OwnsLease, HeldOK, Working,
                           Locked, Handling
<1>10. ASSUME NEW w \in Workers, Claim(w) PROVE TokensFresh' /\ LockCovers'
  <2>1. PICK k \in Keys : /\ held' = [held EXCEPT ![w] = k]
                          /\ jobs' = [jobs EXCEPT ![k] = Leased(jobs[k], w)]
    BY <1>10 DEF Claim
  <2>2. /\ \A j \in Keys : j # k => jobs'[j] = jobs[j]
        /\ jobs'[k].status = "running" /\ jobs'[k].token = w
    BY <2>1, LeasedFields
  <2>3. /\ locks' = locks /\ pc' = [pc EXCEPT ![w] = "lock"] /\ pc[w] = "claim"
    BY <1>10 DEF Claim, Goto
  <2>4. TokensFresh'
    <3>1. JobTokensFresh'
      BY <2>1, <2>2, <2>3 DEF JobTokensFresh, Working, Handling
    <3>2. LockTokensFresh'
      BY <2>1, <2>2, <2>3 DEF LockTokensFresh, Locked, Handling
    <3> QED BY <3>1, <3>2
  <2>5. LockCovers'
    <3> SUFFICES ASSUME NEW x \in Workers, pc'[x] \in Handling, OwnsLease(x)',
                        jobs'[held'[x]].lease > 0
                 PROVE  /\ locks'[held'[x].scope].token = x
                        /\ locks'[held'[x].scope].lease >= jobs'[held'[x]].lease
      BY DEF LockCovers
    <3>1. x # w /\ pc[x] \in Handling /\ held'[x] = held[x]
      BY <2>1, <2>3 DEF Handling
    <3>2. held[x] \in Keys /\ held[x] # k
      BY <2>2, <3>1 DEF HeldOK, Working, OwnsLease
    <3> QED BY <2>2, <2>3, <3>1, <3>2 DEF LockCovers, OwnsLease
  <2> QED BY <2>4, <2>5
<1>11. ASSUME NEW w \in Workers, EndCycle(w) PROVE TokensFresh' /\ LockCovers'
  BY <1>11, QuietStep DEF EndCycle, durable, Labels, Handling, Working, Locked
<1>12. ASSUME NEW w \in Workers, AcquireScope(w) PROVE TokensFresh' /\ LockCovers'
  <2> DEFINE s == held[w].scope
  <2>1. jobs' = jobs /\ held' = held /\ pc[w] = "lock"
    BY <1>12 DEF AcquireScope
  <2>2. held[w] \in Keys /\ s \in Scopes
    BY <2>1, KeyFacts DEF HeldOK, Working
  <2>3. CASE locks' = locks /\ pc' = [pc EXCEPT ![w] = "defer"]
    BY <2>1, <2>3 DEF JobTokensFresh, LockTokensFresh, LockCovers, OwnsLease, Working, Locked, Handling
  <2>4. CASE /\ locks[s].token = None \/ locks[s].lease = 0
             /\ locks' = [locks EXCEPT ![s] = [token |-> w, lease |-> LeaseTicks]]
             /\ pc' = [pc EXCEPT ![w] = "run"]
    <3>1. TokensFresh'
      BY <2>1, <2>2, <2>4 DEF JobTokensFresh, LockTokensFresh, Working, Locked, Handling
    <3>2. LockCovers'
      <4> SUFFICES ASSUME NEW x \in Workers, pc'[x] \in Handling, OwnsLease(x)',
                          jobs'[held'[x]].lease > 0
                   PROVE  /\ locks'[held'[x].scope].token = x
                          /\ locks'[held'[x].scope].lease >= jobs'[held'[x]].lease
        BY DEF LockCovers
      <4>1. CASE x = w
        <5>1. jobs[held[w]].lease \in 0..LeaseTicks
          BY <2>2 DEF JobRow
        <5> QED BY <2>1, <2>2, <2>4, <4>1, <5>1, TicksAssumption
      <4>2. CASE x # w
        <5>1. pc[x] \in Handling /\ OwnsLease(x) /\ jobs[held[x]].lease > 0
          BY <2>1, <2>4, <4>2 DEF OwnsLease
        <5>2. held[x] \in Keys /\ held[x].scope \in Scopes
          BY <5>1, KeyFacts DEF HeldOK, Working
        <5>3. /\ locks[held[x].scope].token = x
              /\ locks[held[x].scope].lease >= jobs[held[x]].lease
          BY <5>1 DEF LockCovers
        <5>4. jobs[held[x]].lease \in Nat
          BY <5>2, TicksAssumption DEF JobRow
        <5>5. held[x].scope # s
          BY <2>4, <5>1, <5>3, <5>4, WorkersAssumption
        <5> QED BY <2>1, <2>2, <2>4, <5>2, <5>3, <5>5
      <4> QED BY <4>1, <4>2
    <3> QED BY <3>1, <3>2
  <2> QED BY <1>12, <2>3, <2>4 DEF AcquireScope, Goto
<1>13. ASSUME NEW w \in Workers, Defer(w) PROVE TokensFresh' /\ LockCovers'
  <2>1. held[w] \in Keys /\ pc[w] = "defer"
    BY <1>13 DEF Defer, HeldOK, Working
  <2>2. /\ \A j \in Keys : jobs'[j].status = "running" => jobs'[j] = jobs[j]
        /\ jobs'[held[w]].status = "running" => jobs'[held[w]].token # w
    BY <1>13, <2>1, RowFields DEF Defer, SetJob, OwnsLease
  <2>3. /\ locks' = locks /\ held' = [held EXCEPT ![w] = NoKey]
        /\ pc' \in {[pc EXCEPT ![w] = "claim"], [pc EXCEPT ![w] = "idle"]}
    BY <1>13 DEF Defer, DropJob, Goto
  <2>4. TokensFresh'
    <3>1. JobTokensFresh'
      BY <2>1, <2>2, <2>3 DEF JobTokensFresh, Working, Handling
    <3>2. LockTokensFresh'
      BY <2>1, <2>2, <2>3 DEF LockTokensFresh, Locked, Handling
    <3> QED BY <3>1, <3>2
  <2>5. LockCovers'
    BY <2>1, <2>2, <2>3 DEF LockCovers, OwnsLease, HeldOK, Working, Handling
  <2> QED BY <2>4, <2>5
<1>14. ASSUME NEW w \in Workers, Analyse(w) PROVE TokensFresh' /\ LockCovers'
  BY <1>14, QuietStep DEF Analyse, durable, Labels, Handling, Working, Locked
<1>15. ASSUME NEW w \in Workers, BuildView(w) PROVE TokensFresh' /\ LockCovers'
  BY <1>15, QuietStep DEF BuildView, durable, Labels, Handling, Working, Locked
<1>26. ASSUME NEW w \in Workers, StampView(w) PROVE TokensFresh' /\ LockCovers'
  BY <1>26, QuietStep DEF StampView, durable, Labels, Handling, Working, Locked
<1>16. ASSUME NEW w \in Workers, SaveView(w) PROVE TokensFresh' /\ LockCovers'
  BY <1>16, QuietStep DEF SaveView, durable, Labels, Handling, Working, Locked
<1>17. ASSUME NEW w \in Workers, Prune(w) PROVE TokensFresh' /\ LockCovers'
  <2>1. \A k \in Keys : jobs'[k].status = "running" => jobs'[k] = jobs[k]
    BY <1>17 DEF Prune, AbsentJob
  <2>2. \A k \in Keys : jobs[k].status = "running" => jobs'[k] = jobs[k]
    BY <1>17 DEF Prune, PrunableJobs, Terminal
  <2>3. /\ locks' = locks /\ held' = held
        /\ pc' = [pc EXCEPT ![w] = "finish"] /\ pc[w] = "run"
    BY <1>17 DEF Prune, Goto
  <2>4. TokensFresh'
    BY <2>1, <2>2, <2>3 DEF JobTokensFresh, LockTokensFresh, Working, Locked, Handling
  <2>5. LockCovers'
    BY <2>1, <2>2, <2>3 DEF LockCovers, OwnsLease, HeldOK, Working, Handling
  <2> QED BY <2>4, <2>5
<1>18. ASSUME NEW w \in Workers, HandlerRaises(w) PROVE TokensFresh' /\ LockCovers'
  BY <1>18, QuietStep DEF HandlerRaises, durable, Labels, Handling, Working, Locked
<1>19. ASSUME NEW w \in Workers, Complete(w) PROVE TokensFresh' /\ LockCovers'
  <2>1. held[w] \in Keys /\ pc[w] = "finish"
    BY <1>19 DEF Complete, HeldOK, Working, Handling
  <2>2. CASE OwnsLease(w)
    <3>1. /\ \A j \in Keys : jobs'[j].status = "running" => jobs'[j] = jobs[j]
          /\ jobs'[held[w]].status # "running"
      BY <1>19, <2>1, <2>2, RowFields DEF Complete, SetJob
    <3>2. locks' = locks /\ held' = held /\ pc' = [pc EXCEPT ![w] = "release"]
      BY <1>19, <2>2 DEF Complete, Goto
    <3>3. TokensFresh'
      BY <2>1, <3>1, <3>2 DEF JobTokensFresh, LockTokensFresh, Working, Locked, Handling
    <3>4. LockCovers'
      BY <2>1, <3>1, <3>2 DEF LockCovers, OwnsLease, HeldOK, Working, Handling
    <3> QED BY <3>3, <3>4
  <2>3. CASE ~OwnsLease(w)
    BY <1>19, <2>3, QuietStep DEF Complete, Labels, Handling, Working, Locked
  <2> QED BY <2>2, <2>3
<1>20. ASSUME NEW w \in Workers, FailRead(w) PROVE TokensFresh' /\ LockCovers'
  BY <1>20, QuietStep DEF FailRead, durable, Labels, Handling, Working, Locked
<1>21. ASSUME NEW w \in Workers, FailWrite(w) PROVE TokensFresh' /\ LockCovers'
  <2>1. held[w] \in Keys /\ pc[w] \in Handling
    BY <1>21 DEF FailWrite, HeldOK, Working, Handling
  <2>2. /\ \A j \in Keys : jobs'[j].status = "running" => jobs'[j] = jobs[j]
        /\ jobs'[held[w]].status # "running"
    BY <1>21, <2>1, RowFields DEF FailWrite, SetJob, Present
  <2>3. locks' = locks /\ held' = held /\ pc' = [pc EXCEPT ![w] = "release"]
    BY <1>21 DEF FailWrite, Goto
  <2>4. TokensFresh'
    <3>1. JobTokensFresh'
      BY <2>1, <2>2, <2>3 DEF JobTokensFresh, Working, Handling
    <3>2. LockTokensFresh'
      BY <2>1, <2>2, <2>3 DEF LockTokensFresh, Locked, Handling
    <3> QED BY <3>1, <3>2
  <2>5. LockCovers'
    BY <2>1, <2>2, <2>3 DEF LockCovers, OwnsLease, HeldOK, Working, Handling
  <2> QED BY <2>4, <2>5
<1>22. ASSUME NEW w \in Workers, ReleaseScope(w) PROVE TokensFresh' /\ LockCovers'
  <2>1. /\ held[w] \in Keys /\ held[w].scope \in Scopes
        /\ pc[w] \in {"release", "abort"}
    BY <1>22, KeyFacts DEF ReleaseScope, HeldOK, Working, Locked
  <2>2. /\ jobs' = jobs /\ held' = [held EXCEPT ![w] = NoKey]
        /\ pc' \in {[pc EXCEPT ![w] = "claim"], [pc EXCEPT ![w] = "idle"]}
    BY <1>22 DEF ReleaseScope, DropJob, Goto
  <2>3. /\ \A s \in Scopes : locks'[s] = locks[s] \/ locks'[s] = FreeLock
        /\ \A s \in Scopes : locks[s].token # w => locks'[s] = locks[s]
        /\ locks'[held[w].scope].token # w
    BY <1>22, <2>1, WorkersAssumption DEF ReleaseScope, FreeLock
  <2>4. TokensFresh'
    <3>1. JobTokensFresh'
      <4>1. \A k \in Keys, x \in Workers :
              jobs[k].status = "running" /\ jobs[k].token = x => pc[x] \in Working /\ held[x] = k
        BY DEF JobTokensFresh
      <4>2. pc[w] \notin Working
        BY <2>1 DEF Working, Handling
      <4>3. \A x \in Workers : x # w => pc'[x] = pc[x] /\ held'[x] = held[x]
        BY <2>2
      <4> QED BY ONLY <2>2, <4>1, <4>2, <4>3 DEF JobTokensFresh
    <3>2. LockTokensFresh'
      BY <2>1, <2>2, <2>3, WorkersAssumption
      DEF LockTokensFresh, FreeLock, Locked, Handling
    <3> QED BY <3>1, <3>2
  <2>5. LockCovers'
    <3> SUFFICES ASSUME NEW x \in Workers, pc'[x] \in Handling, OwnsLease(x)',
                        jobs'[held'[x]].lease > 0
                 PROVE  /\ locks'[held'[x].scope].token = x
                        /\ locks'[held'[x].scope].lease >= jobs'[held'[x]].lease
      BY DEF LockCovers
    <3>1. x # w /\ pc[x] \in Handling /\ held'[x] = held[x]
      BY <2>1, <2>2 DEF Handling
    <3>2. held[x].scope \in Scopes
      BY <3>1, KeyFacts DEF HeldOK, Working
    <3> QED BY <2>2, <2>3, <3>1, <3>2 DEF LockCovers, OwnsLease
  <2> QED BY <2>4, <2>5
<1>23. ASSUME NEW w \in Workers, Restart(w) PROVE TokensFresh' /\ LockCovers'
  BY <1>23, QuietStep DEF Restart, durable, Labels, Handling, Working, Locked
<1>24. ASSUME NEW w \in Workers, Crash(w) PROVE TokensFresh' /\ LockCovers'
  <2>1. \A k \in Keys : /\ jobs[k].token # w => jobs'[k] = jobs[k]
                        /\ jobs'[k].token # w
                        /\ jobs'[k].token \in {jobs[k].token, Orphan}
                        /\ jobs'[k].status = jobs[k].status
    BY <1>24, RowFields, WorkersAssumption DEF Crash
  <2>2. \A s \in Scopes : /\ locks[s].token # w => locks'[s] = locks[s]
                          /\ locks'[s].token # w
                          /\ locks'[s].token \in {locks[s].token, Orphan}
    BY <1>24, WorkersAssumption DEF Crash, Orphaned, LockRow
  <2>3. /\ held' = [held EXCEPT ![w] = NoKey]
        /\ pc' = [pc EXCEPT ![w] = "down"]
    BY <1>24 DEF Crash, DropJob, Goto
  <2>4. TokensFresh'
    <3>1. JobTokensFresh'
      BY <2>1, <2>3, WorkersAssumption DEF JobTokensFresh
    <3>2. LockTokensFresh'
      BY <2>2, <2>3, WorkersAssumption DEF LockTokensFresh
    <3> QED BY <3>1, <3>2
  <2>5. LockCovers'
    <3> SUFFICES ASSUME NEW x \in Workers, pc'[x] \in Handling, OwnsLease(x)',
                        jobs'[held'[x]].lease > 0
                 PROVE  /\ locks'[held'[x].scope].token = x
                        /\ locks'[held'[x].scope].lease >= jobs'[held'[x]].lease
      BY DEF LockCovers
    <3>1. x # w /\ pc[x] \in Handling /\ held'[x] = held[x]
      BY <2>3 DEF Handling
    <3>2. held[x] \in Keys /\ held[x].scope \in Scopes
      BY <3>1, KeyFacts DEF HeldOK, Working
    <3>3. jobs'[held[x]] = jobs[held[x]]
      BY <2>1, <3>1, <3>2, WorkersAssumption DEF OwnsLease
    <3>4. /\ locks[held[x].scope].token = x
          /\ locks[held[x].scope].lease >= jobs[held[x]].lease
      BY <3>1, <3>3 DEF LockCovers, OwnsLease
    <3> QED BY <2>2, <3>1, <3>2, <3>3, <3>4
  <2> QED BY <2>4, <2>5
<1>25. CASE UNCHANGED vars
  BY <1>25 DEF vars, durable, local, JobTokensFresh, LockTokensFresh, LockCovers, OwnsLease
<1> QED
  BY <1>1, <1>2, <1>3, <1>4, <1>5, <1>6, <1>7, <1>8, <1>9, <1>10, <1>11, <1>12,
     <1>13, <1>14, <1>15, <1>16, <1>17, <1>18, <1>19, <1>20, <1>21, <1>22, <1>23,
     <1>24, <1>25, <1>26
  DEF Next, WorkerStep

\* A token that equals a worker is the token of that worker's current claim, so
\* a completion under a token is a completion by the claim that issued it
\* (claim_background_job, complete_background_job, release_background_scope_lock).
THEOREM TokensAreFresh == Spec => []TokensFresh
<1>1. Spec => []LeaseInv
  BY LeaseInit, LeaseNext, PTL DEF Spec
<1> QED BY <1>1, PTL DEF LeaseInv

\* However many workers share the queue and whatever crashes, no two of them
\* handle one scope under live leases (acquire_background_scope_lock).
THEOREM ScopesAreExclusive == Spec => []ScopeExclusive
<1>1. LeaseInv => ScopeExclusive
  BY DEF LeaseInv, LockCovers, ScopeExclusive
<1>2. Spec => []LeaseInv
  BY LeaseInit, LeaseNext, PTL DEF Spec
<1> QED BY <1>1, <1>2, PTL

-----------------------------------------------------------------------------
(* No stranded job.  fail_background_job decides on a retry before its     *)
(* transaction begins; with a second worker the lease may expire and the   *)
(* job be claimed again in between, and the retry then queue a job that is *)
(* out of attempts.                                                        *)

SoleWorker == \A v, w \in Workers : v = w

\* What NoStrandedJob asks of a row with m attempts.
RowOK(j, m) ==
  /\ j.status = "pending" => j.attempts < m
  /\ j.status = "running" => j.attempts \in 1..m /\ j.token # None

\* A retry that was decided on is still within the attempts.
RetryOK == \A w \in Workers :
             pc[w] = "failRetry" => jobs[held[w]].attempts < MaxAttempts(held[w])

QueueInv ==
  /\ TypeInv
  /\ \A k \in Keys : RowOK(jobs[k], MaxAttempts(k))
  /\ RetryOK

LEMMA RowOKUpdates ==
  ASSUME NEW j \in JobRow, NEW m \in Nat \ {0}, RowOK(j, m)
  PROVE  /\ RowOK(Aged(j), m) /\ RowOK(GivenUp(j), m) /\ RowOK(Orphaned(j), m)
         /\ RowOK(Succeeded(j), m) /\ RowOK(Failed(j), m)
         /\ j.attempts < m => RowOK(Requeued(j), m) /\ RowOK(Retried(j), m)
         /\ j.status = "running" => RowOK(Deferred(j), m)
<1>1. j.attempts \in Nat
  BY DEF JobRow
<1>2. RowOK(Aged(j), m) /\ RowOK(Orphaned(j), m)
  BY RowFields, WorkersAssumption DEF RowOK
<1>3. RowOK(GivenUp(j), m) /\ RowOK(Succeeded(j), m) /\ RowOK(Failed(j), m)
  BY RowFields DEF RowOK
<1>4. j.attempts < m => RowOK(Requeued(j), m) /\ RowOK(Retried(j), m)
  BY RowFields DEF RowOK
<1>5. j.status = "running" => RowOK(Deferred(j), m)
  BY <1>1, RowFields DEF RowOK, Elapse
<1> QED BY <1>2, <1>3, <1>4, <1>5

LEMMA FreshRowsOK ==
  ASSUME NEW m \in Nat \ {0}
  PROVE  RowOK(AbsentJob, m) /\ \A n \in Nat : RowOK(NewJob(n), m)
BY DEF RowOK, AbsentJob, NewJob

LEMMA LeasedOK ==
  ASSUME NEW j \in JobRow, NEW m \in Nat \ {0}, NEW w \in Workers, j.attempts < m
  PROVE  RowOK(Leased(j, w), m)
<1>1. j.attempts \in Nat
  BY DEF JobRow
<1> QED BY <1>1, LeasedFields, WorkersAssumption DEF RowOK

LEMMA QueueInit == Init => QueueInv
<1> SUFFICES ASSUME Init PROVE QueueInv
  OBVIOUS
<1>1. \A k \in Keys : RowOK(jobs[k], MaxAttempts(k))
  BY FreshRowsOK, MaxAttemptsType DEF Init
<1>2. RetryOK
  BY DEF Init, RetryOK
<1> QED BY <1>1, <1>2, TypeInit DEF QueueInv

\* A step of the only worker that leaves the rows alone, and is no read of a failure.
LEMMA RowsStay ==
  ASSUME SoleWorker, QueueInv, NEW w \in Workers, NEW l \in Labels \ {"failRetry"},
         Goto(w, l), jobs' = jobs
  PROVE  (\A k \in Keys : RowOK(jobs[k], MaxAttempts(k))') /\ RetryOK'
BY DEF SoleWorker, QueueInv, TypeInv, TypeOK, Goto, RetryOK

LEMMA QueueNext ==
  ASSUME SoleWorker, QueueInv, [Next]_vars
  PROVE  QueueInv'
<1> DEFINE RowsOK == \A k \in Keys : RowOK(jobs[k], MaxAttempts(k))
<1>0. /\ TypeInv' /\ TypeInv /\ RowsOK /\ RetryOK /\ jobs \in [Keys -> JobRow]
      /\ pc \in [Workers -> Labels]
  BY TypeNext DEF QueueInv, TypeInv, TypeOK
<1>1. ASSUME ConfigWrite \/ NextBucket \/ UNCHANGED vars \/ \E v \in Views : ExpireView(v)
      PROVE  RowsOK' /\ RetryOK'
  <2>1. jobs' = jobs /\ pc' = pc /\ held' = held
    BY <1>1 DEF ConfigWrite, NextBucket, ExpireView, vars, durable, local
  <2> QED BY <1>0, <2>1 DEF RetryOK
<1>2. ASSUME Tick PROVE RowsOK' /\ RetryOK'
  <2>1. /\ \A k \in Keys : jobs'[k] = Aged(jobs[k])
        /\ pc' = pc /\ held' = held
    BY <1>2 DEF Tick, local
  <2>2. RowsOK'
    BY <1>0, <2>1, RowOKUpdates, MaxAttemptsType
  <2>3. \A k \in Keys : jobs'[k].attempts = jobs[k].attempts
    BY <1>0, <2>1, RowFields
  <2>4. \A w \in Workers : pc[w] = "failRetry" => held[w] \in Keys
    BY <1>0 DEF TypeInv, HeldOK, Working, Handling
  <2> QED BY <1>0, <2>1, <2>2, <2>3, <2>4 DEF RetryOK
<1>3. ASSUME NEW w \in Workers, RecoverExpired(w) PROVE RowsOK' /\ RetryOK'
  <2>1. \A k \in Keys : jobs'[k] = RecoveredJob(k)
    BY <1>3 DEF RecoverExpired
  <2>2. RowsOK'
    BY <1>0, <2>1, RowOKUpdates, MaxAttemptsType DEF RecoveredJob
  <2>3. RetryOK'
    BY <1>0, <1>3 DEF RecoverExpired, Goto, SoleWorker, RetryOK
  <2> QED BY <2>2, <2>3
<1>4. ASSUME NEW w \in Workers, NEW v \in Views, EnqueueView(w, v) PROVE RowsOK' /\ RetryOK'
  <2>1. nextId \in Nat /\ ViewKey(v, seen[w].rev, seen[w].bucket) \in Keys
    BY <1>0, KeyFacts DEF TypeInv, TypeOK
  <2>2. \A k \in Keys : jobs'[k] \in {jobs[k], AbsentJob, NewJob(nextId)}
    BY <1>0, <1>4, <2>1 DEF EnqueueView, Inserted, Coalesced
  <2>3. RowsOK'
    BY <1>0, <2>1, <2>2, FreshRowsOK, MaxAttemptsType
  <2>4. RetryOK'
    BY <1>0, <1>4 DEF EnqueueView, SoleWorker, RetryOK
  <2> QED BY <2>3, <2>4
<1>5. ASSUME NEW w \in Workers, EnqueueRetention(w) PROVE RowsOK' /\ RetryOK'
  <2>1. nextId \in Nat /\ RetentionKey(seen[w].bucket \div BucketsPerHour) \in Keys
    BY <1>0, KeyFacts DEF TypeInv, TypeOK
  <2>2. \A k \in Keys : jobs'[k] \in {jobs[k], NewJob(nextId)}
    BY <1>0, <1>5, <2>1 DEF EnqueueRetention, Inserted
  <2>3. RowsOK'
    BY <1>0, <2>1, <2>2, FreshRowsOK, MaxAttemptsType
  <2>4. RetryOK'
    BY <1>0, <1>5 DEF EnqueueRetention, Goto, SoleWorker, RetryOK
  <2> QED BY <2>3, <2>4
<1>6. ASSUME NEW w \in Workers, DispatchOutbox(w) PROVE RowsOK' /\ RetryOK'
  <2>0. nextId \in Nat /\ \A r \in Revisions : Cardinality(RowsBefore(r)) \in Nat
    BY <1>0, RowsCount DEF RowsBefore, PendingRows, TypeInv, TypeOK
  <2>1. \A r \in Revisions : nextId + Cardinality(RowsBefore(r)) \in Nat
    BY <2>0
  <2>2. \A k \in Keys : k \in {ConfigKey(r) : r \in PendingRows} => k.rev \in Revisions
    BY DEF ConfigKey, PendingRows
  <2>3. \A k \in Keys : jobs'[k] = jobs[k] \/ \E n \in Nat : jobs'[k] = NewJob(n)
    BY <1>6, <2>1, <2>2 DEF DispatchOutbox
  <2>4. RowsOK'
    BY <1>0, <2>3, FreshRowsOK, MaxAttemptsType
  <2>5. RetryOK'
    BY <1>0, <1>6 DEF DispatchOutbox, Goto, SoleWorker, RetryOK
  <2> QED BY <2>4, <2>5
<1>7. ASSUME NEW w \in Workers, Claim(w) PROVE RowsOK' /\ RetryOK'
  <2>1. PICK k \in Keys : FirstClaimable(k) /\ jobs' = [jobs EXCEPT ![k] = Leased(jobs[k], w)]
    BY <1>7 DEF Claim
  <2>2. RowOK(jobs'[k], MaxAttempts(k))
    BY <1>0, <2>1, LeasedOK, MaxAttemptsType DEF FirstClaimable, Claimable
  <2>3. RowsOK'
    BY <1>0, <2>1, <2>2
  <2>4. RetryOK'
    BY <1>0, <1>7 DEF Claim, Goto, SoleWorker, RetryOK
  <2> QED BY <2>3, <2>4
<1>8. ASSUME NEW w \in Workers, Defer(w) PROVE RowsOK' /\ RetryOK'
  <2>1. held[w] \in Keys
    BY <1>0, <1>8 DEF Defer, TypeInv, HeldOK, Working
  <2>2. \A k \in Keys : \/ jobs'[k] = jobs[k]
                        \/ jobs[k].status = "running" /\ jobs'[k] = Deferred(jobs[k])
    BY <1>0, <1>8, <2>1 DEF Defer, SetJob, OwnsLease
  <2>3. RowsOK'
    BY <1>0, <2>2, RowOKUpdates, MaxAttemptsType
  <2>4. RetryOK'
    BY <1>0, <1>8 DEF Defer, Goto, SoleWorker, RetryOK
  <2> QED BY <2>3, <2>4
<1>9. ASSUME NEW w \in Workers, Prune(w) PROVE RowsOK' /\ RetryOK'
  <2>1. \A k \in Keys : jobs'[k] \in {jobs[k], AbsentJob}
    BY <1>9 DEF Prune
  <2>2. RowsOK'
    BY <1>0, <2>1, FreshRowsOK, MaxAttemptsType
  <2>3. RetryOK'
    BY <1>0, <1>9 DEF Prune, Goto, SoleWorker, RetryOK
  <2> QED BY <2>2, <2>3
<1>10. ASSUME NEW w \in Workers, Complete(w) PROVE RowsOK' /\ RetryOK'
  <2>1. held[w] \in Keys
    BY <1>0, <1>10 DEF Complete, TypeInv, HeldOK, Working, Handling
  <2>2. \A k \in Keys : jobs'[k] \in {jobs[k], Succeeded(jobs[k])}
    BY <1>0, <1>10, <2>1 DEF Complete, SetJob
  <2>3. RowsOK'
    BY <1>0, <2>2, RowOKUpdates, MaxAttemptsType
  <2>4. RetryOK'
    BY <1>0, <1>10 DEF Complete, Goto, SoleWorker, RetryOK
  <2> QED BY <2>3, <2>4
<1>11. ASSUME NEW w \in Workers, FailRead(w) PROVE RowsOK' /\ RetryOK'
  <2>1. jobs' = jobs /\ held' = held /\ held[w] \in Keys
    BY <1>0, <1>11 DEF FailRead, durable, TypeInv, HeldOK, Working, Handling
  <2>2. jobs[held[w]].attempts \in Nat /\ MaxAttempts(held[w]) \in Nat
    BY <1>0, <2>1, MaxAttemptsType DEF JobRow
  <2>3. pc'[w] = "failRetry" => ~(jobs[held[w]].attempts >= MaxAttempts(held[w]))
    BY <1>0, <1>11 DEF FailRead, Goto
  <2>4. RetryOK'
    BY <2>1, <2>2, <2>3 DEF SoleWorker, RetryOK
  <2> QED BY <1>0, <2>1, <2>4
<1>12. ASSUME NEW w \in Workers, FailWrite(w) PROVE RowsOK' /\ RetryOK'
  <2>1. held[w] \in Keys
    BY <1>0, <1>12 DEF FailWrite, TypeInv, HeldOK, Working, Handling
  <2>2. \/ jobs' = jobs
        \/ jobs' = [jobs EXCEPT ![held[w]] = Failed(jobs[held[w]])]
        \/ pc[w] = "failRetry" /\ jobs' = [jobs EXCEPT ![held[w]] = Retried(jobs[held[w]])]
    BY <1>12 DEF FailWrite, SetJob
  <2>3. RowOK(jobs'[held[w]], MaxAttempts(held[w]))
    BY <1>0, <2>1, <2>2, RowOKUpdates, MaxAttemptsType DEF RetryOK
  <2>4. RowsOK'
    BY <1>0, <2>1, <2>2, <2>3
  <2>5. RetryOK'
    BY <1>0, <1>12 DEF FailWrite, Goto, SoleWorker, RetryOK
  <2> QED BY <2>4, <2>5
<1>13. ASSUME NEW w \in Workers, Crash(w) PROVE RowsOK' /\ RetryOK'
  <2>1. \A k \in Keys : jobs'[k] \in {jobs[k], Orphaned(jobs[k])}
    BY <1>13 DEF Crash
  <2>2. RowsOK'
    BY <1>0, <2>1, RowOKUpdates, MaxAttemptsType
  <2>3. RetryOK'
    BY <1>0, <1>13 DEF Crash, Goto, SoleWorker, RetryOK
  <2> QED BY <2>2, <2>3
<1>14. ASSUME NEW w \in Workers,
              \/ Schedule(w) \/ EndCycle(w) \/ AcquireScope(w) \/ Analyse(w) \/ BuildView(w)
              \/ StampView(w) \/ SaveView(w) \/ HandlerRaises(w) \/ ReleaseScope(w) \/ Restart(w)
       PROVE  RowsOK' /\ RetryOK'
  <2>1. /\ jobs' = jobs
        /\ \E l \in {"enqueue", "idle", "run", "defer", "finish", "stamp", "save",
                   "fail", "claim"} :
             Goto(w, l)
    BY <1>14 DEF Schedule, EndCycle, AcquireScope, Analyse, BuildView, StampView, SaveView,
                 HandlerRaises, ReleaseScope, Restart, durable
  <2> QED BY <2>1, RowsStay DEF Labels, Working, Locked, Handling
<1>15. RowsOK' /\ RetryOK'
  BY <1>1, <1>2, <1>3, <1>4, <1>5, <1>6, <1>7, <1>8, <1>9, <1>10, <1>11, <1>12,
     <1>13, <1>14
  DEF Next, WorkerStep
<1> QED BY <1>0, <1>15 DEF QueueInv

\* With the one worker that is deployed, claim_background_job never meets a
\* pending job that is out of attempts, and a running job always has a token whose
\* lease recovery will see expire, for any views, attempts, leases and crashes.
THEOREM NoJobIsStranded ==
  ASSUME SoleWorker
  PROVE  Spec => []NoStrandedJob
<1>1. QueueInv /\ [Next]_vars => QueueInv'
  BY QueueNext
<1>2. QueueInv => NoStrandedJob
  BY DEF QueueInv, RowOK, NoStrandedJob
<1> QED BY <1>1, <1>2, QueueInit, PTL DEF Spec

=============================================================================

--------------------------- MODULE ConfigRevision ---------------------------
(***************************************************************************)
(* PolicyStore.config_write: one configuration transaction with optimistic *)
(* concurrency (app/policy_store.py).                                      *)
(*                                                                         *)
(* Python's sqlite3 opens a transaction at the first INSERT, UPDATE or     *)
(* DELETE, so the comparison of expected_revision runs before it; the      *)
(* writer then waits for SQLite's write lock, changes the configuration,   *)
(* and advances the revision, journal and outbox in the same transaction.  *)
(***************************************************************************)
EXTENDS Naturals

CONSTANTS
  Writers,      \* request threads that save configuration
  None,         \* no owner; no expected revision
  MaxRevision   \* bound: revisions

ASSUME WritersAssumption == None \notin Writers /\ None \notin Nat
ASSUME BoundAssumption == MaxRevision \in Nat \ {0}

VARIABLES
  revision,  \* committed config_revision_state.revision
  journal,   \* committed config_revisions
  outbox,    \* committed config.changed events
  owner,     \* the writer whose transaction holds SQLite's write lock
  staged,    \* the revision that transaction has written
  pc,        \* writer -> where its config_write is
  expected   \* writer -> the revision its form was loaded at, or None

committed == <<revision, journal, outbox>>
vars == <<committed, owner, staged, pc, expected>>

Revisions == 1..MaxRevision

TypeOK ==
  /\ revision \in Revisions
  /\ journal \subseteq Revisions
  /\ outbox \subseteq Revisions
  /\ owner \in Writers \cup {None}
  /\ staged \in Revisions \cup {None}
  /\ pc \in [Writers -> {"idle", "form", "body", "advance", "commit"}]
  /\ expected \in [Writers -> Revisions \cup {None}]

\* ensure_config_revision_baseline has journalled the first revision.
Init ==
  /\ revision = 1 /\ journal = {1} /\ outbox = {1}
  /\ owner = None /\ staged = None
  /\ pc = [w \in Writers |-> "idle"]
  /\ expected = [w \in Writers |-> None]

Goto(w, l) == pc' = [pc EXCEPT ![w] = l]

\* A form is loaded with the current revision; older call sites omit it.
Load(w) ==
  /\ pc[w] = "idle"
  /\ \E e \in {revision, None} : expected' = [expected EXCEPT ![w] = e]
  /\ Goto(w, "form")
  /\ UNCHANGED <<committed, owner, staged>>

Stale(w) == expected[w] # None /\ expected[w] # revision

\* _assert_config_revision_db, in a statement of its own.
Check(w) ==
  /\ pc[w] = "form"
  /\ Goto(w, IF Stale(w) THEN "idle" ELSE "body")
  /\ expected' = [expected EXCEPT ![w] = IF Stale(w) THEN None ELSE @]
  /\ UNCHANGED <<committed, owner, staged>>

\* The first change of the body gets the write lock.
Body(w) ==
  /\ pc[w] = "body"
  /\ owner = None
  /\ owner' = w
  /\ Goto(w, "advance")
  /\ UNCHANGED <<committed, staged, expected>>

\* Mutant: the revision is the one that was compared.
AdvanceFromCheck(w) ==
  /\ pc[w] = "advance"
  /\ revision < MaxRevision
  /\ staged' = IF expected[w] = None THEN revision + 1 ELSE expected[w] + 1
  /\ Goto(w, "commit")
  /\ UNCHANGED <<committed, owner, expected>>

\* _advance_config_revision_db reads the revision again, in the transaction.
Advance(w) ==
  /\ pc[w] = "advance"
  /\ revision < MaxRevision
  /\ staged' = revision + 1
  /\ Goto(w, "commit")
  /\ UNCHANGED <<committed, owner, expected>>

End(w) ==
  /\ owner' = None
  /\ staged' = None
  /\ expected' = [expected EXCEPT ![w] = None]
  /\ Goto(w, "idle")

Commit(w) ==
  /\ pc[w] = "commit"
  /\ revision' = staged
  /\ journal' = journal \cup {staged}
  /\ outbox' = outbox \cup {staged}
  /\ End(w)

\* The body raises, or the process dies: SQLite rolls back.
Rollback(w) ==
  /\ pc[w] \in {"advance", "commit"}
  /\ End(w)
  /\ UNCHANGED committed

\* The write lock is not free within busy_timeout.
Busy(w) ==
  /\ pc[w] = "body"
  /\ owner # None
  /\ expected' = [expected EXCEPT ![w] = None]
  /\ Goto(w, "idle")
  /\ UNCHANGED <<committed, owner, staged>>

Next == \E w \in Writers :
  \/ Load(w) \/ Check(w) \/ Body(w) \/ Advance(w) \/ Commit(w)
  \/ Rollback(w) \/ Busy(w)

Spec == Init /\ [][Next]_vars

-----------------------------------------------------------------------------
(* Properties.                                                             *)

Log == INSTANCE RevisionLog WITH revision <- revision, journal <- journal, outbox <- outbox

\* Whatever writers interleave, fail or roll back, what readers see is a log:
\* every commit makes exactly the next revision, with its row and its event.
ImplementsLog == Log!Spec

\* "callers that present a revision gain stale-write rejection": a commit never
\* overwrites a revision its form had not seen.
StaleWriteRejected ==
  [][\A w \in Writers :
       pc[w] = "commit" /\ revision' # revision /\ owner = w /\ expected[w] # None
         => expected[w] = revision]_vars
=============================================================================

------------------------ MODULE ConfigRevisionProofs ------------------------
(***************************************************************************)
(* ConfigRevision implements RevisionLog, for any writers and any bound.   *)
(***************************************************************************)
EXTENDS ConfigRevision, TLAPS

InTransaction(w) == pc[w] \in {"advance", "commit"}

\* The write lock belongs to the one writer in a transaction, and what that
\* writer staged is still the next revision when it commits.
TransactionIsCurrent ==
  /\ \A w \in Writers : InTransaction(w) => owner = w
  /\ \A w \in Writers : pc[w] = "commit" => staged = revision + 1

\* The inductive invariant.
IInv == TypeOK /\ TransactionIsCurrent

LEMMA IInvInit == Init => IInv
  BY BoundAssumption DEF Init, IInv, TypeOK, TransactionIsCurrent, InTransaction,
     Revisions

LEMMA IInvNext == IInv /\ [Next]_vars => IInv'
<1> SUFFICES ASSUME IInv, [Next]_vars PROVE IInv'
  OBVIOUS
<1> USE WritersAssumption, BoundAssumption DEF IInv, TypeOK, Revisions,
        TransactionIsCurrent, InTransaction, committed
<1>1. ASSUME NEW w \in Writers, Load(w) PROVE IInv'
  BY <1>1 DEF Load, Goto
<1>2. ASSUME NEW w \in Writers, Check(w) PROVE IInv'
  BY <1>2 DEF Check, Goto
<1>3. ASSUME NEW w \in Writers, Body(w) PROVE IInv'
  BY <1>3 DEF Body, Goto
<1>4. ASSUME NEW w \in Writers, Advance(w) PROVE IInv'
  BY <1>4 DEF Advance, Goto
<1>5. ASSUME NEW w \in Writers, Commit(w) PROVE IInv'
  BY <1>5 DEF Commit, End, Goto
<1>6. ASSUME NEW w \in Writers, Rollback(w) PROVE IInv'
  BY <1>6 DEF Rollback, End, Goto
<1>7. ASSUME NEW w \in Writers, Busy(w) PROVE IInv'
  BY <1>7 DEF Busy, Goto
<1>8. CASE UNCHANGED vars
  BY <1>8 DEF vars
<1> QED
  BY <1>1, <1>2, <1>3, <1>4, <1>5, <1>6, <1>7, <1>8 DEF Next

LEMMA LogStep ==
  ASSUME IInv, [Next]_vars
  PROVE  [Log!Write]_<<revision, journal, outbox>>
<1>1. ASSUME NEW w \in Writers, Commit(w) PROVE Log!Write
  BY <1>1 DEF Commit, Log!Write, IInv, TransactionIsCurrent
<1>2. ASSUME NEW w \in Writers,
             Load(w) \/ Check(w) \/ Body(w) \/ Advance(w) \/ Rollback(w) \/ Busy(w)
      PROVE  UNCHANGED <<revision, journal, outbox>>
  BY <1>2 DEF Load, Check, Body, Advance, Rollback, Busy, committed
<1>3. CASE UNCHANGED vars
  BY <1>3 DEF vars, committed
<1> QED
  BY <1>1, <1>2, <1>3 DEF Next

\* config_write implements the log its readers rely on: every step of any
\* writer appends the next revision with its journal row and outbox event, or
\* changes nothing of them.
THEOREM WritesAreALog == Spec => ImplementsLog
<1>1. Init => Log!Init
  BY DEF Init, Log!Init
<1> QED
  BY <1>1, IInvInit, IInvNext, LogStep, PTL DEF Spec, ImplementsLog, Log!Spec
=============================================================================

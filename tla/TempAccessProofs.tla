-------------------------- MODULE TempAccessProofs --------------------------
(* Proofs about TempAccess, for any threads, operations and bounds.        *)
EXTENDS TempAccess, FiniteSetTheorems, TLAPS

-----------------------------------------------------------------------------
(* Facts about scheduler rows and about counting redemptions.              *)

Statuses == {"none", "reserved", "applied", "refunded"}

LEMMA SchedConstants == NoSched \in SchedRow /\ NewSched \in SchedRow
BY DEF SchedRow, NoSched, NewSched

LEMMA IdsAreFinite == \A S \in SUBSET Ids : IsFiniteSet(S) /\ Cardinality(S) \in Nat
<1>1. IsFiniteSet(Ids)
  BY FS_Interval, BoundsAssumption DEF Ids
<1> QED BY <1>1, FS_Subset, FS_CardinalityType

\* The redemptions whose status, in st, is one of S.
With(st, S) == {j \in Ids : st[j] \in S}

\* What writing one status does to the number of redemptions with a status in S.
LEMMA CountUpdate ==
  ASSUME NEW st \in [Ids -> Statuses], NEW i \in Ids, NEW v \in Statuses, NEW S,
         NEW new \in [Ids -> Statuses], new[i] = v,
         \A j \in Ids \ {i} : new[j] = st[j]
  PROVE  /\ Cardinality(With(st, S)) \in Nat /\ Cardinality(With(new, S)) \in Nat
         /\ (st[i] \in S <=> v \in S) => Cardinality(With(new, S)) = Cardinality(With(st, S))
         /\ st[i] \notin S /\ v \in S =>
              Cardinality(With(new, S)) = Cardinality(With(st, S)) + 1
         /\ st[i] \in S /\ v \notin S =>
              Cardinality(With(new, S)) = Cardinality(With(st, S)) - 1
<1> DEFINE A == With(st, S)
           B == With(new, S)
<1>1. IsFiniteSet(A) /\ Cardinality(A) \in Nat /\ Cardinality(B) \in Nat
  BY IdsAreFinite DEF With
<1>2. ASSUME st[i] \in S <=> v \in S PROVE Cardinality(B) = Cardinality(A)
  <2>1. B = A
    BY <1>2 DEF With
  <2> QED BY <2>1
<1>3. ASSUME st[i] \notin S, v \in S PROVE Cardinality(B) = Cardinality(A) + 1
  <2>1. B = A \cup {i} /\ i \notin A
    BY <1>3 DEF With
  <2> QED BY <1>1, <2>1, FS_AddElement
<1>4. ASSUME st[i] \in S, v \notin S PROVE Cardinality(B) = Cardinality(A) - 1
  <2>1. B = A \ {i} /\ i \in A
    BY <1>4 DEF With
  <2> QED BY <1>1, <2>1, FS_RemoveElement
<1> QED BY <1>1, <1>2, <1>3, <1>4

\* The reservations, and the redemptions whose minutes left the account.
Held == {"reserved"}
Spent == {"reserved", "applied"}

LEMMA HeldFacts ==
  /\ "reserved" \in Held /\ "none" \notin Held /\ "refunded" \notin Held
  /\ "applied" \notin Held
  /\ "reserved" \in Spent /\ "none" \notin Spent /\ "refunded" \notin Spent
  /\ "applied" \in Spent
  /\ {"none", "reserved", "applied", "refunded"} = Statuses
BY DEF Held, Spent, Statuses

-----------------------------------------------------------------------------
(* What the control operators do to the thread that takes a step, and to   *)
(* the others.                                                             *)

ThreadTyped ==
  /\ up \in BOOLEAN
  /\ lane \in Threads \cup {None}
  /\ op \in [Threads -> AllOps \cup {"none", "startup"}]
  /\ pc \in [Threads -> Labels]
  /\ ctx \in [Threads -> Contexts]
  /\ saw \in [Threads -> SchedRow]
  /\ found \in [Threads -> {"none", "inactive", "active", "error"}]
  /\ rid \in [Threads -> Ids \cup {NoId}]

OthersKeep(t) ==
  \A u \in Threads \ {t} :
    /\ op'[u] = op[u] /\ pc'[u] = pc[u] /\ ctx'[u] = ctx[u]
    /\ saw'[u] = saw[u] /\ found'[u] = found[u] /\ rid'[u] = rid[u]

LEMMA GotoEffect ==
  ASSUME ThreadTyped, NEW t \in Threads, NEW l \in Labels, Goto(t, l)
  PROVE  /\ ThreadTyped' /\ OthersKeep(t)
         /\ pc'[t] = l /\ op'[t] = op[t] /\ ctx'[t] = ctx[t] /\ saw'[t] = saw[t]
         /\ found'[t] = found[t] /\ rid'[t] = rid[t] /\ lane' = lane /\ up' = up
BY DEF Goto, ThreadTyped, OthersKeep

LEMMA CallEffect ==
  ASSUME ThreadTyped, NEW t \in Threads, NEW l \in Labels, NEW c \in Contexts,
         Call(t, l, c)
  PROVE  /\ ThreadTyped' /\ OthersKeep(t)
         /\ pc'[t] = l /\ op'[t] = op[t] /\ ctx'[t] = c /\ saw'[t] = NoSched
         /\ found'[t] = "none" /\ rid'[t] = rid[t] /\ lane' = lane /\ up' = up
BY SchedConstants DEF Call, ThreadTyped, OthersKeep

LEMMA FinishEffect ==
  ASSUME ThreadTyped, NEW t \in Threads, Finish(t)
  PROVE  /\ ThreadTyped' /\ OthersKeep(t)
         /\ pc'[t] = "idle" /\ op'[t] = "none" /\ ctx'[t] = "none"
         /\ saw'[t] = NoSched /\ found'[t] = "none" /\ rid'[t] = NoId
         /\ lane' = (IF lane = t THEN None ELSE lane)
         /\ up' = (up \/ op[t] = "startup")
BY SchedConstants DEF Finish, ThreadTyped, OthersKeep, Labels, Contexts

LEMMA BeginEffect ==
  ASSUME ThreadTyped, NEW t \in Threads, NEW o \in AllOps, NEW c \in Contexts,
         Begin(t, o, c),
         rid' = rid \/ \E i \in Ids : rid' = [rid EXCEPT ![t] = i]
  PROVE  /\ ThreadTyped' /\ OthersKeep(t)
         /\ op'[t] = o /\ pc'[t] = "readSched" /\ ctx'[t] = c
         /\ found'[t] = found[t] /\ saw'[t] = saw[t]
         /\ lane' = (IF o \in LaneOps THEN t ELSE lane) /\ up' = up
<1>1. lane' \in Threads \cup {None} /\ up' = up
  BY DEF Begin, ThreadTyped
<1>2. op' \in [Threads -> AllOps \cup {"none", "startup"}]
  BY DEF Begin, ThreadTyped
<1>3. pc' \in [Threads -> Labels]
  BY DEF Begin, ThreadTyped, Labels
<1>4. ctx' \in [Threads -> Contexts] /\ saw' = saw /\ found' = found
  BY DEF Begin, ThreadTyped
<1>5. rid' \in [Threads -> Ids \cup {NoId}] /\ \A u \in Threads \ {t} : rid'[u] = rid[u]
  BY DEF ThreadTyped
<1>6. OthersKeep(t)
  BY <1>5 DEF Begin, ThreadTyped, OthersKeep
<1> QED BY <1>1, <1>2, <1>3, <1>4, <1>5, <1>6 DEF Begin, ThreadTyped

LEMMA LabelFacts ==
  /\ {"idle", "readSched", "readScript", "dropSched", "dropScript", "judge",
      "addScript", "addSched", "extend", "rearm", "normal", "bind", "complete",
      "applied", "refund", "disable", "restore", "reenable", "restrict"} \subseteq Labels
  /\ Reads \cup {"clean", "undo", "end", "none"} \subseteq Contexts
BY DEF Labels, Contexts, Reads

-----------------------------------------------------------------------------
(* Type correctness.  The balance is bounded by the credit because every   *)
(* reservation was debited, and a refund needs the redemption that its     *)
(* thread is about.                                                        *)

\* What the call l a thread is at, in context c, says about its operation o, the
\* verdict f of its read and its redemption r.  Only an active override is
\* extended, and only a redemption is settled.
ThreadOK(o, l, c, f, r) ==
  /\ o = "redeem" => c \in {"pre", "grant", "clean", "undo", "final", "recheck"}
  /\ o = "start" => c \in {"grant", "clean", "undo", "final"}
  /\ o = "cancel" => c \in {"cancel", "end"}
  /\ o = "reader" => c = "reader"
  /\ o \in {"recheck", "startup"} => c = "recover"
  /\ o = "observe" => c \in {"observe", "reader"}
  /\ o = "enforce" => c \in {"enforce", "verify"}
  /\ o = "none" => c = "none"
  /\ l \in {"readSched", "readScript", "judge"} => c \in Reads
  /\ l \in {"dropSched", "dropScript"} => c \in Reads \cup {"clean", "undo", "end"}
  /\ l \in {"addScript", "addSched", "bind"} => c = "clean"
  /\ l \in {"extend", "rearm"} => c = "grant"
  /\ l = "normal" => c \in {"grant", "clean"}
  /\ l \in {"extend", "rearm", "normal"} /\ c = "grant" => f = "active"
  /\ c = "clean" => f = "none"
  /\ l \in {"complete", "applied"} => c \in {"final", "recheck", "recover"}
  /\ l = "refund" => c \in {"recheck", "recover"}
  /\ l \in {"disable", "restore", "reenable"} => c = "cancel"
  /\ l = "restrict" => c = "enforce"
  /\ l = "idle" <=> c = "none"
  /\ c \in {"recheck", "recover"} => r \in Ids
  /\ o = "redeem" /\ c # "pre" => r \in Ids
  /\ l \in {"bind", "complete", "applied", "refund"} => o # "start"

FlowOK == \A t \in Threads : ThreadOK(op[t], pc[t], ctx[t], found[t], rid[t])

\* The thread that takes a step decides whether FlowOK is kept.
LEMMA FlowStep ==
  ASSUME FlowOK, NEW t \in Threads, OthersKeep(t),
         ThreadOK(op'[t], pc'[t], ctx'[t], found'[t], rid'[t])
  PROVE  FlowOK'
BY DEF FlowOK, OthersKeep

\* No minute is in the account and reserved at the same time.
Solvent == balance + Cardinality(Reserved) <= credit

TypeInv == TypeOK /\ FlowOK /\ Solvent

LEMMA ThreadsTyped == TypeInv => ThreadTyped /\ FlowOK
BY DEF TypeInv, TypeOK, ThreadTyped

LEMMA TypeInit == Init => TypeInv
<1> SUFFICES ASSUME Init PROVE TypeInv
  OBVIOUS
<1>1. TypeOK
  <2>1. ThreadTyped
    BY SchedConstants, LabelFacts DEF Init, ThreadTyped
  <2>2. /\ balance \in 0..MaxCredit /\ credit \in 0..MaxCredit /\ ops \in 0..MaxOps
        /\ faults \in 0..MaxFaults /\ crashes \in 0..MaxCrashes
    BY BoundsAssumption DEF Init
  <2>3. /\ sched \in SchedRow /\ script \in BOOLEAN /\ lapsed \in BOOLEAN
        /\ granted \in [Ids -> BOOLEAN]
    BY SchedConstants DEF Init
  <2> QED BY <2>1, <2>2, <2>3 DEF Init, TypeOK, ThreadTyped
<1>2. FlowOK
  BY DEF Init, FlowOK, ThreadOK
<1>3. Reserved = {}
  BY DEF Init, Reserved
<1>4. Solvent
  BY <1>3, FS_EmptySet DEF Init, Solvent
<1> QED BY <1>1, <1>2, <1>4 DEF TypeInv

\* A step of a thread, with the thread it is of.
StepOf(t) == Requests(t) \/ Observe(t) \/ Enforce(t) \/ Continue(t) \/ Raises(t)

\* Every step of a thread leaves the others alone, and itself in a state that
\* the code can be in.
LEMMA ControlStep ==
  ASSUME TypeInv, NEW t \in Threads, StepOf(t)
  PROVE  ThreadTyped' /\ OthersKeep(t) /\ FlowOK'
<1> DEFINE Good == ThreadTyped' /\ OthersKeep(t)
                   /\ ThreadOK(op'[t], pc'[t], ctx'[t], found'[t], rid'[t])
<1>0. ThreadTyped /\ FlowOK /\ ThreadOK(op[t], pc[t], ctx[t], found[t], rid[t])
  BY ThreadsTyped DEF FlowOK
<1>1. ASSUME Redeem(t) PROVE Good
  <2>1. Begin(t, "redeem", "pre") /\ rid' = rid
    BY <1>1 DEF Redeem, UserBegins
  <2> QED BY <1>0, <2>1, BeginEffect, LabelFacts DEF AllOps, ThreadOK, Reads
<1>2. ASSUME Start(t) PROVE Good
  <2>1. Begin(t, "start", "grant") /\ rid' = rid
    BY <1>2 DEF Start, UserBegins
  <2> QED BY <1>0, <2>1, BeginEffect, LabelFacts DEF AllOps, ThreadOK, Reads
<1>3. ASSUME Cancel(t) PROVE Good
  <2>1. Begin(t, "cancel", "cancel") /\ rid' = rid
    BY <1>3 DEF Cancel, UserBegins
  <2> QED BY <1>0, <2>1, BeginEffect, LabelFacts DEF AllOps, ThreadOK, Reads
<1>4. ASSUME Reader(t) PROVE Good
  <2>1. Begin(t, "reader", "reader") /\ rid' = rid
    BY <1>4 DEF Reader, UserBegins
  <2> QED BY <1>0, <2>1, BeginEffect, LabelFacts DEF AllOps, ThreadOK, Reads
<1>5. ASSUME Enforce(t) PROVE Good
  <2>1. Begin(t, "enforce", "enforce") /\ rid' = rid
    BY <1>5 DEF Enforce
  <2> QED BY <1>0, <2>1, BeginEffect, LabelFacts DEF AllOps, ThreadOK, Reads
<1>41. ASSUME Observe(t) PROVE Good
  <2>1. /\ Begin(t, "observe", IF mode = "normal" THEN "observe" ELSE "reader")
        /\ rid' = rid
    BY <1>41 DEF Observe
  <2> DEFINE c == IF mode = "normal" THEN "observe" ELSE "reader"
  <2>2. c \in {"observe", "reader"} /\ c \in Contexts
    BY DEF Contexts
  <2>3. Begin(t, "observe", c)
    BY <2>1
  <2> HIDE DEF c
  <2> QED BY <1>0, <2>1, <2>2, <2>3, BeginEffect, LabelFacts DEF AllOps, ThreadOK, Reads
<1>42. ASSUME Observed(t) PROVE Good
  <2>1. CASE lane' = t /\ op' = [op EXCEPT ![t] = "enforce"] /\ Observed(t)
             /\ pc' = [pc EXCEPT ![t] = "readSched"]
             /\ ctx' = [ctx EXCEPT ![t] = "enforce"]
             /\ saw' = [saw EXCEPT ![t] = NoSched]
             /\ found' = [found EXCEPT ![t] = "none"] /\ UNCHANGED <<rid, up>>
    <3>1. ThreadTyped' /\ OthersKeep(t)
      BY <1>0, <2>1, SchedConstants, LabelFacts
         DEF ThreadTyped, OthersKeep, AllOps, Reads
    <3>2. /\ pc'[t] = "readSched" /\ ctx'[t] = "enforce" /\ op'[t] = "enforce"
          /\ found'[t] = "none" /\ rid'[t] = rid[t]
      BY <1>0, <2>1 DEF ThreadTyped
    <3> QED BY <3>1, <3>2 DEF ThreadOK, Reads
  <2>2. CASE Finish(t)
    BY <1>0, <2>2, FinishEffect DEF ThreadOK, Reads
  <2> QED BY <1>42, <2>1, <2>2 DEF Observed
<1>6. ASSUME Recheck(t) PROVE Good
  <2>1. PICK i \in Ids : Begin(t, "recheck", "recover") /\ rid' = [rid EXCEPT ![t] = i]
    BY <1>6 DEF Recheck, UserBegins, Reserved
  <2>2. rid'[t] \in Ids
    BY <1>0, <2>1 DEF ThreadTyped
  <2> QED BY <1>0, <2>1, <2>2, BeginEffect, LabelFacts DEF AllOps, ThreadOK, Reads
<1>7. ASSUME ReadSched(t) PROVE Good
  <2>1. saw' \in [Threads -> SchedRow]
    BY <1>0, <1>7 DEF ReadSched, ThreadTyped, TypeInv, TypeOK
  <2>2. ThreadTyped' /\ OthersKeep(t) /\ pc'[t] = "readScript"
    BY <1>0, <1>7, <2>1, LabelFacts DEF ReadSched, ThreadTyped, OthersKeep
  <2> QED BY <1>0, <1>7, <2>2 DEF ReadSched, ThreadOK, Reads
<1>8. ASSUME ReadScript(t) PROVE Good
  <2>1. found'[t] \in {"inactive", "active", "error"} /\ pc'[t] \in {"dropSched", "judge"}
    BY <1>0, <1>8 DEF ReadScript, Verdict, ThreadTyped
  <2>2. ThreadTyped' /\ OthersKeep(t)
    BY <1>0, <1>8, LabelFacts DEF ReadScript, Verdict, ThreadTyped, OthersKeep
  <2> QED BY <1>0, <1>8, <2>1, <2>2 DEF ReadScript, ThreadOK, Reads
<1>9. ASSUME Reserve(t) PROVE Good
  <2>1. PICK i \in Ids : rid' = [rid EXCEPT ![t] = i]
    BY <1>9 DEF Reserve
  <2>2. ThreadTyped' /\ OthersKeep(t) /\ rid'[t] \in Ids
    BY <1>0, <1>9, <2>1, SchedConstants, LabelFacts
     DEF Reserve, ThreadTyped, OthersKeep, Reads
  <2>3. pc'[t] = "readSched" /\ ctx'[t] = "grant" /\ found'[t] = "none" /\ op'[t] = op[t]
    BY <1>0, <1>9 DEF Reserve, ThreadTyped
  <2> QED BY <1>0, <1>9, <2>2, <2>3 DEF Reserve, ThreadOK, Reads
<1>10. ASSUME ReadRaises(t) PROVE Good
  <2>1. CASE ctx[t] \in Reads
    <3>1. /\ found' = [found EXCEPT ![t] = "error"]
          /\ pc' = [pc EXCEPT ![t] = "judge"]
          /\ UNCHANGED <<op, ctx, saw, rid, lane, up>>
      BY <1>10, <2>1 DEF ReadRaises, Reads
    <3>2. ThreadTyped' /\ OthersKeep(t)
      BY <1>0, <3>1, LabelFacts DEF ThreadTyped, OthersKeep
    <3>3. pc'[t] = "judge" /\ found'[t] = "error"
      BY <1>0, <3>1 DEF ThreadTyped
    <3> QED BY <1>0, <2>1, <3>1, <3>2, <3>3 DEF ThreadOK, Reads
  <2>2. CASE ctx[t] \notin Reads
    BY <1>0, <1>10, <2>2, LabelFacts, GotoEffect, CallEffect, FinishEffect
       DEF ReadRaises, GrantFails, ThreadOK, Reads
  <2> QED BY <2>1, <2>2
<1> USE <1>0, LabelFacts, GotoEffect, CallEffect, FinishEffect DEF GrantFails
<1>11. ASSUME DropSched(t) PROVE Good
  BY <1>11 DEF DropSched, ThreadOK, Reads
<1>12. ASSUME DropScript(t) PROVE Good
  BY <1>12 DEF DropScript, ThreadOK, Reads
<1>13. ASSUME Refuse(t) PROVE Good
  BY <1>13 DEF Refuse, ThreadOK, Reads
<1>14. ASSUME Grant(t) PROVE Good
  BY <1>14 DEF Grant, ThreadOK, Reads
<1>15. ASSUME AddScript(t) PROVE Good
  BY <1>15 DEF AddScript, ThreadOK, Reads
<1>16. ASSUME AddSched(t) PROVE Good
  BY <1>16 DEF AddSched, ThreadOK, Reads
<1>17. ASSUME Extend(t) PROVE Good
  BY <1>17 DEF Extend, ThreadOK, Reads
<1>18. ASSUME Rearm(t) PROVE Good
  BY <1>18 DEF Rearm, ThreadOK, Reads
<1>19. ASSUME Normal(t) PROVE Good
  BY <1>19 DEF Normal, Extending, ThreadOK, Reads
<1>20. ASSUME Bind(t) PROVE Good
  BY <1>20 DEF Bind, ThreadOK, Reads
<1>21. ASSUME Granted(t) PROVE Good
  BY <1>21 DEF Granted, ThreadOK, Reads
<1>22. ASSUME Settle(t) PROVE Good
  BY <1>22 DEF Settle, ThreadOK, Reads
<1>23. ASSUME Complete(t) PROVE Good
  BY <1>23 DEF Complete, ThreadOK, Reads
<1>24. ASSUME Applied(t) PROVE Good
  BY <1>24 DEF Applied, ThreadOK, Reads
<1>25. ASSUME Refund(t) PROVE Good
  BY <1>25 DEF Refund, ThreadOK, Reads
<1>26. ASSUME Cancelling(t) PROVE Good
  BY <1>26 DEF Cancelling, ThreadOK, Reads
<1>27. ASSUME Disable(t) PROVE Good
  BY <1>27 DEF Disable, ThreadOK, Reads
<1>28. ASSUME Restore(t) PROVE Good
  BY <1>28 DEF Restore, ThreadOK, Reads
<1>29. ASSUME Reenable(t) PROVE Good
  BY <1>29 DEF Reenable, ThreadOK, Reads
<1>30. ASSUME Enforcing(t) PROVE Good
  BY <1>30 DEF Enforcing, ThreadOK, Reads
<1>31. ASSUME WriteRestricted(t) PROVE Good
  BY <1>31 DEF WriteRestricted, ThreadOK, Reads
<1>32. ASSUME ReadDone(t) PROVE Good
  BY <1>32 DEF ReadDone, ThreadOK, Reads
<1>33. ASSUME AddRaises(t) PROVE Good
  BY <1>33 DEF AddRaises, ThreadOK, Reads
<1>34. ASSUME ExtendRaises(t) PROVE Good
  BY <1>34 DEF ExtendRaises, ThreadOK, Reads
<1>35. ASSUME NormalRaises(t) PROVE Good
  BY <1>35 DEF NormalRaises, Extending, ThreadOK, Reads
<1>36. ASSUME BindRaises(t) PROVE Good
  BY <1>36 DEF BindRaises, ThreadOK, Reads
<1>37. ASSUME RestoreRaises(t) PROVE Good
  BY <1>37 DEF RestoreRaises, ThreadOK, Reads
<1>38. ASSUME CancelRaises(t) PROVE Good
  BY <1>38 DEF CancelRaises, ThreadOK, Reads
<1>39. ASSUME RestrictRaises(t) PROVE Good
  BY <1>39 DEF RestrictRaises, ThreadOK, Reads
<1>40. Good
  BY ONLY <1>1, <1>2, <1>3, <1>4, <1>5, <1>6, <1>7, <1>8, <1>9, <1>10, <1>11, <1>12,
     <1>13, <1>14, <1>15, <1>16, <1>17, <1>18, <1>19, <1>20, <1>21, <1>22, <1>23, <1>24,
     <1>25, <1>26, <1>27, <1>28, <1>29, <1>30, <1>31, <1>32, <1>33, <1>34, <1>35, <1>36,
     <1>37, <1>38, <1>39, <1>41, <1>42, StepOf(t)
   DEF StepOf, Requests, Continue, Raises
<1> QED BY ONLY <1>40, <1>0, FlowStep, t \in Threads

-----------------------------------------------------------------------------
(* Which steps of a thread change what.                           *)

\* What a step of a thread may do to the scheduler, its script and the history of
\* the guard, by the call the thread is at.
DeviceEffect(t) ==
  \/ UNCHANGED <<sched, script, lapsed>>
  \/ pc[t] = "dropSched" /\ SchedRemoved(t) /\ UNCHANGED script
  \/ /\ pc[t] = "dropScript" \/ (pc[t] = "readScript" /\ saw[t].state = "none")
     /\ ScriptRemoved(t) /\ UNCHANGED sched
  \/ pc[t] = "addScript" /\ script' = TRUE /\ UNCHANGED <<sched, lapsed>>
  \/ pc[t] = "addSched" /\ SchedAdded(NewSched) /\ UNCHANGED script
  \/ pc[t] = "rearm" /\ SchedExtended(t) /\ UNCHANGED script
  \/ pc[t] = "bind" /\ SchedBound(t) /\ UNCHANGED <<script, lapsed>>
  \/ pc[t] = "disable" /\ SchedDisabled /\ UNCHANGED script
  \/ pc[t] = "reenable" /\ SchedEnabled /\ UNCHANGED script

LEMMA DeviceSteps ==
  ASSUME NEW t \in Threads, StepOf(t)
  PROVE  DeviceEffect(t)
<1>1. ASSUME Requests(t) \/ Observe(t) \/ Enforce(t) PROVE DeviceEffect(t)
  BY <1>1 DEF Requests, Redeem, Start, Cancel, Reader, Recheck, Observe, Enforce,
              UserBegins, Begin, device, DeviceEffect
<1>2. ASSUME \/ ReadSched(t) \/ Reserve(t) \/ Refuse(t) \/ Grant(t) \/ Extend(t)
             \/ Granted(t) \/ Settle(t) \/ Complete(t) \/ Applied(t) \/ Refund(t)
             \/ Cancelling(t) \/ Observed(t) \/ Enforcing(t) \/ ReadDone(t)
      PROVE  DeviceEffect(t)
  BY <1>2 DEF ReadSched, Reserve, Refuse, Grant, Extend, Granted, Settle, Complete,
     Applied, Refund, Cancelling, Observed, Enforcing, ReadDone, device, DeviceEffect
<1>3. ASSUME \/ Normal(t) \/ NormalRaises(t) \/ Restore(t) \/ RestoreRaises(t)
             \/ WriteRestricted(t) \/ RestrictRaises(t)
      PROVE  DeviceEffect(t)
  BY <1>3 DEF Normal, NormalRaises, Restore, RestoreRaises, WriteRestricted,
     RestrictRaises, DeviceEffect
<1>4. ASSUME ReadScript(t) \/ DropSched(t) \/ DropScript(t) PROVE DeviceEffect(t)
  BY <1>4 DEF ReadScript, OrphanRemoved, DropSched, DropScript, DeviceEffect
<1>5. ASSUME AddScript(t) \/ AddSched(t) \/ Rearm(t) \/ Bind(t)
      PROVE  DeviceEffect(t)
  BY <1>5 DEF AddScript, AddSched, Rearm, Bind, DeviceEffect
<1>6. ASSUME Disable(t) \/ Reenable(t) PROVE DeviceEffect(t)
  BY <1>6 DEF Disable, Reenable, DeviceEffect
<1>7. ASSUME ReadRaises(t) PROVE DeviceEffect(t)
  BY <1>7 DEF ReadRaises, OrphanRemoved, DeviceEffect
<1>8. ASSUME AddRaises(t) \/ ExtendRaises(t) \/ BindRaises(t) \/ CancelRaises(t)
      PROVE  DeviceEffect(t)
  BY <1>8 DEF AddRaises, ExtendRaises, BindRaises, CancelRaises, DeviceEffect
<1> QED BY ONLY <1>1, <1>2, <1>3, <1>4, <1>5, <1>6, <1>7, <1>8, StepOf(t)
        DEF StepOf, Continue, Raises

\* The scheduler in particular.
SchedEffect(t) ==
  \/ UNCHANGED sched
  \/ sched' = NoSched
  \/ pc[t] = "addSched" /\ sched' = NewSched
  \/ pc[t] = "rearm" /\ sched' = Rearmed(sched, saw[t].ref)
  \/ pc[t] = "bind" /\ SchedBound(t)
  \/ pc[t] = "disable" /\ sched' = [sched EXCEPT !.state = "disabled"]
  \/ pc[t] = "reenable" /\ sched' = [sched EXCEPT !.state = "armed"]

LEMMA SchedSteps ==
  ASSUME NEW t \in Threads, StepOf(t)
  PROVE  SchedEffect(t)
BY DeviceSteps DEF DeviceEffect, SchedEffect, SchedRemoved, SchedAdded, SchedExtended,
   SchedDisabled, SchedEnabled

LEMMA ModeSteps ==
  ASSUME NEW t \in Threads, StepOf(t)
  PROVE  mode' = mode
            \/ Normal(t) \/ NormalRaises(t) \/ Restore(t) \/
            RestoreRaises(t) \/ WriteRestricted(t) \/ RestrictRaises(t)
BY DEF StepOf, Requests, Continue, Raises, device, bank, Redeem, Start, Cancel, Reader,
       Recheck, Observe, Enforce, UserBegins, Begin, ReadSched, ReadScript, DropSched, DropScript,
       Reserve, Refuse, Grant, AddScript, AddSched, Extend, Rearm, Bind, Granted, Settle,
       Complete, Applied, Refund, Cancelling, Disable, Reenable, Observed, Enforcing, ReadDone,
       ReadRaises, AddRaises, ExtendRaises, BindRaises, CancelRaises

LEMMA GrantedSteps ==
  ASSUME NEW t \in Threads, StepOf(t)
  PROVE  granted' = granted
            \/ Normal(t) \/ NormalRaises(t)
BY DEF StepOf, Requests, Continue, Raises, device, bank, Redeem, Start, Cancel, Reader,
       Recheck, Observe, Enforce, UserBegins, Begin, ReadSched, ReadScript, DropSched, DropScript,
       Reserve, Refuse, Grant, AddScript, AddSched, Extend, Rearm, Bind, Granted, Settle,
       Complete, Applied, Refund, Cancelling, Disable, Restore, Reenable, Observed, Enforcing,
       WriteRestricted, ReadDone, ReadRaises, AddRaises, ExtendRaises, BindRaises,
       RestoreRaises, CancelRaises, RestrictRaises

LEMMA BankSteps ==
  ASSUME NEW t \in Threads, StepOf(t)
  PROVE  UNCHANGED bank
            \/ Reserve(t) \/ Refund(t) \/ Applied(t)
BY DEF StepOf, Requests, Continue, Raises, device, bank,
       Redeem, Start, Cancel, Reader, Recheck, Observe, Enforce, UserBegins, Begin,
       ReadSched, ReadScript, DropSched, DropScript, Refuse, Grant,
       AddScript, AddSched, Extend, Rearm, Normal, Bind, Granted, Settle,
       Complete, Cancelling, Disable, Restore, Reenable, Observed, Enforcing,
       WriteRestricted, ReadDone, ReadRaises, AddRaises, ExtendRaises,
       NormalRaises, BindRaises, RestoreRaises, CancelRaises,
       RestrictRaises, WriteNormal

LEMMA BoundsTyped ==
  ASSUME TypeInv, [Next]_vars
  PROVE  ops' \in 0..MaxOps /\ faults' \in 0..MaxFaults /\ crashes' \in 0..MaxCrashes
<1> USE DEF TypeInv, TypeOK, bounds
<1>1. ASSUME NEW t \in Threads, StepOf(t)
      PROVE  /\ ops' = ops \/ (ops < MaxOps /\ ops' = ops + 1)
             /\ faults' = faults \/ (faults < MaxFaults /\ faults' = faults + 1)
             /\ crashes' = crashes
  BY <1>1 DEF StepOf, Requests, Continue, Raises, Fault,
       Redeem, Start, Cancel, Reader, Recheck, Observe, Enforce, UserBegins, Begin,
       ReadSched, ReadScript, DropSched, DropScript, Reserve, Refuse, Grant,
       AddScript, AddSched, Extend, Rearm, Normal, Bind, Granted, Settle,
       Complete, Applied, Refund, Cancelling, Disable, Restore, Reenable, Observed,
       Enforcing, WriteRestricted, ReadDone, ReadRaises, AddRaises,
       ExtendRaises, NormalRaises, BindRaises, RestoreRaises, CancelRaises,
       RestrictRaises, WriteNormal
<1>2. CASE Expire \/ Miss \/ Adjust \/ Boot \/ UNCHANGED vars
  BY <1>2 DEF Expire, Miss, Adjust, Boot, vars
<1>3. CASE Crash
  BY <1>3, BoundsAssumption DEF Crash
<1> QED BY <1>1, <1>2, <1>3, BoundsAssumption DEF Next, StepOf

LEMMA DeviceTyped ==
  ASSUME TypeInv, [Next]_vars
  PROVE  /\ mode' \in {"normal", "restricted"} /\ script' \in BOOLEAN
         /\ lapsed' \in BOOLEAN
         /\ sched' \in SchedRow /\ granted' \in [Ids -> BOOLEAN]
<1> USE DEF TypeInv, TypeOK
<1>1. ASSUME NEW t \in Threads, StepOf(t)
      PROVE  mode' \in {"normal", "restricted"}
  BY <1>1, ModeSteps
     DEF Normal, NormalRaises, WriteNormal, Restore, RestoreRaises, WriteRestricted,
         RestrictRaises
<1>2. ASSUME NEW t \in Threads, StepOf(t)
      PROVE  granted' \in [Ids -> BOOLEAN]
  BY <1>2, GrantedSteps DEF Normal, NormalRaises, WriteNormal
<1>3. ASSUME NEW t \in Threads, StepOf(t)
      PROVE  sched' \in SchedRow
  <2>1. CASE UNCHANGED sched \/ sched' = NoSched \/ sched' = NewSched
    BY <2>1, SchedConstants
  <2>2. CASE sched' = Rearmed(sched, saw[t].ref)
    <3>1. sched \in SchedRow /\ saw[t] \in SchedRow
      OBVIOUS
    <3>2. Rearmed(sched, saw[t].ref) \in SchedRow
      BY ONLY <3>1 DEF Rearmed, SchedRow
    <3> QED BY <2>2, <3>1, <3>2
  <2>3. CASE SchedBound(t)
    BY <2>3 DEF SchedBound, SchedRow
  <2>4. CASE \/ sched' = [sched EXCEPT !.state = "disabled"]
             \/ sched' = [sched EXCEPT !.state = "armed"]
    BY <2>4 DEF SchedRow
  <2> QED BY <1>3, <2>1, <2>2, <2>3, <2>4, SchedSteps DEF SchedEffect
<1>4. ASSUME NEW t \in Threads, StepOf(t)
      PROVE  script' \in BOOLEAN /\ lapsed' \in BOOLEAN
  BY <1>4, DeviceSteps
     DEF DeviceEffect, SchedRemoved, ScriptRemoved, SchedAdded, SchedExtended,
         SchedDisabled, SchedEnabled
<1>5. CASE Expire \/ Miss
  BY <1>5 DEF Expire, Miss, Expired, SchedRow
<1>6. CASE Adjust \/ Crash \/ Boot \/ UNCHANGED vars
  BY <1>6 DEF Adjust, Crash, Boot, vars, device
<1> QED BY <1>1, <1>2, <1>3, <1>4, <1>5, <1>6 DEF Next, StepOf

\* The balance and the reservations change together.
LEMMA BankTyped ==
  ASSUME TypeInv, [Next]_vars
  PROVE  /\ balance' \in 0..MaxCredit /\ credit' \in 0..MaxCredit
         /\ status' \in [Ids -> Statuses]
         /\ Solvent'
<1>0. /\ balance \in 0..MaxCredit /\ credit \in 0..MaxCredit
      /\ status \in [Ids -> Statuses] /\ Solvent /\ MaxCredit \in Nat
  BY BoundsAssumption DEF TypeInv, TypeOK, Statuses
<1> DEFINE N(st) == Cardinality(With(st, Held))
<1>00. /\ Solvent <=> balance + N(status) <= credit
       /\ Solvent' <=> balance' + N(status') <= credit'
  BY DEF Solvent, Reserved, With, Held
<1>1. CASE UNCHANGED bank
  BY <1>0, <1>00, <1>1 DEF bank
<1>2. ASSUME NEW t \in Threads, Reserve(t)
      PROVE  /\ balance' \in 0..MaxCredit /\ credit' \in 0..MaxCredit
             /\ status' \in [Ids -> Statuses] /\ Solvent'
  <2>1. PICK i \in Ids : status[i] = "none" /\ status' = [status EXCEPT ![i] = "reserved"]
    BY <1>2 DEF Reserve
  <2>2. N(status') = N(status) + 1 /\ N(status) \in Nat
    <3>1. /\ status' \in [Ids -> Statuses] /\ status'[i] = "reserved"
          /\ \A j \in Ids \ {i} : status'[j] = status[j]
      BY <1>0, <2>1, HeldFacts
    <3>2. status[i] = "none"
      BY <2>1
    <3> QED BY <1>0, <3>1, <3>2, HeldFacts, CountUpdate
  <2>3. balance' = balance - 1 /\ balance > 0 /\ credit' = credit
    BY <1>2 DEF Reserve
  <2>4. status' \in [Ids -> Statuses]
    BY <1>0, <2>1 DEF Statuses
  <2> HIDE DEF N
  <2> QED BY <1>0, <1>00, <2>2, <2>3, <2>4
<1>3. ASSUME NEW t \in Threads, Refund(t)
      PROVE  /\ balance' \in 0..MaxCredit /\ credit' \in 0..MaxCredit
             /\ status' \in [Ids -> Statuses] /\ Solvent'
  <2>0. rid[t] \in Ids
    BY <1>3 DEF Refund, TypeInv, FlowOK, ThreadOK
  <2>1. CASE status[rid[t]] = "reserved"
    <3>1. status' = [status EXCEPT ![rid[t]] = "refunded"] /\ balance' = balance + 1 /\ credit' = credit
      BY <1>3, <2>1 DEF Refund
    <3>2. N(status') = N(status) - 1 /\ N(status) \in Nat /\ N(status') \in Nat
      <4>1. /\ status' \in [Ids -> Statuses] /\ status'[rid[t]] = "refunded"
            /\ \A j \in Ids \ {rid[t]} : status'[j] = status[j]
        BY <1>0, <2>0, <3>1, HeldFacts
      <4> QED BY <1>0, <2>0, <2>1, <4>1, HeldFacts, CountUpdate
    <3>3. status' \in [Ids -> Statuses]
      BY <1>0, <3>1 DEF Statuses
    <3> HIDE DEF N
    <3> QED BY <1>0, <1>00, <3>1, <3>2, <3>3
  <2>2. CASE status[rid[t]] # "reserved"
    BY <1>0, <1>1, <1>3, <2>2 DEF Refund, bank
  <2> QED BY <2>1, <2>2
<1>4. ASSUME NEW t \in Threads, Applied(t)
      PROVE  /\ balance' \in 0..MaxCredit /\ credit' \in 0..MaxCredit
             /\ status' \in [Ids -> Statuses] /\ Solvent'
  <2>0. rid[t] \in Ids
    BY <1>4 DEF Applied, TypeInv, TypeOK, AllOps, FlowOK, ThreadOK
  <2>1. status' = [status EXCEPT ![rid[t]] = "applied"] /\ balance' = balance /\ credit' = credit
    BY <1>4 DEF Applied
  <2>2. N(status') <= N(status) /\ N(status) \in Nat /\ N(status') \in Nat
    <3>1. /\ status' \in [Ids -> Statuses] /\ status'[rid[t]] = "applied"
          /\ \A j \in Ids \ {rid[t]} : status'[j] = status[j]
      BY <1>0, <2>0, <2>1, HeldFacts
    <3> QED BY <1>0, <2>0, <3>1, HeldFacts, CountUpdate
  <2>3. status' \in [Ids -> Statuses]
    BY <1>0, <2>1 DEF Statuses
  <2> HIDE DEF N
  <2> QED BY <1>0, <1>00, <2>1, <2>2, <2>3
<1>5. CASE Adjust
  <2>1. N(status) \in Nat /\ status' = status
    BY <1>5, IdsAreFinite DEF Adjust, With, Held
  <2> HIDE DEF N
  <2> QED BY <1>0, <1>00, <1>5, <2>1 DEF Adjust
<1>6. CASE Expire \/ Miss \/ Crash \/ Boot \/ UNCHANGED vars
  BY <1>1, <1>6 DEF Expire, Miss, Crash, Boot, vars, bank
<1> QED BY <1>1, <1>2, <1>3, <1>4, <1>5, <1>6, BankSteps DEF Next, StepOf

\* Start-up recovery begins, or the application serves at once.
LEMMA BootControl ==
  ASSUME TypeInv, Boot
  PROVE  ThreadTyped' /\ FlowOK'
<1>0. ThreadTyped /\ FlowOK
  BY ThreadsTyped
<1>1. CASE UNCHANGED thread /\ up' = TRUE
  BY <1>0, <1>1 DEF Boot, thread, ThreadTyped, FlowOK
<1>2. ASSUME NEW i \in Reserved, NEW t \in Threads,
             op' = [op EXCEPT ![t] = "startup"],
             pc' = [pc EXCEPT ![t] = "readSched"],
             ctx' = [ctx EXCEPT ![t] = "recover"],
             rid' = [rid EXCEPT ![t] = i],
             UNCHANGED <<up, saw, found>>
      PROVE  ThreadTyped' /\ FlowOK'
  <2>1. i \in Ids
    BY DEF Reserved
  <2>2. ThreadTyped' /\ OthersKeep(t)
    BY <1>0, <1>2, <2>1, LabelFacts DEF Boot, ThreadTyped, OthersKeep, Reads
  <2>3. /\ op'[t] = "startup" /\ pc'[t] = "readSched" /\ ctx'[t] = "recover"
        /\ rid'[t] = i /\ found'[t] = found[t]
    BY <1>0, <1>2 DEF ThreadTyped
  <2>4. ThreadOK(op'[t], pc'[t], ctx'[t], found'[t], rid'[t])
    BY <2>1, <2>3 DEF ThreadOK, Reads
  <2> QED BY <1>0, <2>2, <2>4, FlowStep
<1> QED BY <1>1, <1>2 DEF Boot

LEMMA CrashControl ==
  ASSUME TypeInv, Crash
  PROVE  ThreadTyped' /\ FlowOK'
<1>1. ThreadTyped'
  BY SchedConstants, LabelFacts DEF Crash, ThreadTyped
<1>2. FlowOK'
  BY DEF Crash, FlowOK, ThreadOK
<1> QED BY <1>1, <1>2

LEMMA TypeNext == TypeInv /\ [Next]_vars => TypeInv'
<1> SUFFICES ASSUME TypeInv, [Next]_vars PROVE TypeInv'
  OBVIOUS
<1>1. ASSUME NEW t \in Threads, StepOf(t) PROVE ThreadTyped' /\ FlowOK'
  BY <1>1, ControlStep
<1>2. ASSUME Expire \/ Miss \/ Adjust \/ UNCHANGED vars PROVE ThreadTyped' /\ FlowOK'
  <2>1. UNCHANGED <<up, lane, op, pc, ctx, saw, found, rid>>
    BY <1>2 DEF Expire, Miss, Adjust, vars, thread
  <2> QED BY <2>1, ThreadsTyped DEF ThreadTyped, FlowOK
<1>3. ASSUME Boot PROVE ThreadTyped' /\ FlowOK'
  BY <1>3, BootControl
<1>4. ASSUME Crash PROVE ThreadTyped' /\ FlowOK'
  BY <1>4, CrashControl
<1>5. ThreadTyped' /\ FlowOK'
  BY <1>1, <1>2, <1>3, <1>4 DEF Next, StepOf
<1> QED BY <1>5, BoundsTyped, DeviceTyped, BankTyped
         DEF TypeInv, TypeOK, ThreadTyped, Statuses

\* Every reachable state is well typed; in particular the account never holds
\* more than was credited, whatever rechecks, refunds and crashes interleave.
THEOREM TypeCorrect == Spec => []TypeOK
<1>1. TypeInv => TypeOK
  BY DEF TypeInv
<1> QED BY <1>1, TypeInit, TypeNext, PTL DEF Spec

-----------------------------------------------------------------------------
(* A redemption is applied on evidence.                                    *)

\* NORMAL was written for redemption i.
Given(i) == i \in Ids /\ granted[i]

\* What a thread has seen or is about to write is backed by a grant.
Backed(t) ==
  /\ saw[t].ref # NoId => Given(saw[t].ref)
  /\ pc[t] \in {"bind", "complete", "applied"} => Given(rid[t])
  /\ op[t] = "redeem" /\ ctx[t] = "final" => Given(rid[t])

\* The inductive invariant: every reference that is on the scheduler, or that a
\* read returned, is that of a grant.
EvidenceInv ==
  /\ TypeInv
  /\ sched.ref # NoId => Given(sched.ref)
  /\ \A t \in Threads : Backed(t)
  /\ AppliedMeansGranted

LEMMA EvidenceInit == Init => EvidenceInv
<1> SUFFICES ASSUME Init PROVE EvidenceInv
  OBVIOUS
<1>1. sched.ref = NoId /\ \A t \in Threads : Backed(t)
  BY DEF Init, Backed, NoSched
<1>2. AppliedMeansGranted
  BY DEF Init, AppliedMeansGranted
<1> QED BY <1>1, <1>2, TypeInit DEF EvidenceInv

\* A grant is never taken back.
LEMMA GivenStays ==
  ASSUME TypeInv, [Next]_vars, NEW i, Given(i)
  PROVE  Given(i)'
<1>1. granted \in [Ids -> BOOLEAN]
  BY DEF TypeInv, TypeOK
<1>2. ASSUME NEW t \in Threads, Normal(t) \/ NormalRaises(t) PROVE Given(i)'
  BY <1>1, <1>2 DEF Normal, NormalRaises, WriteNormal, Given
<1>3. CASE granted' = granted
  BY <1>3 DEF Given
<1>4. CASE Expire \/ Miss \/ Adjust \/ Crash \/ Boot \/ UNCHANGED vars
  BY <1>3, <1>4 DEF Expire, Miss, Adjust, Crash, Boot, vars
<1> QED BY <1>2, <1>3, <1>4, GrantedSteps DEF Next, StepOf

\* Writing NORMAL for a redemption is its grant.
LEMMA NormalGives ==
  ASSUME NEW t \in Threads, WriteNormal(t), rid[t] \in Ids
  PROVE  rid[t] \in Ids /\ granted'[rid[t]]
BY DEF WriteNormal

\* Every step keeps what a thread relies on backed.
LEMMA BackedStep ==
  ASSUME EvidenceInv, [Next]_vars, NEW t \in Threads, StepOf(t)
  PROVE  Backed(t)'
<1>0. /\ TypeInv /\ ThreadTyped /\ FlowOK
      /\ ThreadOK(op[t], pc[t], ctx[t], found[t], rid[t]) /\ Backed(t)
  BY ThreadsTyped DEF EvidenceInv, FlowOK
<1>00. /\ NoSched.ref = NoId /\ NoId \notin Ids
       /\ \A i : Given(i) => Given(i)'
  BY <1>0, GivenStays, BoundsAssumption DEF NoSched, NoId, Ids
<1>1. ASSUME Redeem(t) PROVE Backed(t)'
  <2>1. Begin(t, "redeem", "pre") /\ rid' = rid
    BY <1>1 DEF Redeem, UserBegins
  <2> QED BY <1>0, <1>00, <2>1, BeginEffect, LabelFacts DEF AllOps, Backed, Reads
<1>2. ASSUME Start(t) PROVE Backed(t)'
  <2>1. Begin(t, "start", "grant") /\ rid' = rid
    BY <1>2 DEF Start, UserBegins
  <2> QED BY <1>0, <1>00, <2>1, BeginEffect, LabelFacts DEF AllOps, Backed, Reads
<1>3. ASSUME Cancel(t) PROVE Backed(t)'
  <2>1. Begin(t, "cancel", "cancel") /\ rid' = rid
    BY <1>3 DEF Cancel, UserBegins
  <2> QED BY <1>0, <1>00, <2>1, BeginEffect, LabelFacts DEF AllOps, Backed, Reads
<1>4. ASSUME Reader(t) PROVE Backed(t)'
  <2>1. Begin(t, "reader", "reader") /\ rid' = rid
    BY <1>4 DEF Reader, UserBegins
  <2> QED BY <1>0, <1>00, <2>1, BeginEffect, LabelFacts DEF AllOps, Backed, Reads
<1>5. ASSUME Enforce(t) PROVE Backed(t)'
  <2>1. Begin(t, "enforce", "enforce") /\ rid' = rid
    BY <1>5 DEF Enforce
  <2> QED BY <1>0, <1>00, <2>1, BeginEffect, LabelFacts DEF AllOps, Backed, Reads
<1>40. ASSUME Observe(t) PROVE Backed(t)'
  <2>1. /\ UNCHANGED <<saw, rid>> /\ op'[t] = "observe" /\ pc'[t] = "readSched"
    BY <1>0, <1>40 DEF Observe, Begin, ThreadTyped
  <2> QED BY <1>0, <1>00, <2>1 DEF Backed
<1>41. ASSUME Observed(t) PROVE Backed(t)'
  <2>1. CASE pc' = [pc EXCEPT ![t] = "readSched"] /\ op' = [op EXCEPT ![t] = "enforce"]
             /\ saw' = [saw EXCEPT ![t] = NoSched]
    <3>1. pc'[t] = "readSched" /\ op'[t] = "enforce" /\ saw'[t] = NoSched
      BY <1>0, <2>1 DEF ThreadTyped
    <3> QED BY <1>00, <3>1 DEF Backed
  <2>2. CASE Finish(t)
    BY <1>0, <1>00, <2>2, FinishEffect DEF Backed
  <2> QED BY <1>41, <2>1, <2>2 DEF Observed
<1>6. ASSUME Recheck(t) PROVE Backed(t)'
  <2>1. PICK i \in Ids : Begin(t, "recheck", "recover") /\ rid' = [rid EXCEPT ![t] = i]
    BY <1>6 DEF Recheck, UserBegins, Reserved
  <2> QED BY <1>0, <1>00, <2>1, BeginEffect, LabelFacts DEF AllOps, Backed, Reads
<1>7. ASSUME ReadSched(t) PROVE Backed(t)'
  <2>1. saw'[t] = sched /\ pc'[t] = "readScript" /\ op' = op /\ ctx' = ctx /\ rid' = rid
    BY <1>0, <1>7 DEF ReadSched, ThreadTyped
  <2> QED BY <1>0, <1>00, <2>1 DEF EvidenceInv, Backed
<1>8. ASSUME ReadScript(t) PROVE Backed(t)'
  <2>1. /\ pc'[t] \in {"dropSched", "judge"}
        /\ saw' = saw /\ op' = op /\ ctx' = ctx /\ rid' = rid
    BY <1>0, <1>8 DEF ReadScript, ThreadTyped
  <2> QED BY <1>0, <1>00, <2>1 DEF Backed
<1>9. ASSUME Reserve(t) PROVE Backed(t)'
  <2>1. /\ pc'[t] = "readSched" /\ ctx'[t] = "grant" /\ saw'[t] = NoSched
    BY <1>0, <1>9 DEF Reserve, ThreadTyped
  <2> QED BY <1>0, <1>00, <2>1 DEF Backed
<1>10. ASSUME ReadRaises(t) PROVE Backed(t)'
  <2>1. CASE ctx[t] \in Reads
    <3>1. /\ pc' = [pc EXCEPT ![t] = "judge"]
          /\ UNCHANGED <<op, ctx, saw, rid, lane, up>>
      BY <1>10, <2>1 DEF ReadRaises, Reads
    <3>2. pc'[t] = "judge"
      BY <1>0, <3>1 DEF ThreadTyped
    <3> QED BY <1>0, <1>00, <3>1, <3>2 DEF Backed
  <2>2. CASE ctx[t] \notin Reads
    BY <1>0, <1>00, <1>10, <2>2, LabelFacts, GotoEffect, CallEffect, FinishEffect
       DEF ReadRaises, GrantFails, Backed, Reads
  <2> QED BY <2>1, <2>2
<1>11. ASSUME Normal(t) PROVE Backed(t)'
  <2>1. op[t] = "redeem" => Given(rid[t])'
    <3>1. ASSUME op[t] = "redeem" PROVE rid[t] \in Ids /\ granted'[rid[t]]
      BY <1>0, <1>11, <3>1, NormalGives DEF Normal, ThreadOK
    <3>2. rid'[t] = rid[t]
      BY <1>0, <1>11, LabelFacts, GotoEffect, CallEffect DEF Normal, Reads
    <3> QED BY <3>1, <3>2 DEF Given
  <2> QED BY <1>0, <1>00, <1>11, <2>1, LabelFacts, GotoEffect, CallEffect
          DEF Normal, Backed, Reads
<1> USE <1>0, <1>00, LabelFacts, GotoEffect, CallEffect, FinishEffect DEF GrantFails
<1>12. ASSUME Bind(t) PROVE Backed(t)'
  BY <1>12 DEF Bind, Backed, ThreadOK, Reads
<1>13. ASSUME Granted(t) PROVE Backed(t)'
  BY <1>13 DEF Granted, Backed, ThreadOK, Reads
<1>14. ASSUME Settle(t) PROVE Backed(t)'
  BY <1>14 DEF Settle, Backed, ThreadOK, Reads
<1>15. ASSUME Complete(t) PROVE Backed(t)'
  BY <1>15 DEF Complete, Backed, ThreadOK, Reads
<1>16. ASSUME DropSched(t) PROVE Backed(t)'
  BY <1>16 DEF DropSched, Backed, ThreadOK, Reads
<1>17. ASSUME DropScript(t) PROVE Backed(t)'
  BY <1>17 DEF DropScript, Backed, ThreadOK, Reads
<1>18. ASSUME Refuse(t) PROVE Backed(t)'
  BY <1>18 DEF Refuse, Backed, ThreadOK, Reads
<1>19. ASSUME Grant(t) PROVE Backed(t)'
  BY <1>19 DEF Grant, Backed, ThreadOK, Reads
<1>20. ASSUME AddScript(t) PROVE Backed(t)'
  BY <1>20 DEF AddScript, Backed, ThreadOK, Reads
<1>21. ASSUME AddSched(t) PROVE Backed(t)'
  BY <1>21 DEF AddSched, Backed, ThreadOK, Reads
<1>22. ASSUME Extend(t) PROVE Backed(t)'
  BY <1>22 DEF Extend, Backed, ThreadOK, Reads
<1>23. ASSUME Rearm(t) PROVE Backed(t)'
  BY <1>23 DEF Rearm, Backed, ThreadOK, Reads
<1>24. ASSUME Applied(t) PROVE Backed(t)'
  BY <1>24 DEF Applied, Backed, ThreadOK, Reads
<1>25. ASSUME Refund(t) PROVE Backed(t)'
  BY <1>25 DEF Refund, Backed, ThreadOK, Reads
<1>26. ASSUME Cancelling(t) PROVE Backed(t)'
  BY <1>26 DEF Cancelling, Backed, ThreadOK, Reads
<1>27. ASSUME Disable(t) PROVE Backed(t)'
  BY <1>27 DEF Disable, Backed, ThreadOK, Reads
<1>28. ASSUME Restore(t) PROVE Backed(t)'
  BY <1>28 DEF Restore, Backed, ThreadOK, Reads
<1>29. ASSUME Reenable(t) PROVE Backed(t)'
  BY <1>29 DEF Reenable, Backed, ThreadOK, Reads
<1>30. ASSUME Enforcing(t) PROVE Backed(t)'
  BY <1>30 DEF Enforcing, Backed, ThreadOK, Reads
<1>31. ASSUME WriteRestricted(t) PROVE Backed(t)'
  BY <1>31 DEF WriteRestricted, Backed, ThreadOK, Reads
<1>32. ASSUME ReadDone(t) PROVE Backed(t)'
  BY <1>32 DEF ReadDone, Backed, ThreadOK, Reads
<1>33. ASSUME AddRaises(t) PROVE Backed(t)'
  BY <1>33 DEF AddRaises, Backed, ThreadOK, Reads
<1>34. ASSUME ExtendRaises(t) PROVE Backed(t)'
  BY <1>34 DEF ExtendRaises, Backed, ThreadOK, Reads
<1>35. ASSUME NormalRaises(t) PROVE Backed(t)'
  BY <1>35 DEF NormalRaises, Backed, ThreadOK, Reads
<1>36. ASSUME BindRaises(t) PROVE Backed(t)'
  BY <1>36 DEF BindRaises, Backed, ThreadOK, Reads
<1>37. ASSUME RestoreRaises(t) PROVE Backed(t)'
  BY <1>37 DEF RestoreRaises, Backed, ThreadOK, Reads
<1>38. ASSUME CancelRaises(t) PROVE Backed(t)'
  BY <1>38 DEF CancelRaises, Backed, ThreadOK, Reads
<1>39. ASSUME RestrictRaises(t) PROVE Backed(t)'
  BY <1>39 DEF RestrictRaises, Backed, ThreadOK, Reads
<1> QED
  BY ONLY <1>1, <1>2, <1>3, <1>4, <1>5, <1>6, <1>7, <1>8, <1>9, <1>10,
     <1>11, <1>12, <1>13, <1>14, <1>15, <1>16, <1>17, <1>18, <1>19, <1>20,
     <1>21, <1>22, <1>23, <1>24, <1>25, <1>26, <1>27, <1>28, <1>29, <1>30,
     <1>31, <1>32, <1>33, <1>34, <1>35, <1>36, <1>37, <1>38, <1>39, <1>40, <1>41,
     StepOf(t)
     DEF StepOf, Requests, Continue, Raises

LEMMA EvidenceNext == EvidenceInv /\ [Next]_vars => EvidenceInv'
<1> SUFFICES ASSUME EvidenceInv, [Next]_vars PROVE EvidenceInv'
  OBVIOUS
<1>0. /\ TypeInv /\ TypeInv' /\ ThreadTyped /\ FlowOK
      /\ \A t \in Threads : Backed(t)
      /\ \A i : Given(i) => Given(i)'
      /\ sched \in SchedRow /\ NoSched.ref = NoId /\ NewSched.ref = NoId
  BY TypeNext, ThreadsTyped, GivenStays DEF EvidenceInv, TypeInv, TypeOK, NoSched, NewSched
<1>1. \A t \in Threads : Backed(t)'
  <2>1. ASSUME NEW t \in Threads, StepOf(t), NEW u \in Threads PROVE Backed(u)'
    <3>1. CASE u = t
      BY <2>1, <3>1, BackedStep
    <3>2. CASE u # t
      BY <1>0, <2>1, <3>2, ControlStep DEF OthersKeep, Backed
    <3> QED BY <3>1, <3>2
  <2>2. ASSUME Expire \/ Miss \/ Adjust \/ UNCHANGED vars, NEW u \in Threads PROVE Backed(u)'
    <3>1. UNCHANGED <<op, pc, ctx, saw, rid>>
      BY <2>2 DEF Expire, Miss, Adjust, vars, thread
    <3> QED BY <1>0, <3>1 DEF Backed
  <2>3. ASSUME Crash, NEW u \in Threads PROVE Backed(u)'
    BY <1>0, <2>3 DEF Crash, Backed
  <2>4. ASSUME Boot, NEW u \in Threads PROVE Backed(u)'
    <3>1. saw' = saw /\ (UNCHANGED <<op, pc, ctx, rid>>
            \/ \E t \in Threads : /\ op' = [op EXCEPT ![t] = "startup"]
                                  /\ pc' = [pc EXCEPT ![t] = "readSched"]
                                  /\ \E i \in Ids : rid' = [rid EXCEPT ![t] = i]
                                  /\ ctx' = [ctx EXCEPT ![t] = "recover"])
      BY <2>4 DEF Boot, thread, Reserved
    <3> QED BY <1>0, <3>1 DEF Backed, ThreadTyped
  <2> QED BY <2>1, <2>2, <2>3, <2>4 DEF Next, StepOf
<1>2. (sched.ref # NoId => Given(sched.ref))'
  <2>1. ASSUME sched'.ref = sched.ref \/ sched'.ref = NoId
        PROVE  (sched.ref # NoId => Given(sched.ref))'
    BY <1>0, <2>1 DEF EvidenceInv
  <2>2. ASSUME NEW t \in Threads, sched' = Rearmed(sched, saw[t].ref)
        PROVE  (sched.ref # NoId => Given(sched.ref))'
    BY <1>0, <2>2 DEF Backed, Rearmed
  <2>3. ASSUME NEW t \in Threads, pc[t] = "bind", SchedBound(t)
        PROVE  (sched.ref # NoId => Given(sched.ref))'
    <3>1. sched'.ref = rid[t]
      BY <1>0, <2>3 DEF SchedBound, SchedRow
    <3>2. Given(rid[t])
      BY <1>0, <2>3 DEF Backed
    <3> QED BY <1>0, <3>1, <3>2
  <2>4. ASSUME \/ sched' \in {sched, NoSched, NewSched}
               \/ sched' = [sched EXCEPT !.state = "disabled"]
               \/ sched' = [sched EXCEPT !.state = "armed"]
        PROVE  (sched.ref # NoId => Given(sched.ref))'
    <3>1. sched'.ref = sched.ref \/ sched'.ref = NoId
      BY <1>0, <2>4 DEF SchedRow
    <3> QED BY <2>1, <3>1
  <2>5. ASSUME Expire \/ Miss PROVE (sched.ref # NoId => Given(sched.ref))'
    <3>1. sched'.ref = sched.ref
      BY <1>0, <2>5 DEF Expire, Miss, Expired, SchedRow
    <3> QED BY <2>1, <3>1
  <2>6. ASSUME Adjust \/ Crash \/ Boot \/ UNCHANGED vars PROVE sched' = sched
    BY <2>6 DEF Adjust, Crash, Boot, vars, device
  <2>7. ASSUME NEW t \in Threads, StepOf(t)
        PROVE  (sched.ref # NoId => Given(sched.ref))'
    BY <2>2, <2>3, <2>4, <2>7, SchedSteps DEF SchedEffect
  <2> QED BY <2>4, <2>5, <2>6, <2>7 DEF Next, StepOf
<1>3. AppliedMeansGranted'
  <2>1. ASSUME NEW i \in Ids, status'[i] = "applied" PROVE granted'[i]
    <3>1. ASSUME status[i] = "applied" PROVE granted'[i]
      BY <1>0, <3>1 DEF EvidenceInv, AppliedMeansGranted, Given
    <3>2. ASSUME NEW t \in Threads, Applied(t) PROVE granted'[i]
      <4>1. status \in [Ids -> Statuses] /\ status' = [status EXCEPT ![rid[t]] = "applied"]
        BY <1>0, <3>2 DEF Applied, TypeInv, TypeOK, Statuses
      <4>2. CASE i = rid[t]
        BY <1>0, <3>2, <4>2 DEF Applied, Backed, Given
      <4>3. CASE i # rid[t]
        BY <2>1, <3>1, <4>1, <4>3
      <4> QED BY <4>2, <4>3
    <3>3. ASSUME NEW t \in Threads, Reserve(t) \/ Refund(t) PROVE status[i] = "applied"
      <4>1. \/ status' = status
            \/ \E j \in Ids : status' = [status EXCEPT ![j] = "reserved"]
            \/ status' = [status EXCEPT ![rid[t]] = "refunded"]
        BY <3>3 DEF Reserve, Refund
      <4>2. status \in [Ids -> Statuses]
        BY <1>0 DEF TypeInv, TypeOK, Statuses
      <4> QED BY <2>1, <4>1, <4>2
    <3>4. ASSUME Expire \/ Miss \/ Adjust \/ Crash \/ Boot \/ UNCHANGED vars PROVE status' = status
      BY <3>4 DEF Expire, Miss, Adjust, Crash, Boot, vars, bank
    <3> QED BY <2>1, <3>1, <3>2, <3>3, <3>4, BankSteps DEF Next, StepOf, bank
  <2> QED BY <2>1 DEF AppliedMeansGranted
<1> QED BY <1>0, <1>1, <1>2, <1>3 DEF EvidenceInv

\* For any operations, faults and crashes: a redemption is marked applied only
\* if NORMAL was written for it, so recovery never charges for nothing.
THEOREM AppliedRedemptionsWereGranted == Spec => []AppliedMeansGranted
<1>1. EvidenceInv => AppliedMeansGranted
  BY DEF EvidenceInv
<1> QED BY <1>1, EvidenceInit, EvidenceNext, PTL DEF Spec

-----------------------------------------------------------------------------
(* Who owns the mutation lane, and who may touch the scheduler.      *)

\* A thread begins an operation, ends it, or goes on with it.
Begins(t) ==
  \E o \in Ops : /\ up /\ pc[t] = "idle" /\ op'[t] = o /\ up' = up
                 /\ o \in LaneOps => lane = None
                 /\ lane' = (IF o \in LaneOps THEN t ELSE lane)
Ends(t) ==
  /\ op'[t] = "none" /\ pc'[t] = "idle"
  /\ lane' = (IF lane = t THEN None ELSE lane)
  /\ up' = (up \/ op[t] = "startup")
\* An observation goes on as enforcement.
Takes(t) ==
  /\ pc[t] = "judge" /\ ctx[t] = "observe" /\ pc'[t] = "readSched"
  /\ op'[t] = "enforce" /\ lane = None /\ lane' = t /\ up' = up
GoesOn(t) == pc[t] # "idle" /\ op'[t] = op[t] /\ lane' = lane /\ up' = up

LEMMA TurnStep ==
  ASSUME TypeInv, NEW t \in Threads, StepOf(t)
  PROVE  Begins(t) \/ Takes(t) \/ Ends(t) \/ GoesOn(t)
<1>0. ThreadTyped
  BY ThreadsTyped
<1>1. ASSUME NEW o \in AllOps, NEW c \in Contexts, Begin(t, o, c) PROVE Begins(t)
  BY <1>0, <1>1 DEF Begin, Begins, ThreadTyped
<1>2. ASSUME Redeem(t) PROVE Begins(t)
  BY <1>1, <1>2, LabelFacts DEF Redeem, UserBegins, AllOps, Reads
<1>3. ASSUME Start(t) PROVE Begins(t)
  BY <1>1, <1>3, LabelFacts DEF Start, UserBegins, AllOps, Reads
<1>4. ASSUME Cancel(t) PROVE Begins(t)
  BY <1>1, <1>4, LabelFacts DEF Cancel, UserBegins, AllOps, Reads
<1>5. ASSUME Reader(t) PROVE Begins(t)
  BY <1>1, <1>5, LabelFacts DEF Reader, UserBegins, AllOps, Reads
<1>6. ASSUME Recheck(t) PROVE Begins(t)
  BY <1>1, <1>6, LabelFacts DEF Recheck, UserBegins, AllOps, Reads
<1>7. ASSUME Enforce(t) PROVE Begins(t)
  BY <1>1, <1>7, LabelFacts DEF Enforce, AllOps, Reads
<1>41. ASSUME Observe(t) PROVE Begins(t)
  BY <1>0, <1>41 DEF Observe, Begin, Begins, ThreadTyped
<1>42. ASSUME Observed(t) PROVE Takes(t) \/ Ends(t)
  <2>1. CASE lane' = t /\ lane = None /\ op' = [op EXCEPT ![t] = "enforce"]
             /\ pc' = [pc EXCEPT ![t] = "readSched"] /\ UNCHANGED <<rid, up>>
    BY <1>0, <1>42, <2>1 DEF Observed, Takes, ThreadTyped
  <2>2. CASE Finish(t)
    BY <1>0, <2>2, FinishEffect DEF Ends
  <2> QED BY <1>42, <2>1, <2>2 DEF Observed
<1>8. ASSUME ReadSched(t) PROVE GoesOn(t)
  BY <1>8 DEF ReadSched, GoesOn
<1>9. ASSUME ReadScript(t) PROVE GoesOn(t)
  BY <1>9 DEF ReadScript, GoesOn
<1>10. ASSUME Reserve(t) PROVE GoesOn(t)
  BY <1>10 DEF Reserve, GoesOn
<1> USE <1>0, LabelFacts, GotoEffect, CallEffect, FinishEffect DEF GrantFails, Reads
<1>11. ASSUME DropSched(t) PROVE Ends(t) \/ GoesOn(t)
  BY <1>11 DEF DropSched, Ends, GoesOn
<1>12. ASSUME DropScript(t) PROVE Ends(t) \/ GoesOn(t)
  BY <1>12 DEF DropScript, Ends, GoesOn
<1>13. ASSUME Refuse(t) PROVE Ends(t) \/ GoesOn(t)
  BY <1>13 DEF Refuse, Ends, GoesOn
<1>14. ASSUME Grant(t) PROVE Ends(t) \/ GoesOn(t)
  BY <1>14 DEF Grant, Ends, GoesOn
<1>15. ASSUME AddScript(t) PROVE Ends(t) \/ GoesOn(t)
  BY <1>15 DEF AddScript, Ends, GoesOn
<1>16. ASSUME AddSched(t) PROVE Ends(t) \/ GoesOn(t)
  BY <1>16 DEF AddSched, Ends, GoesOn
<1>17. ASSUME Extend(t) PROVE Ends(t) \/ GoesOn(t)
  BY <1>17 DEF Extend, Ends, GoesOn
<1>18. ASSUME Rearm(t) PROVE Ends(t) \/ GoesOn(t)
  BY <1>18 DEF Rearm, Ends, GoesOn
<1>19. ASSUME Normal(t) PROVE Ends(t) \/ GoesOn(t)
  BY <1>19 DEF Normal, Ends, GoesOn
<1>20. ASSUME Bind(t) PROVE Ends(t) \/ GoesOn(t)
  BY <1>20 DEF Bind, Ends, GoesOn
<1>21. ASSUME Granted(t) PROVE Ends(t) \/ GoesOn(t)
  BY <1>21 DEF Granted, Ends, GoesOn
<1>22. ASSUME Settle(t) PROVE Ends(t) \/ GoesOn(t)
  BY <1>22 DEF Settle, Ends, GoesOn
<1>23. ASSUME Complete(t) PROVE Ends(t) \/ GoesOn(t)
  BY <1>23 DEF Complete, Ends, GoesOn
<1>24. ASSUME Applied(t) PROVE Ends(t) \/ GoesOn(t)
  BY <1>24 DEF Applied, Ends, GoesOn
<1>25. ASSUME Refund(t) PROVE Ends(t) \/ GoesOn(t)
  BY <1>25 DEF Refund, Ends, GoesOn
<1>26. ASSUME Cancelling(t) PROVE Ends(t) \/ GoesOn(t)
  BY <1>26 DEF Cancelling, Ends, GoesOn
<1>27. ASSUME Disable(t) PROVE Ends(t) \/ GoesOn(t)
  BY <1>27 DEF Disable, Ends, GoesOn
<1>28. ASSUME Restore(t) PROVE Ends(t) \/ GoesOn(t)
  BY <1>28 DEF Restore, Ends, GoesOn
<1>29. ASSUME Reenable(t) PROVE Ends(t) \/ GoesOn(t)
  BY <1>29 DEF Reenable, Ends, GoesOn
<1>30. ASSUME Enforcing(t) PROVE Ends(t) \/ GoesOn(t)
  BY <1>30 DEF Enforcing, Ends, GoesOn
<1>31. ASSUME WriteRestricted(t) PROVE Ends(t) \/ GoesOn(t)
  BY <1>31 DEF WriteRestricted, Ends, GoesOn
<1>32. ASSUME ReadDone(t) PROVE Ends(t) \/ GoesOn(t)
  BY <1>32 DEF ReadDone, Ends, GoesOn
<1>33. ASSUME ReadRaises(t) PROVE Ends(t) \/ GoesOn(t)
  BY <1>33 DEF ReadRaises, Ends, GoesOn
<1>34. ASSUME AddRaises(t) PROVE Ends(t) \/ GoesOn(t)
  BY <1>34 DEF AddRaises, Ends, GoesOn
<1>35. ASSUME ExtendRaises(t) PROVE Ends(t) \/ GoesOn(t)
  BY <1>35 DEF ExtendRaises, Ends, GoesOn
<1>36. ASSUME NormalRaises(t) PROVE Ends(t) \/ GoesOn(t)
  BY <1>36 DEF NormalRaises, Ends, GoesOn
<1>37. ASSUME BindRaises(t) PROVE Ends(t) \/ GoesOn(t)
  BY <1>37 DEF BindRaises, Ends, GoesOn
<1>38. ASSUME RestoreRaises(t) PROVE Ends(t) \/ GoesOn(t)
  BY <1>38 DEF RestoreRaises, Ends, GoesOn
<1>39. ASSUME CancelRaises(t) PROVE Ends(t) \/ GoesOn(t)
  BY <1>39 DEF CancelRaises, Ends, GoesOn
<1>40. ASSUME RestrictRaises(t) PROVE Ends(t) \/ GoesOn(t)
  BY <1>40 DEF RestrictRaises, Ends, GoesOn
<1> QED
  BY ONLY <1>2, <1>3, <1>4, <1>5, <1>6, <1>7, <1>8, <1>9, <1>10, <1>11,
     <1>12, <1>13, <1>14, <1>15, <1>16, <1>17, <1>18, <1>19, <1>20, <1>21,
     <1>22, <1>23, <1>24, <1>25, <1>26, <1>27, <1>28, <1>29, <1>30, <1>31,
     <1>32, <1>33, <1>34, <1>35, <1>36, <1>37, <1>38, <1>39, <1>40,
     <1>41, <1>42, StepOf(t)
     DEF StepOf, Requests, Continue, Raises

\* Writers own the lane for as long as their operation lasts, and start-up
\* recovery runs alone.
LaneInv ==
  /\ TypeInv
  /\ \A t \in Threads : op[t] \in LaneOps <=> lane = t
  /\ \A t \in Threads : op[t] \in Ops \cup {"none", "startup", "enforce"}
  /\ \A t \in Threads : op[t] = "startup" => ~up
  /\ ~up => \A t, u \in Threads : op[t] # "none" /\ op[u] # "none" => t = u

LEMMA LaneInit == Init => LaneInv
<1>1. Init => \A t \in Threads : op[t] = "none" /\ lane # t /\ up
  BY ThreadsAssumption DEF Init
<1> QED BY <1>1, TypeInit DEF LaneInv, LaneOps

LEMMA LaneNext == LaneInv /\ [Next]_vars => LaneInv'
<1> SUFFICES ASSUME LaneInv, [Next]_vars PROVE LaneInv'
  OBVIOUS
<1>0. /\ TypeInv /\ TypeInv' /\ ThreadTyped /\ FlowOK /\ None \notin Threads
      /\ "none" \notin LaneOps /\ "startup" \notin LaneOps
      /\ \A t \in Threads : pc[t] = "idle" <=> op[t] = "none"
  <2>1. \A t \in Threads : pc[t] = "idle" <=> op[t] = "none"
    BY ThreadsTyped DEF LaneInv, FlowOK, ThreadOK, ThreadTyped, AllOps
  <2> QED BY <2>1, TypeNext, ThreadsTyped, ThreadsAssumption DEF LaneInv, LaneOps
<1>1. ASSUME NEW t \in Threads, StepOf(t) PROVE LaneInv'
  <2>1. OthersKeep(t)
    BY <1>0, <1>1, ControlStep
  <2>2. CASE Begins(t)
    <3>1. PICK o \in Ops : /\ up /\ pc[t] = "idle" /\ op'[t] = o /\ up' = up
                           /\ o \in LaneOps => lane = None
                           /\ lane' = (IF o \in LaneOps THEN t ELSE lane)
      BY <2>2 DEF Begins
    <3>2. \A u \in Threads : op'[u] \in LaneOps <=> lane' = u
      <4>1. op[t] \notin LaneOps /\ lane # t
        BY <1>0, <3>1 DEF LaneInv
      <4>2. CASE o \in LaneOps
        BY <1>0, <2>1, <3>1, <4>1, <4>2 DEF LaneInv, OthersKeep
      <4>3. CASE o \notin LaneOps
        BY <1>0, <2>1, <3>1, <4>1, <4>3 DEF LaneInv, OthersKeep
      <4> QED BY <4>2, <4>3
    <3>3. \A u \in Threads : op'[u] \in Ops \cup {"none", "startup", "enforce"}
      BY <2>1, <3>1 DEF LaneInv, OthersKeep
    <3>4. \A u \in Threads : op'[u] # "startup"
      BY <2>1, <3>1, OpsAssumption DEF LaneInv, OthersKeep, AllOps
    <3> QED BY <1>0, <3>1, <3>2, <3>3, <3>4 DEF LaneInv
  <2>3. CASE Ends(t)
    <3>1. \A u \in Threads : op'[u] \in LaneOps <=> lane' = u
      <4>1. \A u \in Threads \ {t} : op'[u] \in LaneOps <=> lane' = u
        BY <1>0, <2>1, <2>3 DEF LaneInv, Ends, OthersKeep
      <4>2. op'[t] \notin LaneOps /\ lane' # t
        BY <1>0, <2>3 DEF Ends
      <4> QED BY <4>1, <4>2
    <3>2. \A u \in Threads : op'[u] \in Ops \cup {"none", "startup", "enforce"}
      BY <2>1, <2>3 DEF LaneInv, Ends, OthersKeep
    <3>3. \A u \in Threads : op'[u] = "startup" => ~up'
      <4>1. ASSUME NEW u \in Threads, op'[u] = "startup" PROVE ~up'
        <5>1. u # t /\ op[u] = "startup"
          BY <2>1, <2>3, <4>1 DEF Ends, OthersKeep
        <5>2. ~up
          BY <5>1 DEF LaneInv
        <5>3. op[t] # "startup"
          BY <5>1, <5>2 DEF LaneInv
        <5> QED BY <2>3, <5>2, <5>3 DEF Ends
      <4> QED BY <4>1
    <3>4. ~up' => \A u, w \in Threads : op'[u] # "none" /\ op'[w] # "none" => u = w
      BY <2>1, <2>3 DEF LaneInv, Ends, OthersKeep
    <3> QED BY <1>0, <3>1, <3>2, <3>3, <3>4 DEF LaneInv
  <2>4. CASE GoesOn(t)
    BY <1>0, <2>1, <2>4 DEF LaneInv, GoesOn, OthersKeep
  <2>5. CASE Takes(t)
    <3>1. op[t] # "none" /\ op[t] # "startup"
      BY <1>0, <2>5 DEF Takes, LaneInv, TypeInv, FlowOK, ThreadOK
    <3> QED BY <1>0, <2>1, <2>5, <3>1 DEF LaneInv, Takes, OthersKeep, LaneOps
  <2> QED BY <1>0, <1>1, <2>2, <2>3, <2>4, <2>5, TurnStep
<1>2. ASSUME Expire \/ Miss \/ Adjust \/ UNCHANGED vars PROVE LaneInv'
  <2>1. UNCHANGED <<up, lane, op>>
    BY <1>2 DEF Expire, Miss, Adjust, vars, thread
  <2> QED BY <1>0, <2>1 DEF LaneInv
<1>3. ASSUME Crash PROVE LaneInv'
  BY <1>0, <1>3 DEF Crash, LaneInv
<1>4. ASSUME Boot PROVE LaneInv'
  <2>1. \A t \in Threads : op[t] = "none" /\ lane # t
    BY <1>0, <1>4 DEF Boot, LaneInv
  <2>2. CASE up' = TRUE /\ op' = op
    BY <1>0, <1>4, <2>1, <2>2 DEF Boot, LaneInv
  <2>3. ASSUME NEW t \in Threads, op' = [op EXCEPT ![t] = "startup"], up' = up
        PROVE  LaneInv'
    BY <1>0, <1>4, <2>1, <2>3 DEF Boot, LaneInv, ThreadTyped
  <2> QED BY <1>4, <2>2, <2>3 DEF Boot, thread
<1> QED BY <1>1, <1>2, <1>3, <1>4 DEF Next, StepOf

\* The scheduler's state is changed by owners of the lane; others only remove it.
LEMMA OwnersArm ==
  ASSUME TypeInv, NEW t \in Threads, StepOf(t), op[t] \notin LaneOps
  PROVE  sched' = sched \/ sched' = NoSched
<1>1. op[t] \in {"reader", "recheck", "observe", "startup", "none"}
  BY DEF TypeInv, TypeOK, AllOps, LaneOps
<1>2. ThreadOK(op[t], pc[t], ctx[t], found[t], rid[t])
  BY DEF TypeInv, FlowOK
<1>3. pc[t] \notin {"addSched", "rearm", "bind", "disable", "reenable"}
  BY <1>1, <1>2 DEF ThreadOK
<1> QED BY <1>3, SchedSteps DEF SchedEffect

-----------------------------------------------------------------------------
(* What an owner of the lane knows about the scheduler.           *)

\* The calls before which a thread relies on what it learnt, of the scheduler or
\* of its redemption's status.
Relying == {"readScript", "dropScript", "judge", "restrict", "restore", "applied"}

\* At call l, after a read that returned s and a verdict f, the scheduler is r.
Informed(l, s, f, r) ==
  /\ l = "readScript" /\ s.state = "none" => r.state = "none"
  /\ l = "dropScript" => r.state = "none"
  /\ l = "judge" /\ f = "inactive" => r.state = "none"
  /\ l = "restrict" => r.state = "none"
  /\ l = "restore" => r.state # "armed"

\* The lane keeps everybody else from arming the scheduler meanwhile.
KnowInv ==
  /\ LaneInv
  /\ \A t \in Threads :
       op[t] \in LaneOps => Informed(pc[t], saw[t], found[t], sched)

\* The steps that lead to such a call.
LEMMA RelyingSteps ==
  ASSUME TypeInv, NEW t \in Threads, StepOf(t), pc'[t] \in Relying
  PROVE  ReadSched(t) \/ ReadScript(t) \/ DropSched(t) \/ DropScript(t)
         \/ ReadRaises(t) \/ Disable(t) \/ Enforcing(t) \/ Complete(t)
<1>0. ThreadTyped
  BY ThreadsTyped
<1>1. ASSUME NEW o \in AllOps, NEW c \in Contexts, Begin(t, o, c) PROVE FALSE
  BY <1>0, <1>1 DEF Begin, ThreadTyped, Relying
<1>2. ASSUME Requests(t) \/ Observe(t) \/ Enforce(t) PROVE FALSE
  BY <1>1, <1>2, LabelFacts
     DEF Requests, Redeem, Start, Cancel, Reader, Recheck, Observe, Enforce, UserBegins,
         AllOps, Reads
<1>3. ASSUME Reserve(t) PROVE FALSE
  BY <1>0, <1>3 DEF Reserve, ThreadTyped, Relying
<1> USE <1>0, LabelFacts, GotoEffect, CallEffect, FinishEffect DEF GrantFails, Relying
<1>4. ASSUME Refuse(t) \/ Grant(t) \/ AddScript(t) \/ AddSched(t)
      PROVE  FALSE
  BY <1>4, LabelFacts DEF Refuse, Grant, AddScript, AddSched, Reads
<1>5. ASSUME Extend(t) \/ Rearm(t) \/ Normal(t) \/ Bind(t) \/ Granted(t)
      PROVE  FALSE
  BY <1>5, LabelFacts DEF Extend, Rearm, Normal, Bind, Granted, Reads
<1>6. ASSUME Settle(t) \/ Applied(t) \/ Refund(t)
      PROVE  FALSE
  BY <1>6, LabelFacts DEF Settle, Applied, Refund, Reads
<1>7. ASSUME Cancelling(t) \/ Restore(t) \/ Reenable(t) \/
             WriteRestricted(t) \/ ReadDone(t)
      PROVE  FALSE
  BY <1>7, LabelFacts DEF Cancelling, Restore, Reenable, WriteRestricted,
     ReadDone, Reads
<1>9. ASSUME Observed(t) PROVE FALSE
  BY <1>9 DEF Observed, ThreadTyped
<1>8. ASSUME AddRaises(t) \/ ExtendRaises(t) \/ NormalRaises(t) \/
             BindRaises(t) \/ RestoreRaises(t) \/ CancelRaises(t) \/
             RestrictRaises(t)
      PROVE  FALSE
  BY <1>8, LabelFacts DEF AddRaises, ExtendRaises, NormalRaises, BindRaises,
     RestoreRaises, CancelRaises, RestrictRaises, Reads
<1> QED
  BY ONLY <1>2, <1>3, <1>4, <1>5, <1>6, <1>7, <1>8, <1>9, StepOf(t)
     DEF StepOf, Continue, Raises

\* A thread that owns the lane is informed when it relies on what it learnt.
LEMMA InformedStep ==
  ASSUME TypeInv, NEW t \in Threads, StepOf(t),
         Informed(pc[t], saw[t], found[t], sched)
  PROVE  Informed(pc'[t], saw'[t], found'[t], sched')
<1>0. ThreadTyped /\ sched \in SchedRow
  BY ThreadsTyped DEF TypeInv, TypeOK
<1>1. CASE pc'[t] \notin Relying
  BY <1>1 DEF Relying, Informed
<1>2. ASSUME ReadSched(t) PROVE Informed(pc'[t], saw'[t], found'[t], sched')
  BY <1>0, <1>2 DEF ReadSched, Informed, ThreadTyped, device
<1>3. ASSUME ReadScript(t) PROVE Informed(pc'[t], saw'[t], found'[t], sched')
  <2>1. /\ found'[t] = Verdict(saw[t], script) /\ sched' = sched
        /\ pc[t] = "readScript"
        /\ pc'[t] = IF Stale(saw[t]) /\ Verdict(saw[t], script) = "inactive"
                    THEN "dropSched" ELSE "judge"
    BY <1>0, <1>3 DEF ReadScript, ThreadTyped
  <2> QED BY <2>1 DEF Informed, Verdict
<1>4. ASSUME ReadRaises(t) PROVE Informed(pc'[t], saw'[t], found'[t], sched')
  <2>1. CASE ctx[t] \in Reads
    <3>1. pc'[t] = "judge" /\ found'[t] = "error"
      BY <1>0, <1>4, <2>1 DEF ReadRaises, Reads, ThreadTyped
    <3> QED BY <3>1 DEF Informed
  <2>2. CASE ctx[t] \notin Reads
    <3>1. pc'[t] \notin Relying
      BY <1>0, <1>4, <2>2, LabelFacts, CallEffect, FinishEffect
         DEF ReadRaises, GrantFails, Relying, Reads
    <3> QED BY <1>1, <3>1
  <2> QED BY <2>1, <2>2
<1> USE <1>0, LabelFacts, GotoEffect, CallEffect, FinishEffect DEF GrantFails
<1>5. ASSUME DropSched(t) PROVE Informed(pc'[t], saw'[t], found'[t], sched')
  BY <1>5 DEF DropSched, SchedRemoved, Informed, NoSched
<1>6. ASSUME DropScript(t) PROVE Informed(pc'[t], saw'[t], found'[t], sched')
  BY <1>6 DEF DropScript, Informed, Reads
<1>7. ASSUME Disable(t) PROVE Informed(pc'[t], saw'[t], found'[t], sched')
  <2>1. CASE sched.state = "none"
    BY <1>7, <2>1 DEF Disable, Informed
  <2>2. CASE sched.state # "none"
    <3>1. sched'.state = "disabled"
      BY <1>7, <2>2 DEF Disable, SchedDisabled, SchedRow
    <3> QED BY <1>7, <2>2, <3>1 DEF Disable, Informed
  <2> QED BY <2>1, <2>2
<1>8. ASSUME Enforcing(t) PROVE Informed(pc'[t], saw'[t], found'[t], sched')
  BY <1>8 DEF Enforcing, Informed, device
<1>9. ASSUME Complete(t) PROVE Informed(pc'[t], saw'[t], found'[t], sched')
  BY <1>9 DEF Complete, Informed
<1> QED
  BY ONLY <1>1, <1>2, <1>3, <1>4, <1>5, <1>6, <1>7, <1>8, <1>9, RelyingSteps,
     TypeInv, StepOf(t), t \in Threads

LEMMA KnowNext == KnowInv /\ [Next]_vars => KnowInv'
<1> SUFFICES ASSUME KnowInv, [Next]_vars PROVE KnowInv'
  OBVIOUS
<1>0. /\ LaneInv /\ LaneInv' /\ TypeInv /\ ThreadTyped /\ None \notin Threads
      /\ "none" \notin LaneOps /\ "startup" \notin LaneOps
  BY LaneNext, ThreadsTyped, ThreadsAssumption DEF KnowInv, LaneInv, LaneOps
<1> SUFFICES ASSUME NEW u \in Threads, op'[u] \in LaneOps
             PROVE  Informed(pc'[u], saw'[u], found'[u], sched')
  BY <1>0 DEF KnowInv
<1>1. ASSUME NEW t \in Threads, StepOf(t)
      PROVE  Informed(pc'[u], saw'[u], found'[u], sched')
  <2>1. OthersKeep(t)
    BY <1>0, <1>1, ControlStep
  <2>2. CASE u = t /\ op[t] \in LaneOps
    BY <1>0, <1>1, <2>2, InformedStep DEF KnowInv
  <2>3. CASE u = t /\ op[t] \notin LaneOps
    <3>1. pc[t] = "idle" \/ pc'[t] = "readSched"
      BY <1>0, <1>1, <2>3, TurnStep DEF Begins, Takes, Ends, GoesOn
    <3>2. CASE pc[t] = "idle"
      BY <1>0, <1>1, <2>3, <3>2, InformedStep DEF Informed
    <3>3. CASE pc'[t] = "readSched"
      BY <2>3, <3>3 DEF Informed
    <3> QED BY <3>1, <3>2, <3>3
  <2>4. CASE u # t
    <3>1. op[u] \in LaneOps /\ Informed(pc[u], saw[u], found[u], sched)
      BY <2>1, <2>4 DEF OthersKeep, KnowInv
    <3>2. op[t] \notin LaneOps
      BY <1>0, <2>4, <3>1 DEF LaneInv
    <3>3. sched' = sched \/ sched' = NoSched
      BY <1>0, <1>1, <3>2, OwnersArm
    <3> QED BY <2>1, <2>4, <3>1, <3>3 DEF OthersKeep, Informed, NoSched
  <2> QED BY <2>2, <2>3, <2>4
<1>2. ASSUME Adjust \/ UNCHANGED vars PROVE Informed(pc'[u], saw'[u], found'[u], sched')
  <2>1. UNCHANGED <<sched, op, pc, saw, found>>
    BY <1>2 DEF Adjust, vars, thread, device
  <2> QED BY <2>1 DEF KnowInv
<1>3. ASSUME Expire \/ Miss PROVE Informed(pc'[u], saw'[u], found'[u], sched')
  <2>1. UNCHANGED <<op, pc, saw, found>>
    BY <1>3 DEF Expire, Miss, thread
  <2>2. Informed(pc[u], saw[u], found[u], sched)
    BY <2>1 DEF KnowInv
  <2>3. sched'.state = sched.state
    BY <1>0, <1>3 DEF Expire, Miss, Expired, TypeInv, TypeOK, SchedRow
  <2> QED BY <2>1, <2>2, <2>3 DEF Informed
<1>4. ASSUME Crash PROVE Informed(pc'[u], saw'[u], found'[u], sched')
  BY <1>0, <1>4 DEF Crash
<1>5. ASSUME Boot PROVE Informed(pc'[u], saw'[u], found'[u], sched')
  <2>1. op[u] \notin LaneOps
    BY <1>5 DEF Boot, KnowInv, LaneInv, TypeInv, FlowOK, ThreadOK, LaneOps
  <2> QED BY <1>0, <1>5, <2>1 DEF Boot, thread, ThreadTyped
<1> QED BY <1>1, <1>2, <1>3, <1>4, <1>5 DEF Next, StepOf

\* Nothing but its own expiry restricts a device whose temporary access is
\* active: the only two other writes of the restricted mode, the reconciler's and
\* a cancel's, are made by the owner of the lane, after it saw no scheduler or
\* disabled the one there was.
THEOREM OnlyExpiryRestricts == Spec => ActiveAccessKept
<1>1. Init => KnowInv
  <2>1. Init => \A t \in Threads : op[t] \notin LaneOps
    BY DEF Init, LaneOps
  <2> QED BY <2>1, LaneInit DEF KnowInv
<1>2. KnowInv /\ [Next]_vars
        => [mode = "normal" /\ mode' = "restricted" /\ Active => sched'.fired]_vars
  <2> SUFFICES ASSUME KnowInv, Next, mode = "normal", mode' = "restricted", Active
               PROVE  sched'.fired
    BY DEF vars, device
  <2>0. TypeInv /\ ThreadTyped /\ sched \in SchedRow
    BY ThreadsTyped DEF KnowInv, LaneInv, TypeInv, TypeOK
  <2>1. ASSUME NEW t \in Threads, StepOf(t) PROVE FALSE
    <3>1. \/ Restore(t) \/ RestoreRaises(t) \/ WriteRestricted(t)
          \/ RestrictRaises(t)
      BY <2>1, ModeSteps DEF Normal, NormalRaises, WriteNormal
    <3>2. pc[t] \in {"restore", "restrict"}
      BY <3>1 DEF Restore, RestoreRaises, WriteRestricted, RestrictRaises
    <3>3. op[t] \in LaneOps
      BY <2>0, <3>2 DEF TypeInv, FlowOK, ThreadOK, ThreadTyped, LaneOps, AllOps
    <3> QED BY <3>2, <3>3 DEF KnowInv, Informed, Active
  <2>2. ASSUME Miss \/ Adjust \/ Crash \/ Boot PROVE FALSE
    BY <2>2 DEF Miss, Adjust, Crash, Boot, device
  <2>3. ASSUME Expire PROVE sched'.fired
    BY <2>0, <2>3 DEF Expire, Expired, SchedRow
  <2> QED BY <2>1, <2>2, <2>3 DEF Next, StepOf
<1> QED BY <1>1, <1>2, KnowNext, PTL DEF Spec, ActiveAccessKept

-----------------------------------------------------------------------------
(* The bank balances, when no operator rechecks.                          *)

\* A redemption is settled by the request that made it, or by start-up recovery.
\* An operator's recheck settles one too, outside the lane: between the check and
\* the write of complete_reward_redemption it lets a refund slip in.
NoRecheck == "recheck" \notin Ops

BankInv ==
  /\ LaneInv
  /\ \A t \in Threads : pc[t] = "applied" => status[rid[t]] = "reserved"
  /\ Conservation

\* Whoever is about to settle a redemption, or makes one, does it alone.
Settling(t) ==
  op[t] \in {"redeem", "startup"} /\ pc[t] \in {"judge", "applied", "refund"}

LEMMA OneSettles ==
  ASSUME LaneInv, NEW t \in Threads, NEW u \in Threads, Settling(t), Settling(u)
  PROVE  t = u
<1>1. CASE op[t] = "startup" \/ op[u] = "startup"
  BY <1>1 DEF LaneInv, Settling
<1>2. CASE op[t] = "redeem" /\ op[u] = "redeem"
  BY <1>2 DEF LaneInv, LaneOps
<1> QED BY <1>1, <1>2 DEF Settling

LEMMA SettlersAre ==
  ASSUME NoRecheck, LaneInv, NEW t \in Threads,
         pc[t] \in {"applied", "refund"} \/ (pc[t] = "judge" /\ ctx[t] = "pre")
  PROVE  Settling(t) /\ (pc[t] \in {"applied", "refund"} => rid[t] \in Ids)
<1>1. ThreadTyped /\ ThreadOK(op[t], pc[t], ctx[t], found[t], rid[t])
  BY ThreadsTyped DEF LaneInv, FlowOK
<1>2. op[t] # "recheck"
  BY DEF LaneInv, NoRecheck
<1> QED BY <1>1, <1>2 DEF ThreadTyped, ThreadOK, AllOps, Settling

LEMMA SpentCount ==
  Conservation <=> balance + Cardinality(With(status, Spent)) = credit
BY DEF Conservation, With, Spent

\* The status a redemption was checked to have is the one it is written from.
LEMMA CheckedStays ==
  ASSUME NoRecheck, BankInv, [Next]_vars, NEW u \in Threads, pc'[u] = "applied"
  PROVE  status'[rid'[u]] = "reserved"
<1>0. LaneInv /\ TypeInv /\ ThreadTyped
  BY ThreadsTyped DEF BankInv, LaneInv
<1>1. ASSUME NEW t \in Threads, StepOf(t) PROVE status'[rid'[u]] = "reserved"
  <2>1. OthersKeep(t)
    BY <1>0, <1>1, ControlStep
  <2>2. CASE u = t
    <3>1. Complete(t) \/ (ReadSched(t) \/ ReadScript(t) \/ DropSched(t)
          \/ DropScript(t) \/ ReadRaises(t) \/ Disable(t) \/ Enforcing(t))
      BY <1>0, <1>1, <2>2, RelyingSteps DEF Relying
    <3>2. Complete(t)
      <4>1. ASSUME ReadSched(t) \/ ReadScript(t) PROVE FALSE
        BY <1>0, <2>2, <4>1 DEF ReadSched, ReadScript, ThreadTyped
      <4>2. ASSUME ReadRaises(t) PROVE FALSE
        <5>1. CASE ctx[t] \in Reads
          BY <1>0, <2>2, <4>2, <5>1 DEF ReadRaises, Reads, ThreadTyped
        <5>2. CASE ctx[t] \notin Reads
          BY <1>0, <2>2, <4>2, <5>2, LabelFacts, CallEffect, FinishEffect
             DEF ReadRaises, GrantFails, Reads
        <5> QED BY <5>1, <5>2
      <4>3. ASSUME DropSched(t) \/ DropScript(t) \/ Disable(t) \/ Enforcing(t)
            PROVE  FALSE
        BY <1>0, <2>2, <4>3, LabelFacts, GotoEffect, CallEffect, FinishEffect
           DEF DropSched, DropScript, Disable, Enforcing, GrantFails, Reads
      <4> QED BY <3>1, <4>1, <4>2, <4>3
    <3> QED BY <1>0, <2>2, <3>2, LabelFacts, GotoEffect, FinishEffect
               DEF Complete, bank
  <2>3. CASE u # t
    <3>1. pc[u] = "applied" /\ rid'[u] = rid[u] /\ status[rid[u]] = "reserved"
      BY <2>1, <2>3 DEF OthersKeep, BankInv
    <3>2. ~Reserve(t) /\ ~Refund(t) /\ ~Applied(t)
      BY <1>0, <2>3, <3>1, SettlersAre, OneSettles DEF Reserve, Refund, Applied
    <3> QED BY <1>1, <3>1, <3>2, BankSteps DEF bank
  <2> QED BY <2>2, <2>3
<1>2. ASSUME Expire \/ Miss \/ Adjust \/ UNCHANGED vars PROVE status'[rid'[u]] = "reserved"
  <2>1. UNCHANGED <<status, pc, rid>>
    BY <1>2 DEF Expire, Miss, Adjust, vars, bank, thread
  <2> QED BY <2>1 DEF BankInv
<1>3. ASSUME Crash PROVE FALSE
  BY <1>3 DEF Crash
<1>4. ASSUME Boot PROVE FALSE
  BY <1>0, <1>4 DEF Boot, thread, ThreadTyped
<1> QED BY <1>1, <1>2, <1>3, <1>4 DEF Next, StepOf

LEMMA ConservationStep ==
  ASSUME NoRecheck, BankInv, [Next]_vars
  PROVE  Conservation'
<1> DEFINE C == Cardinality(With(status, Spent))
           D == Cardinality(With(status', Spent))
<1>0. /\ LaneInv /\ TypeInv /\ ThreadTyped
      /\ status \in [Ids -> Statuses] /\ status' \in [Ids -> Statuses]
      /\ balance \in Nat /\ credit \in Nat /\ balance' \in Nat /\ credit' \in Nat
      /\ balance + C = credit
  <2>1. TypeInv /\ TypeInv' /\ ThreadTyped
    BY ThreadsTyped, TypeNext DEF BankInv, LaneInv
  <2>2. balance \in Nat /\ credit \in Nat /\ balance' \in Nat /\ credit' \in Nat
    BY <2>1, BoundsAssumption DEF TypeInv, TypeOK
  <2>3. status \in [Ids -> Statuses] /\ status' \in [Ids -> Statuses]
    BY <2>1, HeldFacts DEF TypeInv, TypeOK
  <2> QED BY <2>1, <2>2, <2>3, SpentCount DEF BankInv
<1>1. C \in Nat /\ D \in Nat
  BY IdsAreFinite DEF With
<1>2. SUFFICES balance' + D = credit'
  BY DEF Conservation, With, Spent
<1>3. ASSUME UNCHANGED bank PROVE balance' + D = credit'
  BY <1>0, <1>3 DEF bank
<1>4. ASSUME NEW t \in Threads, Reserve(t) PROVE balance' + D = credit'
  <2>1. PICK i \in Ids : status[i] = "none" /\ status' = [status EXCEPT ![i] = "reserved"]
    BY <1>4 DEF Reserve
  <2>2. /\ status[i] = "none" /\ status'[i] = "reserved"
        /\ \A j \in Ids \ {i} : status'[j] = status[j]
    BY <1>0, <2>1
  <2>3. D = C + 1
    BY <1>0, <2>2, CountUpdate, HeldFacts
  <2>4. balance' = balance - 1 /\ credit' = credit
    BY <1>4 DEF Reserve
  <2> QED BY <1>0, <1>1, <2>3, <2>4
<1>5. ASSUME NEW t \in Threads, Refund(t) PROVE balance' + D = credit'
  <2>0. rid[t] \in Ids
    BY <1>0, <1>5, SettlersAre DEF Refund
  <2>1. CASE status[rid[t]] = "reserved"
    <3>1. status'[rid[t]] = "refunded" /\ \A j \in Ids \ {rid[t]} : status'[j] = status[j]
      BY <1>0, <1>5, <2>0, <2>1 DEF Refund
    <3>2. D = C - 1
      BY <1>0, <2>0, <2>1, <3>1, CountUpdate, HeldFacts
    <3>3. balance' = balance + 1 /\ credit' = credit
      BY <1>5, <2>1 DEF Refund
    <3> QED BY <1>0, <1>1, <3>2, <3>3
  <2>2. CASE status[rid[t]] # "reserved"
    BY <1>5, <2>2, <1>3 DEF Refund, bank
  <2> QED BY <2>1, <2>2
<1>6. ASSUME NEW t \in Threads, Applied(t) PROVE balance' + D = credit'
  <2>0. rid[t] \in Ids /\ status[rid[t]] = "reserved"
    BY <1>0, <1>6, SettlersAre DEF Applied, BankInv
  <2>1. status'[rid[t]] = "applied" /\ \A j \in Ids \ {rid[t]} : status'[j] = status[j]
    BY <1>0, <1>6, <2>0 DEF Applied
  <2>2. D = C
    BY <1>0, <2>0, <2>1, CountUpdate, HeldFacts
  <2>3. balance' = balance /\ credit' = credit
    BY <1>6 DEF Applied
  <2> QED BY <1>0, <2>2, <2>3
<1>7. ASSUME Adjust PROVE balance' + D = credit'
  <2>1. D = C
    BY <1>7 DEF Adjust
  <2>2. \/ balance' = balance + 1 /\ credit' = credit + 1
        \/ balance' = balance - 1 /\ credit' = credit - 1
    BY <1>7 DEF Adjust
  <2> QED BY <1>0, <1>1, <2>1, <2>2
<1>8. ASSUME Expire \/ Miss \/ Crash \/ Boot \/ UNCHANGED vars PROVE UNCHANGED bank
  BY <1>8 DEF Expire, Miss, Crash, Boot, vars
<1>9. ASSUME NEW t \in Threads, StepOf(t) PROVE balance' + D = credit'
  BY <1>9, <1>3, <1>4, <1>5, <1>6, BankSteps
<1> QED BY <1>3, <1>7, <1>8, <1>9 DEF Next, StepOf

\* The bank balances over reservations, completions, refunds, crashes and start-up
\* recoveries, whatever else runs, as long as no operator's recheck settles a
\* redemption next to the request that made it.
THEOREM BankBalances ==
  ASSUME NoRecheck
  PROVE  Spec => []Conservation
<1>1. Init => BankInv
  <2> SUFFICES ASSUME Init PROVE BankInv
    OBVIOUS
  <2>1. With(status, Spent) = {}
    BY HeldFacts DEF Init, With
  <2>2. Conservation
    <3>1. Cardinality(With(status, Spent)) = 0
      BY <2>1, FS_EmptySet
    <3>2. balance + Cardinality(With(status, Spent)) = credit
      BY <3>1 DEF Init
    <3> QED BY <3>2, SpentCount
  <2>3. \A t \in Threads : pc[t] # "applied"
    BY DEF Init
  <2> QED BY <2>2, <2>3, LaneInit DEF BankInv
<1>2. BankInv /\ [Next]_vars => BankInv'
  BY LaneNext, CheckedStays, ConservationStep DEF BankInv
<1>3. BankInv => Conservation
  BY DEF BankInv
<1> QED BY <1>1, <1>2, <1>3, PTL DEF Spec

-----------------------------------------------------------------------------
(* RouterOS restores the device by itself, or lapsed says why it will not.  *)

\* The scheduler a clean-up is about to remove guards nothing: it is not armed, or
\* it has run.
Harmless == sched.state # "armed" \/ sched.fired

\* What each call of the lane's owner knows of the guard.
GuardAt(t) ==
  /\ pc[t] = "normal" => Active \/ lapsed
  /\ pc[t] \in {"addSched", "rearm"} => script \/ lapsed
  /\ pc[t] = "readScript" /\ Stale(saw[t]) => Harmless
  /\ pc[t] = "dropSched" /\ ctx[t] \in Reads => Harmless
  /\ pc[t] = "dropSched" /\ ctx[t] = "clean" => sched.state = "none"
  /\ pc[t] = "dropSched" /\ ctx[t] = "end" => mode = "restricted"

\* A scheduler that has run and will run again was extended too late.
RunsAgain == sched.fired /\ sched.due => lapsed

GuardInv ==
  /\ KnowInv
  /\ FailSafe
  /\ RunsAgain
  /\ \A t \in Threads : op[t] \in LaneOps => GuardAt(t)

\* Whoever does not own the lane only removes, and lapsed records what he removed.
LEMMA OutsideRemoves ==
  ASSUME TypeInv, NEW t \in Threads, StepOf(t), op[t] \notin LaneOps, lane # t
  PROVE  /\ mode' = mode
         /\ sched' = sched \/ sched' = NoSched
         /\ lapsed => lapsed'
         /\ Active \/ lapsed => Active' \/ lapsed'
         /\ script \/ lapsed => script' \/ lapsed'
<1>1. op[t] \in {"reader", "recheck", "observe", "startup", "none"}
  BY DEF TypeInv, TypeOK, AllOps, LaneOps
<1>2. ThreadOK(op[t], pc[t], ctx[t], found[t], rid[t])
  BY DEF TypeInv, FlowOK
<1>3. pc[t] \notin {"addScript", "addSched", "rearm", "bind", "disable", "reenable",
                    "normal", "restore", "restrict"}
  BY <1>1, <1>2 DEF ThreadOK
<1>4. mode' = mode
  BY <1>3, ModeSteps DEF Normal, NormalRaises, Restore, RestoreRaises,
     WriteRestricted, RestrictRaises
<1>5. \/ UNCHANGED <<sched, script, lapsed>>
      \/ SchedRemoved(t) /\ UNCHANGED script
      \/ ScriptRemoved(t) /\ UNCHANGED sched
  BY <1>3, DeviceSteps DEF DeviceEffect
<1>6. CASE UNCHANGED <<sched, script, lapsed>>
  BY <1>4, <1>6 DEF Active
<1>7. CASE SchedRemoved(t) /\ UNCHANGED script
  BY <1>4, <1>7 DEF SchedRemoved, Active
<1>8. CASE ScriptRemoved(t) /\ UNCHANGED sched
  BY <1>4, <1>8 DEF ScriptRemoved, Active
<1> QED BY <1>5, <1>6, <1>7, <1>8

\* The lane's owner keeps the device guarded, or lapsed says why not.
LEMMA OwnerGuards ==
  ASSUME GuardInv, NEW t \in Threads, StepOf(t), op[t] \in LaneOps
  PROVE  FailSafe' /\ RunsAgain'
<1>0. /\ TypeInv /\ lane = t /\ GuardAt(t) /\ Informed(pc[t], saw[t], found[t], sched)
      /\ sched \in SchedRow /\ lapsed \in BOOLEAN
      /\ mode = "normal" => Active \/ lapsed
      /\ ThreadOK(op[t], pc[t], ctx[t], found[t], rid[t])
  <2>1. TypeInv /\ lane = t /\ GuardAt(t) /\ Informed(pc[t], saw[t], found[t], sched)
    BY DEF GuardInv, KnowInv, LaneInv
  <2> QED BY <2>1 DEF GuardInv, FailSafe, TypeInv, TypeOK, FlowOK
<1>1. mode' = "normal" => Active \/ lapsed
  <2>1. mode' = mode \/ pc[t] = "normal" \/ mode' = "restricted"
    BY ModeSteps DEF Normal, NormalRaises, Restore, RestoreRaises,
       WriteRestricted, RestrictRaises
  <2> QED BY <1>0, <2>1 DEF GuardAt
<1>2. pc[t] = "dropSched" => mode' = mode
  BY <1>0, ModeSteps DEF Normal, NormalRaises, Restore, RestoreRaises,
     WriteRestricted, RestrictRaises
<1> SUFFICES (mode' = "normal" => Active' \/ lapsed') /\ RunsAgain'
  BY DEF FailSafe
<1>3. RunsAgain
  BY DEF GuardInv
<1>4. CASE UNCHANGED <<sched, script, lapsed>>
  BY <1>1, <1>3, <1>4 DEF Active, RunsAgain
<1>5. CASE pc[t] = "dropSched" /\ SchedRemoved(t) /\ UNCHANGED script
  <2>1. ~sched'.fired /\ (lapsed => lapsed')
    BY <1>5 DEF SchedRemoved, NoSched
  <2>2. CASE ctx[t] = "undo"
    BY <1>1, <1>5, <2>1, <2>2 DEF SchedRemoved, RunsAgain
  <2>3. CASE ctx[t] = "end"
    BY <1>0, <1>2, <1>5, <2>1, <2>3 DEF GuardAt, RunsAgain
  <2>4. CASE ctx[t] \in Reads \cup {"clean"}
    <3>1. Active => lapsed
      BY <1>0, <1>3, <1>5, <2>4 DEF GuardAt, Harmless, Active, RunsAgain
    <3> QED BY <1>1, <2>1, <3>1 DEF RunsAgain
  <2> QED BY <1>0, <1>5, <2>2, <2>3, <2>4 DEF ThreadOK
<1>6. CASE /\ pc[t] = "dropScript" \/ (pc[t] = "readScript" /\ saw[t].state = "none")
           /\ ScriptRemoved(t) /\ UNCHANGED sched
  <2>1. sched.state = "none" /\ lapsed' = lapsed
    BY <1>0, <1>6 DEF Informed, ScriptRemoved
  <2> QED BY <1>1, <1>3, <1>6, <2>1 DEF Active, RunsAgain
<1>7. CASE pc[t] = "addScript" /\ script' = TRUE /\ UNCHANGED <<sched, lapsed>>
  BY <1>1, <1>3, <1>7 DEF Active, RunsAgain
<1>8. CASE pc[t] = "addSched" /\ SchedAdded(NewSched) /\ UNCHANGED script
  BY <1>0, <1>8 DEF SchedAdded, NewSched, GuardAt, Active, RunsAgain
<1>9. CASE pc[t] = "rearm" /\ SchedExtended(t) /\ UNCHANGED script
  BY <1>0, <1>9 DEF SchedExtended, Rearmed, GuardAt, Active, RunsAgain
<1>10. CASE pc[t] = "bind" /\ SchedBound(t) /\ UNCHANGED <<script, lapsed>>
  <2>1. sched'.state = sched.state /\ sched'.due = sched.due /\ sched'.fired = sched.fired
    BY <1>0, <1>10 DEF SchedBound, SchedRow
  <2> QED BY <1>1, <1>3, <1>10, <2>1 DEF Active, RunsAgain
<1>11. CASE pc[t] = "disable" /\ SchedDisabled /\ UNCHANGED script
  BY <1>11 DEF SchedDisabled, RunsAgain
<1>12. CASE pc[t] = "reenable" /\ SchedEnabled /\ UNCHANGED script
  <2>1. sched'.state = "armed" /\ sched'.due = sched.due /\ sched'.fired = sched.fired
    BY <1>0, <1>12 DEF SchedEnabled, SchedRow
  <2>2. lapsed' = (lapsed /\ ~(sched.due /\ ~sched.fired /\ script))
    BY <1>12 DEF SchedEnabled
  <2>3. mode' = "normal" => Active' \/ lapsed'
    BY <1>1, <1>12, <2>1, <2>2 DEF Active
  <2>4. RunsAgain'
    BY <1>3, <2>1, <2>2 DEF RunsAgain
  <2> QED BY <2>3, <2>4
<1> QED
  BY <1>4, <1>5, <1>6, <1>7, <1>8, <1>9, <1>10, <1>11, <1>12, DeviceSteps
     DEF DeviceEffect

\* The steps that lead to a call that relies on the guard.
LEMMA GuardingSteps ==
  ASSUME TypeInv, NEW t \in Threads, StepOf(t),
         pc'[t] \in {"normal", "addSched", "rearm", "readScript", "dropSched"}
  PROVE  \/ ReadSched(t) \/ ReadScript(t) \/ AddScript(t) \/ AddSched(t)
         \/ Extend(t) \/ Rearm(t) \/ Grant(t) \/ Restore(t)
         \/ pc'[t] = "dropSched" /\ ctx'[t] = "undo"
<1> DEFINE Label == pc'[t] \in {"normal", "addSched", "rearm", "readScript", "dropSched"}
           Undoing == pc'[t] = "dropSched" /\ ctx'[t] = "undo"
<1>0. ThreadTyped /\ Label
  BY ThreadsTyped
<1>1. ASSUME NEW o \in AllOps, NEW c \in Contexts, Begin(t, o, c) PROVE FALSE
  BY <1>0, <1>1 DEF Begin, ThreadTyped
<1>2. ASSUME Requests(t) \/ Observe(t) \/ Enforce(t) PROVE FALSE
  BY <1>1, <1>2, LabelFacts
     DEF Requests, Redeem, Start, Cancel, Reader, Recheck, Observe, Enforce, UserBegins,
         AllOps, Reads
<1>3. ASSUME Reserve(t) \/ Observed(t) PROVE FALSE
  <2>1. CASE Reserve(t)
    BY <1>0, <2>1 DEF Reserve, ThreadTyped
  <2>2. CASE Observed(t)
    BY <1>0, <2>2 DEF Observed, Finish, ThreadTyped
  <2> QED BY <1>3, <2>1, <2>2
<1>4. ASSUME ReadRaises(t), ctx[t] \in Reads PROVE FALSE
  BY <1>0, <1>4 DEF ReadRaises, Reads, ThreadTyped
<1> USE <1>0, LabelFacts, GotoEffect, CallEffect, FinishEffect DEF GrantFails
<1>5. ASSUME ReadRaises(t), ctx[t] \notin Reads PROVE Undoing
  <2>1. Call(t, "dropSched", "undo") \/ GrantFails(t) \/ Finish(t)
    BY <1>5 DEF ReadRaises
  <2>2. ASSUME Call(t, "dropSched", "undo") PROVE Undoing
    BY <2>2
  <2>3. ASSUME Call(t, "readSched", "recheck") PROVE FALSE
    BY <2>3, LabelFacts, CallEffect DEF Reads
  <2>4. ASSUME Finish(t) PROVE FALSE
    BY <2>4
  <2>5. GrantFails(t) => Call(t, "readSched", "recheck") \/ Finish(t)
    BY DEF GrantFails
  <2> QED BY ONLY <2>1, <2>2, <2>3, <2>4, <2>5
<1>6. ASSUME DropSched(t) \/ DropScript(t) \/ Refuse(t) PROVE FALSE
  BY <1>6 DEF DropSched, DropScript, Refuse, Reads
<1>7. ASSUME Normal(t) \/ Bind(t) \/ Granted(t) PROVE FALSE
  BY <1>7 DEF Normal, Bind, Granted, Reads
<1>8. ASSUME Settle(t) \/ Complete(t) \/ Applied(t) \/ Refund(t) PROVE FALSE
  BY <1>8 DEF Settle, Complete, Applied, Refund
<1>9. ASSUME Cancelling(t) \/ Disable(t) \/ Reenable(t) PROVE FALSE
  BY <1>9 DEF Cancelling, Disable, Reenable
<1>10. ASSUME Enforcing(t) \/ WriteRestricted(t) \/ ReadDone(t) PROVE FALSE
  BY <1>10 DEF Enforcing, WriteRestricted, ReadDone, Reads
<1>11. ASSUME AddRaises(t) \/ NormalRaises(t) PROVE Undoing
  BY <1>11 DEF AddRaises, NormalRaises, Reads
<1>12. ASSUME ExtendRaises(t) \/ BindRaises(t) \/ RestoreRaises(t) \/ CancelRaises(t)
              \/ RestrictRaises(t)
       PROVE  FALSE
  BY <1>12 DEF ExtendRaises, BindRaises, RestoreRaises, CancelRaises, RestrictRaises, Reads
<1> QED
  BY ONLY <1>2, <1>3, <1>4, <1>5, <1>6, <1>7, <1>8, <1>9, <1>10, <1>11, <1>12,
     StepOf(t) DEF StepOf, Continue, Raises

\* The lane's owner knows of the guard what its next call relies on.
LEMMA OwnerKnows ==
  ASSUME GuardInv, NEW t \in Threads, StepOf(t), op[t] \in LaneOps
  PROVE  GuardAt(t)'
<1>0. /\ TypeInv /\ ThreadTyped /\ GuardAt(t) /\ sched \in SchedRow
      /\ Informed(pc[t], saw[t], found[t], sched)
      /\ ThreadOK(op[t], pc[t], ctx[t], found[t], rid[t])
  <2>1. TypeInv /\ GuardAt(t) /\ Informed(pc[t], saw[t], found[t], sched)
    BY DEF GuardInv, KnowInv, LaneInv
  <2> QED BY <2>1, ThreadsTyped DEF TypeInv, TypeOK, FlowOK
<1>1. CASE pc'[t] \notin {"normal", "addSched", "rearm", "readScript", "dropSched"}
  BY <1>1 DEF GuardAt
<1>2. CASE pc'[t] = "dropSched" /\ ctx'[t] = "undo"
  BY <1>2 DEF GuardAt, Reads
<1>3. ASSUME ReadSched(t) PROVE GuardAt(t)'
  <2>1. sched' = sched /\ saw'[t] = sched /\ pc'[t] = "readScript"
    BY <1>0, <1>3 DEF ReadSched, ThreadTyped, device
  <2> QED BY <1>0, <2>1 DEF GuardAt, Stale, Harmless, SchedRow
<1>4. ASSUME ReadScript(t) PROVE GuardAt(t)'
  <2>1. /\ UNCHANGED <<sched, ctx, mode>> /\ pc[t] = "readScript"
        /\ pc'[t] = (IF Stale(saw[t]) /\ Verdict(saw[t], script) = "inactive"
                     THEN "dropSched" ELSE "judge")
    BY <1>0, <1>4 DEF ReadScript, ThreadTyped
  <2>2. pc'[t] = "dropSched" => Harmless
    BY <1>0, <2>1 DEF GuardAt
  <2>3. ctx[t] \in Reads /\ "clean" \notin Reads /\ "end" \notin Reads
    BY <1>0, <2>1 DEF ThreadOK, Reads
  <2> QED BY <2>1, <2>2, <2>3 DEF GuardAt, Harmless
<1> USE <1>0, LabelFacts, GotoEffect, CallEffect, FinishEffect DEF GrantFails
<1>5. ASSUME AddScript(t) PROVE GuardAt(t)'
  BY <1>5 DEF AddScript, GuardAt
<1>6. ASSUME AddSched(t) PROVE GuardAt(t)'
  <2>1. pc'[t] = "normal" /\ UNCHANGED script /\ SchedAdded(NewSched) /\ pc[t] = "addSched"
    BY <1>6 DEF AddSched
  <2> QED BY <2>1 DEF SchedAdded, NewSched, GuardAt, Active
<1>7. ASSUME Extend(t) PROVE GuardAt(t)'
  BY <1>7 DEF Extend, GuardAt, Reads, device
<1>8. ASSUME Rearm(t) PROVE GuardAt(t)'
  <2>1. CASE sched.state = "none"
    BY <1>8, <2>1 DEF Rearm, GuardAt, Reads
  <2>2. CASE sched.state # "none"
    <3>1. pc'[t] = "normal" /\ UNCHANGED script /\ SchedExtended(t) /\ pc[t] = "rearm"
      BY <1>8, <2>2 DEF Rearm
    <3> QED BY <3>1 DEF SchedExtended, Rearmed, GuardAt, Active
  <2> QED BY <2>1, <2>2
<1>9. ASSUME Grant(t) PROVE GuardAt(t)'
  <2>1. pc[t] = "judge" /\ UNCHANGED <<sched, script, mode, lapsed>>
    BY <1>9 DEF Grant, device
  <2>2. CASE found[t] = "inactive" /\ Call(t, "dropSched", "clean")
    BY <2>1, <2>2 DEF Informed, GuardAt, Reads
  <2>3. CASE Goto(t, "extend") \/ GrantFails(t)
    BY <2>3 DEF GuardAt, Reads
  <2> QED BY <1>9, <2>2, <2>3 DEF Grant
<1>10. ASSUME Restore(t) PROVE GuardAt(t)'
  BY <1>10 DEF Restore, GuardAt, Reads
<1> QED
  BY ONLY <1>0, <1>1, <1>2, <1>3, <1>4, <1>5, <1>6, <1>7, <1>8, <1>9, <1>10,
     GuardingSteps, StepOf(t), t \in Threads

\* A thread that begins reads the scheduler first.
LEMMA IdleReads ==
  ASSUME TypeInv, NEW t \in Threads, StepOf(t), pc[t] = "idle"
  PROVE  pc'[t] = "readSched"
<1>0. ThreadTyped
  BY ThreadsTyped
<1>1. ASSUME Requests(t) \/ Observe(t) \/ Enforce(t) PROVE pc'[t] = "readSched"
  BY <1>0, <1>1 DEF Requests, Redeem, Start, Cancel, Reader, Recheck, Observe, Enforce,
              UserBegins, Begin, ThreadTyped
<1>2. ASSUME Continue(t) PROVE FALSE
  BY <1>2 DEF Continue, ReadSched, ReadScript, DropSched, DropScript, Reserve,
     Refuse, Grant, AddScript, AddSched, Extend, Rearm, Normal, Bind, Granted,
     Settle, Complete, Applied, Refund, Cancelling, Disable, Restore, Reenable, Observed,
     Enforcing, WriteRestricted, ReadDone
<1>3. ASSUME Raises(t) PROVE FALSE
  BY <1>3 DEF Raises, ReadRaises, AddRaises, ExtendRaises, NormalRaises,
     BindRaises, RestoreRaises, CancelRaises, RestrictRaises
<1> QED BY <1>1, <1>2, <1>3 DEF StepOf

LEMMA GuardNext == GuardInv /\ [Next]_vars => GuardInv'
<1> SUFFICES ASSUME GuardInv, [Next]_vars PROVE GuardInv'
  OBVIOUS
<1>0. /\ KnowInv /\ KnowInv' /\ LaneInv /\ TypeInv /\ ThreadTyped
      /\ FailSafe /\ RunsAgain /\ sched \in SchedRow
      /\ \A t \in Threads : op[t] \in LaneOps => lane = t /\ GuardAt(t)
      /\ "none" \notin LaneOps /\ "startup" \notin LaneOps
  BY KnowNext, ThreadsTyped DEF GuardInv, KnowInv, LaneInv, TypeInv, TypeOK, LaneOps
<1>1. ASSUME NEW t \in Threads, StepOf(t) PROVE GuardInv'
  <2>1. OthersKeep(t)
    BY <1>0, <1>1, ControlStep
  <2>2. CASE op[t] \in LaneOps
    <3>1. FailSafe' /\ RunsAgain' /\ GuardAt(t)'
      BY <1>1, <2>2, OwnerGuards, OwnerKnows
    <3>2. \A u \in Threads \ {t} : op'[u] \notin LaneOps
      BY <1>0, <2>1, <2>2 DEF OthersKeep
    <3> QED BY <1>0, <3>1, <3>2 DEF GuardInv
  <2>3. CASE op[t] \notin LaneOps
    <3>1. lane # t
      BY <2>3, <1>0 DEF LaneInv
    <3>2. /\ mode' = mode
          /\ sched' = sched \/ sched' = NoSched
          /\ lapsed => lapsed'
          /\ Active \/ lapsed => Active' \/ lapsed'
          /\ script \/ lapsed => script' \/ lapsed'
      BY <1>0, <1>1, <2>3, <3>1, OutsideRemoves
    <3>3. FailSafe' /\ RunsAgain'
      BY <1>0, <3>2 DEF FailSafe, RunsAgain, NoSched
    <3>4. ASSUME op'[t] \in LaneOps PROVE GuardAt(t)'
      <4>1. pc[t] = "idle" \/ pc'[t] = "readSched"
        BY <1>0, <1>1, <2>3, <3>4, TurnStep DEF Begins, Takes, Ends, GoesOn
      <4>2. pc'[t] = "readSched"
        <5>1. CASE pc[t] = "idle"
          BY <1>0, <1>1, <3>4, <5>1, IdleReads
        <5> QED BY <4>1, <5>1
      <4> QED BY <4>2 DEF GuardAt
    <3>5. ASSUME NEW u \in Threads \ {t}, op'[u] \in LaneOps PROVE GuardAt(u)'
      <4>1. GuardAt(u) /\ pc'[u] = pc[u] /\ ctx'[u] = ctx[u] /\ saw'[u] = saw[u]
        BY <1>0, <2>1, <3>5 DEF OthersKeep
      <4>2. Harmless => Harmless'
        BY <3>2 DEF Harmless, NoSched
      <4>3. sched.state = "none" => sched'.state = "none"
        BY <3>2 DEF NoSched
      <4> QED BY <3>2, <4>1, <4>2, <4>3 DEF GuardAt
    <3> QED BY <1>0, <3>3, <3>4, <3>5 DEF GuardInv
  <2> QED BY <2>2, <2>3
<1>2. ASSUME Adjust \/ UNCHANGED vars PROVE GuardInv'
  <2>1. UNCHANGED <<mode, sched, script, lapsed, op, pc, ctx, saw>>
    BY <1>2 DEF Adjust, vars, thread, device
  <2> QED BY <1>0, <2>1 DEF GuardInv, FailSafe, RunsAgain, GuardAt, Harmless, Active
<1>3. ASSUME Expire PROVE GuardInv'
  <2>1. /\ UNCHANGED <<script, lapsed, op, pc, ctx, saw>>
        /\ mode' = (IF script THEN "restricted" ELSE mode)
        /\ \A t \in Threads : pc[t] # "normal"
    BY <1>3 DEF Expire, thread
  <2>2. sched'.state = sched.state /\ ~sched'.due /\ sched'.fired
    BY <1>0, <1>3 DEF Expire, Expired, SchedRow
  <2>3. FailSafe' /\ RunsAgain'
    BY <1>0, <2>1, <2>2 DEF FailSafe, RunsAgain, Active
  <2>4. \A t \in Threads : op[t] \in LaneOps => GuardAt(t)'
    BY <1>0, <2>1, <2>2 DEF GuardAt, Harmless
  <2> QED BY <1>0, <2>1, <2>3, <2>4 DEF GuardInv
<1>4. ASSUME Miss PROVE GuardInv'
  <2>1. UNCHANGED <<mode, script, lapsed, op, pc, ctx, saw>> /\ sched.state = "disabled"
    BY <1>4 DEF Miss, thread
  <2>2. sched'.state = sched.state /\ ~sched'.due /\ sched'.fired = sched.fired
    BY <1>0, <1>4 DEF Miss, SchedRow
  <2>3. FailSafe' /\ RunsAgain'
    BY <1>0, <2>1, <2>2 DEF FailSafe, RunsAgain, Active
  <2>4. \A t \in Threads : op[t] \in LaneOps => GuardAt(t)'
    BY <1>0, <2>1, <2>2 DEF GuardAt, Harmless, Active
  <2> QED BY <1>0, <2>1, <2>3, <2>4 DEF GuardInv
<1>5. ASSUME Crash PROVE GuardInv'
  <2>1. UNCHANGED <<mode, sched, script, lapsed>> /\ \A t \in Threads : op'[t] = "none"
    BY <1>5 DEF Crash, device
  <2> QED BY <1>0, <2>1 DEF GuardInv, FailSafe, RunsAgain, Active
<1>6. ASSUME Boot PROVE GuardInv'
  <2>1. UNCHANGED <<mode, sched, script, lapsed>>
    BY <1>6 DEF Boot, device
  <2>2. \A t \in Threads : op[t] \notin LaneOps
    BY <1>6 DEF Boot, GuardInv, KnowInv, LaneInv, TypeInv, FlowOK, ThreadOK, LaneOps
  <2>3. \A t \in Threads : op'[t] \notin LaneOps
    BY <1>0, <1>6, <2>2 DEF Boot, thread, ThreadTyped
  <2> QED BY <1>0, <2>1, <2>3 DEF GuardInv, FailSafe, RunsAgain, Active
<1> QED BY <1>1, <1>2, <1>3, <1>4, <1>5, <1>6 DEF Next, StepOf

\* At any instant, and for any operations, faults and crashes, a NORMAL device has
\* an armed, due scheduler with its script, unless its guard lapsed in one of the
\* four ways that lapsed records.
THEOREM NormalIsGuarded == Spec => []FailSafe
<1>1. Init => GuardInv
  <2> SUFFICES ASSUME Init PROVE GuardInv
    OBVIOUS
  <2>1. \A t \in Threads : op[t] \notin LaneOps
    BY DEF Init, LaneOps
  <2> QED BY <2>1, LaneInit DEF GuardInv, KnowInv, Init, FailSafe, RunsAgain, NoSched
<1>2. GuardInv => FailSafe
  BY DEF GuardInv
<1> QED BY <1>1, <1>2, GuardNext, PTL DEF Spec

=============================================================================

----------------------------- MODULE TempAccess -----------------------------
(***************************************************************************)
(* Temporary NORMAL access of one restricted device, and the reward bank   *)
(* that can pay for it (app/router.py, app/main.py, app/policy_store.py,   *)
(* app/reward_recovery.py, app/reconciler.py).                             *)
(*                                                                         *)
(* A grant arms a one-shot RouterOS scheduler, whose script restores the   *)
(* device, before it writes NORMAL; a paid grant then binds its redemption *)
(* to the scheduler's comment, the evidence that recovery reads.  Request  *)
(* threads that write own the mutation lane; readers do not, although      *)
(* get_device_temporary_access removes resources it finds stale.           *)
(*                                                                         *)
(* One action is one RouterOS call or one SQLite transaction.  The device  *)
(* is restricted by policy throughout; SLOW and BLOCKED are not told apart,*)
(* and a redemption costs one unit of minutes.                             *)
(***************************************************************************)
EXTENDS Naturals, FiniteSets

CONSTANTS
  Threads,     \* request threads, the reconciler's thread among them
  Ops,         \* the operations the instance has
  None,        \* nobody owns the mutation lane
  MaxIds,      \* bound: redemptions
  MaxCredit,   \* bound: minutes credited to the bank
  MaxOps,      \* bound: operations of users
  MaxFaults,   \* bound: RouterOS calls that fail
  MaxCrashes   \* bound: crashes of the application

AllOps == {"redeem", "start", "cancel", "recheck", "reader", "observe", "enforce"}
\* Operations that run under the mutation lane (coherent_router_mutation, and
\* the reconciler's mutation_session).  An observation takes it once it has found
\* drift, and goes on as enforcement.
LaneOps == {"redeem", "start", "cancel", "enforce"}

ASSUME ThreadsAssumption == None \notin Threads
ASSUME OpsAssumption == Ops \subseteq AllOps
ASSUME BoundsAssumption ==
  /\ MaxIds \in Nat /\ MaxCredit \in Nat /\ MaxOps \in Nat
  /\ MaxFaults \in Nat /\ MaxCrashes \in Nat

VARIABLES
  mode,     \* the device's enforced mode
  sched,    \* the device's RouterOS scheduler MC_TEMP_...
  script,   \* its restore script exists
  balance,  \* reward_accounts.balance_minutes
  credit,   \* minutes ever granted less minutes deducted
  status,   \* redemption -> reward_redemptions.status
  granted,  \* redemption -> NORMAL has been written for it
  lapsed,   \* history: the guard of the last grant was taken away, or spent
  up,       \* the application serves requests
  lane,     \* owner of the RouterOS mutation lane
  op,       \* thread -> operation it executes
  pc,       \* thread -> its next call
  ctx,      \* thread -> what the read or clean-up under way is for
  saw,      \* thread -> the scheduler its read returned
  found,    \* thread -> what its read concluded
  rid,      \* thread -> the redemption it is about
  ops, faults, crashes

device == <<mode, sched, script>>
bank == <<balance, credit, status>>
thread == <<op, pc, ctx, saw, found, rid>>
bounds == <<ops, faults, crashes>>
vars == <<device, bank, granted, lapsed, up, lane, thread, bounds>>

-----------------------------------------------------------------------------
Ids == 1..MaxIds
NoId == 0

\* due: RouterOS will still run it.  fired: its run-count is above zero.
SchedRow ==
  [state : {"none", "armed", "disabled"}, due : BOOLEAN, fired : BOOLEAN,
   ref : Ids \cup {NoId}]
NoSched == [state |-> "none", due |-> FALSE, fired |-> FALSE, ref |-> NoId]
NewSched == [state |-> "armed", due |-> TRUE, fired |-> FALSE, ref |-> NoId]

Contexts == {"pre", "grant", "final", "recheck", "cancel", "recover", "observe",
             "enforce", "verify", "reader", "clean", "undo", "end", "none"}
Labels == {"idle", "readSched", "readScript", "dropSched", "dropScript", "judge",
           "addScript", "addSched", "extend", "rearm", "normal", "bind",
           "complete", "applied", "refund", "disable", "restore", "reenable",
           "restrict"}

TypeOK ==
  /\ mode \in {"normal", "restricted"}
  /\ sched \in SchedRow
  /\ script \in BOOLEAN
  /\ balance \in 0..MaxCredit
  /\ credit \in 0..MaxCredit
  /\ status \in [Ids -> {"none", "reserved", "applied", "refunded"}]
  /\ granted \in [Ids -> BOOLEAN]
  /\ lapsed \in BOOLEAN
  /\ up \in BOOLEAN
  /\ lane \in Threads \cup {None}
  /\ op \in [Threads -> AllOps \cup {"none", "startup"}]
  /\ pc \in [Threads -> Labels]
  /\ ctx \in [Threads -> Contexts]
  /\ saw \in [Threads -> SchedRow]
  /\ found \in [Threads -> {"none", "inactive", "active", "error"}]
  /\ rid \in [Threads -> Ids \cup {NoId}]
  /\ ops \in 0..MaxOps
  /\ faults \in 0..MaxFaults
  /\ crashes \in 0..MaxCrashes

Init ==
  /\ mode = "restricted"
  /\ sched = NoSched
  /\ script = FALSE
  /\ balance = 0 /\ credit = 0
  /\ status = [i \in Ids |-> "none"]
  /\ granted = [i \in Ids |-> FALSE]
  /\ lapsed = FALSE
  /\ up = TRUE
  /\ lane = None
  /\ op = [t \in Threads |-> "none"]
  /\ pc = [t \in Threads |-> "idle"]
  /\ ctx = [t \in Threads |-> "none"]
  /\ saw = [t \in Threads |-> NoSched]
  /\ found = [t \in Threads |-> "none"]
  /\ rid = [t \in Threads |-> NoId]
  /\ ops = 0 /\ faults = 0 /\ crashes = 0

-----------------------------------------------------------------------------
(* Control flow of a thread.  Each operator sets pc, ctx, saw, found, rid, *)
(* op and lane.                                                            *)

Goto(t, l) ==
  /\ pc' = [pc EXCEPT ![t] = l]
  /\ UNCHANGED <<op, ctx, saw, found, rid, lane, up>>

\* Call a read, or a clean-up, for purpose c.
Call(t, l, c) ==
  /\ pc' = [pc EXCEPT ![t] = l]
  /\ ctx' = [ctx EXCEPT ![t] = c]
  /\ saw' = [saw EXCEPT ![t] = NoSched]
  /\ found' = [found EXCEPT ![t] = "none"]
  /\ UNCHANGED <<op, rid, lane, up>>

\* The operation returns to its caller, and the lane is released.  Start-up
\* recovery is over before the application serves.
Finish(t) ==
  /\ op' = [op EXCEPT ![t] = "none"]
  /\ pc' = [pc EXCEPT ![t] = "idle"]
  /\ ctx' = [ctx EXCEPT ![t] = "none"]
  /\ saw' = [saw EXCEPT ![t] = NoSched]
  /\ found' = [found EXCEPT ![t] = "none"]
  /\ rid' = [rid EXCEPT ![t] = NoId]
  /\ lane' = IF lane = t THEN None ELSE lane
  /\ up' = (up \/ op[t] = "startup")

\* The grant raises: a redemption makes one fresh evidence check.
GrantFails(t) ==
  IF op[t] = "redeem" THEN Call(t, "readSched", "recheck") ELSE Finish(t)

Fault == faults < MaxFaults /\ faults' = faults + 1 /\ UNCHANGED <<ops, crashes>>

\* An operation of a user begins; a writer first gets the lane.  (One that waits
\* longer than the lane's timeout raises before it did anything.)
Begin(t, o, c) ==
  /\ up
  /\ o \in Ops
  /\ pc[t] = "idle"
  /\ o \in LaneOps => lane = None
  /\ lane' = IF o \in LaneOps THEN t ELSE lane
  /\ op' = [op EXCEPT ![t] = o]
  /\ pc' = [pc EXCEPT ![t] = "readSched"]
  /\ ctx' = [ctx EXCEPT ![t] = c]
  /\ UNCHANGED <<device, bank, granted, lapsed, up, saw, found, faults, crashes>>

UserBegins(t, o, c) ==
  /\ Begin(t, o, c)
  /\ ops < MaxOps
  /\ ops' = ops + 1

Redeem(t) == UserBegins(t, "redeem", "pre") /\ UNCHANGED rid
Start(t) == UserBegins(t, "start", "grant") /\ UNCHANGED rid
Cancel(t) == UserBegins(t, "cancel", "cancel") /\ UNCHANGED rid
Reader(t) == UserBegins(t, "reader", "reader") /\ UNCHANGED rid

Reserved == {i \in Ids : status[i] = "reserved"}

\* recover_device_reward_redemptions: an operator rechecks a held reservation.
Recheck(t) ==
  \E i \in Reserved :
    /\ UserBegins(t, "recheck", "recover")
    /\ rid' = [rid EXCEPT ![t] = i]

\* The automatic cycle first observes the device, outside the lane: its mode, then
\* its temporary access (_observe_plans, get_live_policy_plan).  A device that is
\* not NORMAL has no drift, and its observation is a read.
Observe(t) ==
  /\ Begin(t, "observe", IF mode = "normal" THEN "observe" ELSE "reader")
  /\ UNCHANGED <<ops, rid>>

\* A requested reconciliation reads the device under the lane only.
Enforce(t) == Begin(t, "enforce", "enforce") /\ UNCHANGED <<ops, rid>>

-----------------------------------------------------------------------------
(* get_device_temporary_access, for every context.                         *)

ReadSched(t) ==
  /\ pc[t] = "readSched"
  /\ saw' = [saw EXCEPT ![t] = sched]
  /\ pc' = [pc EXCEPT ![t] = "readScript"]
  /\ UNCHANGED <<device, bank, granted, lapsed, up, lane, op, ctx, found, rid, bounds>>

Stale(s) == s.state # "none" /\ (s.fired \/ s.state = "disabled")

\* Mutant: a disabled scheduler passes for an active override.
VerdictIgnoresDisabled(s, hasScript) ==
  IF s.state = "none" \/ s.fired THEN "inactive"
  ELSE IF hasScript THEN "active" ELSE "error"

\* An armed scheduler without its restore script raises.
Verdict(s, hasScript) ==
  IF s.state = "none" \/ Stale(s) THEN "inactive"
  ELSE IF hasScript THEN "active" ELSE "error"

\* RouterOS itself will restore the device.
Active == sched.state = "armed" /\ sched.due /\ script

\* Removing by name: the scheduler, the script.  Nobody who removes outside the
\* lane knows whose they are by now.
SchedRemoved(t) ==
  /\ sched' = NoSched
  /\ lapsed' = (lapsed \/ (Active /\ (lane # t \/ ctx[t] = "undo")))

ScriptRemoved(t) ==
  /\ script' = FALSE
  /\ lapsed' = (lapsed \/ (script /\ lane # t))

OrphanRemoved(t) ==
  IF saw[t].state = "none" THEN ScriptRemoved(t) ELSE UNCHANGED <<script, lapsed>>

\* A script that has no scheduler is removed; a scheduler that has run, or is
\* disabled, calls for a clean-up.
ReadScript(t) ==
  /\ pc[t] = "readScript"
  /\ OrphanRemoved(t)
  /\ found' = [found EXCEPT ![t] = Verdict(saw[t], script)]
  /\ pc' = [pc EXCEPT ![t] =
              IF Stale(saw[t]) /\ Verdict(saw[t], script) = "inactive"
              THEN "dropSched" ELSE "judge"]
  /\ UNCHANGED <<mode, sched, bank, granted, up, lane, op, ctx, saw, rid, bounds>>

Reads == {"pre", "grant", "final", "recheck", "cancel", "recover", "observe",
          "enforce", "verify", "reader"}

\* _cleanup_device_temp_resources finds its resources by name, whatever they
\* have become since the read that called for it.
DropSched(t) ==
  /\ pc[t] = "dropSched"
  /\ SchedRemoved(t)
  /\ Goto(t, "dropScript")
  /\ UNCHANGED <<mode, script, bank, granted, bounds>>

DropScript(t) ==
  /\ pc[t] = "dropScript"
  /\ ScriptRemoved(t)
  /\ \/ ctx[t] \in Reads /\ Goto(t, "judge")
     \/ ctx[t] = "clean" /\ Goto(t, "addScript")
     \/ ctx[t] = "undo" /\ GrantFails(t)
     \/ ctx[t] = "end" /\ Finish(t)
  /\ UNCHANGED <<mode, sched, bank, granted, bounds>>

\* A RouterOS call of a read or of a clean-up raises, before or after its effect.
ReadRaises(t) ==
  /\ pc[t] \in {"readSched", "readScript", "dropSched", "dropScript"}
  /\ Fault
  /\ \/ UNCHANGED <<sched, script, lapsed>>
     \/ pc[t] = "readScript" /\ OrphanRemoved(t) /\ UNCHANGED sched
     \/ pc[t] = "dropSched" /\ SchedRemoved(t) /\ UNCHANGED script
     \/ pc[t] = "dropScript" /\ ScriptRemoved(t) /\ UNCHANGED sched
  /\ \/ /\ ctx[t] \in Reads
        /\ found' = [found EXCEPT ![t] = "error"]
        /\ pc' = [pc EXCEPT ![t] = "judge"]
        /\ UNCHANGED <<op, ctx, saw, rid, lane, up>>
     \/ ctx[t] = "clean" /\ Call(t, "dropSched", "undo")
     \/ ctx[t] = "undo" /\ GrantFails(t)
     \/ ctx[t] = "end" /\ Finish(t)
  /\ UNCHANGED <<mode, bank, granted>>

-----------------------------------------------------------------------------
(* redeem_device_rewards, start_device_temporary_access and                *)
(* set_device_temporary_normal.                                            *)

\* reserve_reward_redemption: refused while a redemption is pending or the
\* balance is short; otherwise the debit and the reservation commit together.
Reserve(t) ==
  /\ pc[t] = "judge" /\ ctx[t] = "pre" /\ found[t] = "inactive"
  /\ Reserved = {} /\ balance > 0
  /\ \E i \in Ids :
       /\ status[i] = "none" /\ \A j \in 1..(i - 1) : status[j] # "none"
       /\ status' = [status EXCEPT ![i] = "reserved"]
       /\ rid' = [rid EXCEPT ![t] = i]
  /\ balance' = balance - 1
  /\ pc' = [pc EXCEPT ![t] = "readSched"]
  /\ ctx' = [ctx EXCEPT ![t] = "grant"]
  /\ saw' = [saw EXCEPT ![t] = NoSched]
  /\ found' = [found EXCEPT ![t] = "none"]
  /\ UNCHANGED <<device, credit, granted, lapsed, up, lane, op, bounds>>

Refuse(t) ==
  /\ pc[t] = "judge" /\ ctx[t] = "pre"
  /\ \/ found[t] # "inactive" \/ Reserved # {} \/ balance = 0
     \/ \A i \in Ids : status[i] # "none"     \* the bound on redemptions
  /\ Finish(t)
  /\ UNCHANGED <<device, bank, granted, lapsed, bounds>>

\* set_device_temporary_normal extends an active override in place; a new one
\* first cleans up what is left of an old one.
Grant(t) ==
  /\ pc[t] = "judge" /\ ctx[t] = "grant"
  /\ \/ found[t] = "active" /\ Goto(t, "extend")
     \/ found[t] = "inactive" /\ Call(t, "dropSched", "clean")
     \/ found[t] = "error" /\ GrantFails(t)
  /\ UNCHANGED <<device, bank, granted, lapsed, bounds>>

\* Mutant: NORMAL before the scheduler.
AddScriptOnly(t) ==
  /\ pc[t] = "addScript"
  /\ script' = TRUE
  /\ Goto(t, "normal")
  /\ UNCHANGED <<mode, sched, bank, granted, lapsed, bounds>>

AddScript(t) ==
  /\ pc[t] = "addScript"
  /\ script' = TRUE
  /\ Goto(t, "addSched")
  /\ UNCHANGED <<mode, sched, bank, granted, lapsed, bounds>>

\* With its script in place, the scheduler is a new guard.
SchedAdded(s) ==
  /\ sched' = s
  /\ lapsed' = (lapsed /\ ~script)

\* Mutant: the scheduler is created with the redemption's reference.
AddSchedBound(t) ==
  /\ pc[t] = "addSched"
  /\ SchedAdded([NewSched EXCEPT !.ref = rid[t]])
  /\ Goto(t, "normal")
  /\ UNCHANGED <<mode, script, bank, granted, bounds>>

AddSched(t) ==
  /\ pc[t] = "addSched"
  /\ SchedAdded(NewSched)
  /\ Goto(t, "normal")
  /\ UNCHANGED <<mode, script, bank, granted, bounds>>

AddRaises(t) ==
  /\ pc[t] \in {"addScript", "addSched"}
  /\ Fault
  /\ \/ UNCHANGED <<sched, script, lapsed>>
     \/ pc[t] = "addScript" /\ script' = TRUE /\ UNCHANGED <<sched, lapsed>>
     \/ pc[t] = "addSched" /\ SchedAdded(NewSched) /\ UNCHANGED script
  /\ Call(t, "dropSched", "undo")
  /\ UNCHANGED <<mode, bank, granted>>

\* Both resources must still be there to be extended.
Extend(t) ==
  /\ pc[t] = "extend"
  /\ IF sched.state # "none" /\ script THEN Goto(t, "rearm") ELSE GrantFails(t)
  /\ UNCHANGED <<device, bank, granted, lapsed, bounds>>

\* sched.set moves the deadline and keeps the run-count; the comment carries
\* the reference that was read.
Rearmed(s, ref) ==
  [state |-> "armed", due |-> TRUE, fired |-> s.fired, ref |-> ref]

\* One that ran after it was read passes for armed until the next read.
SchedExtended(t) ==
  /\ sched' = Rearmed(sched, saw[t].ref)
  /\ lapsed' = (sched.fired \/ (lapsed /\ ~script))

Rearm(t) ==
  /\ pc[t] = "rearm"
  /\ IF sched.state = "none"
     THEN UNCHANGED <<sched, lapsed>> /\ GrantFails(t)
     ELSE SchedExtended(t) /\ Goto(t, "normal")
  /\ UNCHANGED <<mode, script, bank, granted, bounds>>

ExtendRaises(t) ==
  /\ pc[t] \in {"extend", "rearm"}
  /\ Fault
  /\ \/ UNCHANGED <<sched, lapsed>>
     \/ pc[t] = "rearm" /\ sched.state # "none" /\ SchedExtended(t)
  /\ GrantFails(t)
  /\ UNCHANGED <<mode, script, bank, granted>>

Extending(t) == found[t] = "active"
WriteNormal(t) ==
  /\ mode' = "normal"
  /\ granted' = [i \in Ids |-> granted[i] \/ i = rid[t]]

\* set_device_mode(address, "normal")
Normal(t) ==
  /\ pc[t] = "normal"
  /\ WriteNormal(t)
  /\ IF op[t] = "redeem" /\ ~Extending(t)
     THEN Goto(t, "bind") ELSE Call(t, "readSched", "final")
  /\ UNCHANGED <<sched, script, bank, lapsed, bounds>>

\* It raises, before the device is released or in the validation after it; the
\* prepared resources of a new override are removed.
NormalRaises(t) ==
  /\ pc[t] = "normal"
  /\ Fault
  /\ WriteNormal(t) \/ UNCHANGED <<mode, granted>>
  /\ IF Extending(t) THEN GrantFails(t) ELSE Call(t, "dropSched", "undo")
  /\ UNCHANGED <<sched, script, bank, lapsed>>

SchedBound(t) == sched' = [sched EXCEPT !.ref = rid[t]]

\* The redemption is bound to the scheduler once NORMAL is validated.
Bind(t) ==
  /\ pc[t] = "bind"
  /\ IF sched.state = "none"
     THEN UNCHANGED sched /\ GrantFails(t)
     ELSE SchedBound(t) /\ Call(t, "readSched", "final")
  /\ UNCHANGED <<mode, script, bank, granted, lapsed, bounds>>

BindRaises(t) ==
  /\ pc[t] = "bind"
  /\ Fault
  /\ UNCHANGED sched \/ (sched.state # "none" /\ SchedBound(t))
  /\ GrantFails(t)
  /\ UNCHANGED <<mode, script, bank, granted, lapsed>>

\* The override must be active in the end; the result then carries the
\* reference that was bound.
Granted(t) ==
  /\ pc[t] = "judge" /\ ctx[t] = "final"
  /\ \/ found[t] # "active" /\ GrantFails(t)
     \/ found[t] = "active" /\ op[t] = "redeem" /\ Goto(t, "complete")
     \/ found[t] = "active" /\ op[t] # "redeem" /\ Finish(t)
  /\ UNCHANGED <<device, bank, granted, lapsed, bounds>>

-----------------------------------------------------------------------------
(* Settling a reservation: the failed redemption's recheck, the operator's *)
(* and start-up recovery.                                                  *)

Settle(t) ==
  /\ pc[t] = "judge" /\ ctx[t] \in {"recheck", "recover"}
  /\ \/ found[t] # "error" /\ saw[t].ref = rid[t] /\ Goto(t, "complete")
     \/ found[t] = "inactive" /\ saw[t].ref # rid[t] /\ Goto(t, "refund")
     \/ found[t] = "active" /\ saw[t].ref # rid[t] /\ Finish(t)
     \/ found[t] = "error" /\ Finish(t)
  /\ UNCHANGED <<device, bank, granted, lapsed, bounds>>

\* complete_reward_redemption checks the status...
Complete(t) ==
  /\ pc[t] = "complete"
  /\ IF status[rid[t]] = "reserved" THEN Goto(t, "applied") ELSE Finish(t)
  /\ UNCHANGED <<device, bank, granted, lapsed, bounds>>

\* ...and writes the new one in a statement of its own.
Applied(t) ==
  /\ pc[t] = "applied"
  /\ status' = [status EXCEPT ![rid[t]] = "applied"]
  /\ Finish(t)
  /\ UNCHANGED <<device, balance, credit, granted, lapsed, bounds>>

\* Mutant: the minutes go back and the row stays reserved.
RefundKeepsRow(t) ==
  /\ pc[t] = "refund"
  /\ balance' = IF status[rid[t]] = "reserved" THEN balance + 1 ELSE balance
  /\ Finish(t)
  /\ UNCHANGED <<device, status, credit, granted, lapsed, bounds>>

\* refund_reward_redemption: one transaction, for a reserved row only.
Refund(t) ==
  /\ pc[t] = "refund"
  /\ IF status[rid[t]] = "reserved"
     THEN /\ status' = [status EXCEPT ![rid[t]] = "refunded"]
          /\ balance' = balance + 1
     ELSE UNCHANGED <<status, balance>>
  /\ Finish(t)
  /\ UNCHANGED <<device, credit, granted, lapsed, bounds>>

-----------------------------------------------------------------------------
(* cancel_device_temporary_access and reconcile_device.                    *)

Cancelling(t) ==
  /\ pc[t] = "judge" /\ ctx[t] = "cancel"
  /\ IF found[t] = "active" THEN Goto(t, "disable") ELSE Finish(t)
  /\ UNCHANGED <<device, bank, granted, lapsed, bounds>>

\* Until the restore that follows, nothing guards the device.
SchedDisabled ==
  /\ sched' = [sched EXCEPT !.state = "disabled"]
  /\ lapsed' = TRUE

Disable(t) ==
  /\ pc[t] = "disable"
  /\ IF sched.state = "none"
     THEN UNCHANGED <<sched, lapsed>> /\ Finish(t)
     ELSE SchedDisabled /\ Goto(t, "restore")
  /\ UNCHANGED <<mode, script, bank, granted, bounds>>

Restore(t) ==
  /\ pc[t] = "restore"
  /\ mode' = "restricted"
  /\ Call(t, "dropSched", "end")
  /\ UNCHANGED <<sched, script, bank, granted, lapsed, bounds>>

RestoreRaises(t) ==
  /\ pc[t] = "restore"
  /\ Fault
  /\ mode' = "restricted" \/ UNCHANGED mode
  /\ Goto(t, "reenable")
  /\ UNCHANGED <<sched, script, bank, granted, lapsed>>

\* A deadline that went by in the meantime does not come back.
SchedEnabled ==
  /\ sched' = [sched EXCEPT !.state = "armed"]
  /\ lapsed' = (lapsed /\ ~(sched.due /\ ~sched.fired /\ script))

Reenable(t) ==
  /\ pc[t] = "reenable"
  /\ IF sched.state = "none" THEN UNCHANGED <<sched, lapsed>> ELSE SchedEnabled
  /\ Finish(t)
  /\ UNCHANGED <<mode, script, bank, granted, bounds>>

CancelRaises(t) ==
  /\ pc[t] \in {"disable", "reenable"}
  /\ Fault
  /\ \/ UNCHANGED <<sched, lapsed>>
     \/ pc[t] = "disable" /\ sched.state # "none" /\ SchedDisabled
     \/ pc[t] = "reenable" /\ sched.state # "none" /\ SchedEnabled
  /\ Finish(t)
  /\ UNCHANGED <<mode, script, bank, granted>>

\* A device that was NORMAL without temporary access is a candidate: the cycle
\* takes the lane and reads it again.  (A wait for the lane may time out.)
Observed(t) ==
  /\ pc[t] = "judge" /\ ctx[t] = "observe"
  /\ \/ /\ found[t] = "inactive" /\ lane = None
        /\ lane' = t
        /\ op' = [op EXCEPT ![t] = "enforce"]
        /\ pc' = [pc EXCEPT ![t] = "readSched"]
        /\ ctx' = [ctx EXCEPT ![t] = "enforce"]
        /\ saw' = [saw EXCEPT ![t] = NoSched]
        /\ found' = [found EXCEPT ![t] = "none"]
        /\ UNCHANGED <<rid, up>>
     \/ (found[t] # "inactive" \/ lane # None) /\ Finish(t)
  /\ UNCHANGED <<device, bank, granted, lapsed, bounds>>

\* Mutant: the reconciler ignores temporary access.
EnforcingAnyway(t) ==
  /\ pc[t] = "judge" /\ ctx[t] = "enforce"
  /\ IF found[t] # "error" /\ mode = "normal"
     THEN Goto(t, "restrict") ELSE Finish(t)
  /\ UNCHANGED <<device, bank, granted, lapsed, bounds>>

\* Temporary access wins over policy; otherwise NORMAL is drift.
Enforcing(t) ==
  /\ pc[t] = "judge" /\ ctx[t] = "enforce"
  /\ IF found[t] = "inactive" /\ mode = "normal"
     THEN Goto(t, "restrict") ELSE Finish(t)
  /\ UNCHANGED <<device, bank, granted, lapsed, bounds>>

WriteRestricted(t) ==
  /\ pc[t] = "restrict"
  /\ mode' = "restricted"
  /\ Call(t, "readSched", "verify")
  /\ UNCHANGED <<sched, script, bank, granted, lapsed, bounds>>

RestrictRaises(t) ==
  /\ pc[t] = "restrict"
  /\ Fault
  /\ mode' = "restricted" \/ UNCHANGED mode
  /\ Finish(t)
  /\ UNCHANGED <<sched, script, bank, granted, lapsed>>

ReadDone(t) ==
  /\ pc[t] = "judge" /\ ctx[t] \in {"verify", "reader"}
  /\ Finish(t)
  /\ UNCHANGED <<device, bank, granted, lapsed, bounds>>

-----------------------------------------------------------------------------
(* RouterOS, the bank's operator, and the process.                         *)

Expired(s) == [s EXCEPT !.due = FALSE, !.fired = TRUE]

\* The scheduler runs its script, if there is one.  A deadline lies at least 15
\* minutes ahead when it is set, so not before the mode write that follows.
Expire ==
  /\ sched.state = "armed" /\ sched.due
  /\ \A t \in Threads : pc[t] # "normal"
  /\ sched' = Expired(sched)
  /\ mode' = IF script THEN "restricted" ELSE mode
  /\ UNCHANGED <<script, bank, granted, lapsed, up, lane, thread, bounds>>

\* A deadline goes by while the scheduler is disabled.
Miss ==
  /\ sched.state = "disabled" /\ sched.due
  /\ sched' = [sched EXCEPT !.due = FALSE]
  /\ UNCHANGED <<mode, script, bank, granted, lapsed, up, lane, thread, bounds>>

\* adjust_reward_minutes, up to the cap and never below zero.
Adjust ==
  /\ \/ credit < MaxCredit /\ balance' = balance + 1 /\ credit' = credit + 1
     \/ balance > 0 /\ balance' = balance - 1 /\ credit' = credit - 1
  /\ UNCHANGED <<device, status, granted, lapsed, up, lane, thread, bounds>>

Crash ==
  /\ crashes < MaxCrashes
  /\ crashes' = crashes + 1
  /\ up' = FALSE
  /\ lane' = None
  /\ op' = [t \in Threads |-> "none"]
  /\ pc' = [t \in Threads |-> "idle"]
  /\ ctx' = [t \in Threads |-> "none"]
  /\ saw' = [t \in Threads |-> NoSched]
  /\ found' = [t \in Threads |-> "none"]
  /\ rid' = [t \in Threads |-> NoId]
  /\ UNCHANGED <<device, bank, granted, lapsed, ops, faults>>

\* Start-up settles the pending redemption, if there is one, before it serves.
Boot ==
  /\ ~up
  /\ \A t \in Threads : pc[t] = "idle"
  /\ \/ /\ Reserved = {}
        /\ up' = TRUE
        /\ UNCHANGED thread
     \/ \E i \in Reserved, t \in Threads :
          /\ op' = [op EXCEPT ![t] = "startup"]
          /\ pc' = [pc EXCEPT ![t] = "readSched"]
          /\ ctx' = [ctx EXCEPT ![t] = "recover"]
          /\ rid' = [rid EXCEPT ![t] = i]
          /\ UNCHANGED <<up, saw, found>>
  /\ UNCHANGED <<device, bank, granted, lapsed, lane, bounds>>

Continue(t) ==
  \/ ReadSched(t) \/ ReadScript(t) \/ DropSched(t) \/ DropScript(t)
  \/ Reserve(t) \/ Refuse(t) \/ Grant(t) \/ AddScript(t) \/ AddSched(t)
  \/ Extend(t) \/ Rearm(t) \/ Normal(t) \/ Bind(t) \/ Granted(t)
  \/ Settle(t) \/ Complete(t) \/ Applied(t) \/ Refund(t)
  \/ Cancelling(t) \/ Disable(t) \/ Restore(t) \/ Reenable(t)
  \/ Observed(t) \/ Enforcing(t) \/ WriteRestricted(t) \/ ReadDone(t)

Raises(t) ==
  \/ ReadRaises(t) \/ AddRaises(t) \/ ExtendRaises(t) \/ NormalRaises(t)
  \/ BindRaises(t) \/ RestoreRaises(t) \/ CancelRaises(t) \/ RestrictRaises(t)

Requests(t) ==
  Redeem(t) \/ Start(t) \/ Cancel(t) \/ Reader(t) \/ Recheck(t)

Next ==
  \/ \E t \in Threads :
       Requests(t) \/ Observe(t) \/ Enforce(t) \/ Continue(t) \/ Raises(t)
  \/ Expire \/ Miss \/ Adjust \/ Crash \/ Boot

Spec == Init /\ [][Next]_vars

\* A thread that began goes on, RouterOS keeps its clock, the container restarts
\* the process, and the reconciler's loop comes back to the device.
FairSpec ==
  /\ Spec
  /\ \A t \in Threads : WF_vars(Continue(t))
  /\ WF_vars(Expire) /\ WF_vars(Boot)
  /\ WF_vars(\E t \in Threads : Observe(t))

-----------------------------------------------------------------------------
(* Properties.                                                             *)

\* At any instant, a NORMAL device has an armed scheduler that is still due, with
\* its script (set_device_temporary_normal, "with RouterOS fail-safe
\* restore"), unless its guard lapsed in one of the four ways that lapsed records:
\* a clean-up outside the lane took it, a failed grant removed what it had
\* prepared, an extension renewed a scheduler that had just run, or a cancel
\* disabled it and did not get to restore the device.
FailSafe == mode = "normal" => Active \/ lapsed

\* The docstring's promise outside a mutation, without exceptions: refuted.
AlwaysGuarded == mode = "normal" /\ lane = None => Active

\* A redemption is marked applied only if NORMAL was written for it: the
\* reference on the scheduler is evidence of a grant (reward_recovery).
AppliedMeansGranted == \A i \in Ids : status[i] = "applied" => granted[i]

\* The bank balances: every credited unit is in the account, held by a
\* reservation, or spent (reserve, complete and refund across crashes).
Conservation ==
  balance + Cardinality({i \in Ids : status[i] \in {"reserved", "applied"}}) = credit

\* Nothing but its own expiry restricts a device whose temporary access is
\* active: the reconciler never overwrites it, a cancel disables it first.
ActiveAccessKept ==
  [][mode = "normal" /\ mode' = "restricted" /\ Active => sched'.fired]_vars

\* A cancel failed and re-enabled a scheduler whose deadline had gone by: it is
\* read as active access, and RouterOS will not run it.
Stranded == sched.state = "armed" /\ ~sched.due /\ ~sched.fired

\* While the reconciler runs, NORMAL never lasts, whatever readers, faults and
\* crashes did to the scheduler and its script, except for a stranded scheduler.
NormalIsTemporary == mode = "normal" ~> mode = "restricted" \/ Stranded

\* "A failed cancel does not discard the RouterOS restore safety net"
\* (cancel_device_temporary_access): refuted.
AlwaysEnds == mode = "normal" ~> mode = "restricted"
=============================================================================

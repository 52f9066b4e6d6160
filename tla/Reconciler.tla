----------------------------- MODULE Reconciler -----------------------------
(***************************************************************************)
(* AutoReconciler and the durable queue of reconciliation requests         *)
(* (app/reconciler.py, the reconciliation_requests table of                *)
(* app/policy_store.py, and the routes of app/main.py that use them).      *)
(*                                                                         *)
(* The loop thread serves at most RequestsPerWake requests, then runs one  *)
(* automatic cycle; UI threads run a cycle now or transfer authority.  All *)
(* of them contend for the cycle lock, and for the RouterOS mutation lane  *)
(* while they write.                                                       *)
(*                                                                         *)
(* The policy of a device is a version number: desired is the version the  *)
(* effective policy asks for, live the version RouterOS enforces.  The     *)
(* wake event only shortens a wait that has a timeout, so a sleeping loop  *)
(* may wake at any time and the event is not a variable.                   *)
(***************************************************************************)
EXTENDS Naturals, FiniteSets

CONSTANTS
  Devices,         \* managed devices
  Ui,              \* threads that serve routes
  Loop,            \* the thread policy-auto-reconciler
  None,            \* nobody owns a lock
  All,             \* the request target "*"
  RequestsPerWake, \* requests served before the automatic cycle
  Threshold,       \* auto_reconcile_failure_threshold
  MaxRequests,     \* bound: requests of users
  MaxRevision,     \* bound: configuration revisions
  MaxSurprises,    \* bound: changes that no configuration write announces
  MaxUiRuns,       \* bound: cycles and transfers started from the UI
  MaxFaults,       \* bound: RouterOS calls that fail, lane time-outs
  MaxDbFaults,     \* bound: calls of the policy store that fail
  MaxCrashes       \* bound: crashes

Threads == Ui \cup {Loop}
Modes == {"off", "observe", "enforce"}
RowIds == 1..(MaxRequests + MaxRevision)

ASSUME ThreadsAssumption == Loop \notin Ui /\ None \notin Ui \cup {Loop}
ASSUME DevicesAssumption == All \notin Devices /\ None \notin Devices
ASSUME LimitsAssumption ==
  RequestsPerWake \in Nat \ {0} /\ Threshold \in Nat \ {0}
ASSUME BoundsAssumption ==
  /\ MaxRequests \in Nat /\ MaxRevision \in Nat \ {0} /\ MaxSurprises \in Nat
  /\ MaxUiRuns \in Nat /\ MaxFaults \in Nat /\ MaxDbFaults \in Nat
  /\ MaxCrashes \in Nat

VARIABLES
  revision,   \* config_revision_state.revision
  desired,    \* device -> version of its effective policy
  live,       \* device -> version RouterOS enforces
  temp,       \* devices with active temporary access
  secure,     \* RouterOS's enforcement contract is intact
  mode,       \* setting auto_reconcile_mode
  failures,   \* _consecutive_failures
  hold,       \* _hold_until_epoch lies ahead
  rows,       \* reconciliation_requests
  cycle,      \* owner of _cycle_lock
  lane,       \* owner of the RouterOS mutation lane
  pc, kind,   \* thread -> where it is, and in which of its operations
  run,        \* thread -> mode of its cycle
  left,       \* requests the loop may still serve before its cycle
  todo,       \* thread -> devices it has still to observe or reconcile
  drifted,    \* thread -> candidates its observation found
  dev, plan,  \* thread -> device it writes, and the version it planned
  failed,     \* thread -> some device failed
  spared,     \* thread -> some device has temporary access
  req,        \* request the loop serves
  from, fin,  \* revisions when that request started and when it ended
  asked, surprises, uiRuns, faults, dbFaults, crashes

env == <<desired, temp, secure>>
db == <<revision, mode, rows>>
breaker == <<failures, hold>>
locks == <<cycle, lane>>
local == <<pc, kind, run, left, todo, drifted, dev, plan, failed, spared, req,
           from, fin>>
bounds == <<asked, surprises, uiRuns, faults, dbFaults, crashes>>
vars == <<env, live, db, breaker, locks, local, bounds>>

-----------------------------------------------------------------------------
NoRow == [target |-> All, status |-> "none"]
\* Mixed: some of mode, bandwidth and services were written, and some were not.
Mixed == MaxRevision + MaxSurprises + 1
Versions == 0..Mixed
Finals == {"succeeded", "temporary", "failed", "superseded"}
RequestRow ==
  [target : Devices \cup {All},
   status : {"none", "pending", "running"} \cup Finals]

InCycle == {"settings", "gate", "observe", "takeLane", "prove", "device", "write",
            "verify", "record", "settle", "finish", "requeue", "abort",
            "waitLane", "transfer"}
InLane == {"prove", "device", "write", "verify", "transfer"}
Labels == InCycle \cup {"idle", "boot", "top", "next", "try", "sleep", "dead"}

TypeOK ==
  /\ revision \in 1..MaxRevision
  /\ desired \in [Devices -> Versions]
  /\ live \in [Devices -> Versions]
  /\ temp \subseteq Devices
  /\ secure \in BOOLEAN
  /\ mode \in Modes
  /\ failures \in Nat
  /\ hold \in BOOLEAN
  /\ rows \in [RowIds -> RequestRow]
  /\ cycle \in Threads \cup {None}
  /\ lane \in Threads \cup {None}
  /\ pc \in [Threads -> Labels]
  /\ kind \in [Threads -> {"none", "request", "cycle", "transfer"}]
  /\ run \in [Threads -> Modes]
  /\ left \in 0..RequestsPerWake
  /\ todo \in [Threads -> SUBSET Devices]
  /\ drifted \in [Threads -> SUBSET Devices]
  /\ dev \in [Threads -> Devices \cup {None}]
  /\ plan \in [Threads -> Versions]
  /\ failed \in [Threads -> BOOLEAN]
  /\ spared \in [Threads -> BOOLEAN]
  /\ req \in RowIds \cup {0}
  /\ from \in 0..MaxRevision
  /\ fin \in 0..MaxRevision
  /\ asked \in 0..MaxRequests
  /\ surprises \in 0..MaxSurprises
  /\ uiRuns \in 0..MaxUiRuns
  /\ faults \in 0..MaxFaults
  /\ dbFaults \in 0..MaxDbFaults
  /\ crashes \in 0..MaxCrashes

Init ==
  /\ revision = 1
  /\ desired = [d \in Devices |-> 0]
  /\ live = [d \in Devices |-> 0]
  /\ temp = {}
  /\ secure = TRUE
  /\ mode \in Modes
  /\ failures = 0 /\ hold = FALSE
  /\ rows = [i \in RowIds |-> NoRow]
  /\ cycle = None /\ lane = None
  /\ pc = [t \in Threads |-> IF t = Loop THEN "boot" ELSE "idle"]
  /\ kind = [t \in Threads |-> "none"]
  /\ run = [t \in Threads |-> "off"]
  /\ left = 0
  /\ todo = [t \in Threads |-> {}]
  /\ drifted = [t \in Threads |-> {}]
  /\ dev = [t \in Threads |-> None]
  /\ plan = [t \in Threads |-> 0]
  /\ failed = [t \in Threads |-> FALSE]
  /\ spared = [t \in Threads |-> FALSE]
  /\ req = 0 /\ from = 0 /\ fin = 0
  /\ asked = 0 /\ surprises = 0 /\ uiRuns = 0
  /\ faults = 0 /\ dbFaults = 0 /\ crashes = 0

-----------------------------------------------------------------------------
(* Configuration writers, the clock, RouterOS and other mutators.          *)

\* A configuration write gives some devices a new policy.
ConfigWrite ==
  /\ revision < MaxRevision
  /\ revision' = revision + 1
  /\ \E changed \in SUBSET Devices :
       desired' = [d \in Devices |->
                     IF d \in changed THEN desired[d] + 1 ELSE desired[d]]
  /\ UNCHANGED <<live, temp, secure, mode, rows, breaker, locks, local, bounds>>

\* The settings route writes the mode, then clears the hold.
SetMode ==
  /\ revision < MaxRevision
  /\ revision' = revision + 1
  /\ \E m \in Modes \ {mode} : mode' = m
  /\ failures' = 0 /\ hold' = FALSE
  /\ UNCHANGED <<env, live, rows, locks, local, bounds>>

Surprise ==
  /\ surprises < MaxSurprises
  /\ surprises' = surprises + 1
  /\ UNCHANGED <<asked, uiRuns, faults, dbFaults, crashes>>

\* A schedule window or a quota begins or ends: no revision tells.
Boundary ==
  /\ Surprise
  /\ \E d \in Devices : desired' = [desired EXCEPT ![d] = @ + 1]
  /\ UNCHANGED <<live, temp, secure, db, breaker, locks, local>>

\* A manual enforcement route, under the lane, gives a device another mode.
ManualMode ==
  /\ lane = None
  /\ Surprise
  /\ \E d \in Devices : live' = [live EXCEPT ![d] = 0]
  /\ UNCHANGED <<env, db, breaker, locks, local>>

\* Temporary access starts under the lane, and ends by itself.
TempChange ==
  /\ Surprise
  /\ \E d \in Devices :
       \/ d \notin temp /\ lane = None /\ temp' = temp \cup {d}
       \/ d \in temp /\ temp' = temp \ {d}
  /\ UNCHANGED <<desired, secure, live, db, breaker, locks, local>>

\* RouterOS's hardening is broken, or repaired, by its administrator.
PostureChange ==
  /\ Surprise
  /\ secure' = ~secure
  /\ UNCHANGED <<desired, temp, live, db, breaker, locks, local>>

HoldExpires ==
  /\ hold
  /\ hold' = FALSE
  /\ UNCHANGED <<env, live, db, failures, locks, local, bounds>>

ClearHold ==
  /\ hold
  /\ failures' = 0 /\ hold' = FALSE
  /\ UNCHANGED <<env, live, db, locks, local, bounds>>

-----------------------------------------------------------------------------
(* The queue.                                                              *)

Pending == {i \in RowIds : rows[i].status = "pending"}
Fresh(i) == /\ rows[i].status = "none"
            /\ \A j \in RowIds : j < i => rows[j].status # "none"
\* Row i with status s.
Marked(i, s) == [target |-> rows[i].target, status |-> s]

\* Mutant: pending requests of every target give way.
EnqueuedOverAll(target) ==
  [i \in RowIds |->
     IF Fresh(i) THEN [target |-> target, status |-> "pending"]
     ELSE IF i \in Pending THEN Marked(i, "superseded") ELSE rows[i]]

\* enqueue_reconciliation_request: pending requests of the target give way.
Enqueued(target) ==
  [i \in RowIds |->
     IF Fresh(i) THEN [target |-> target, status |-> "pending"]
     ELSE IF i \in Pending /\ rows[i].target = target
     THEN Marked(i, "superseded") ELSE rows[i]]

Request ==
  /\ asked < MaxRequests
  /\ asked' = asked + 1
  /\ \E target \in Devices \cup {All} : rows' = Enqueued(target)
  /\ UNCHANGED <<env, live, revision, mode, breaker, locks, local, surprises,
                 uiRuns, faults, dbFaults, crashes>>

-----------------------------------------------------------------------------
(* Control flow.                                                           *)

Goto(t, l) == pc' = [pc EXCEPT ![t] = l]

\* What a thread's operation leaves behind in its locals.
Clear(t) ==
  /\ kind' = [kind EXCEPT ![t] = "none"]
  /\ todo' = [todo EXCEPT ![t] = {}]
  /\ drifted' = [drifted EXCEPT ![t] = {}]
  /\ dev' = [dev EXCEPT ![t] = None]
  /\ plan' = [plan EXCEPT ![t] = 0]
  /\ failed' = [failed EXCEPT ![t] = FALSE]
  /\ spared' = [spared EXCEPT ![t] = FALSE]

Return(t) ==
  /\ Clear(t)
  /\ run' = [run EXCEPT ![t] = "off"]
  /\ Goto(t, IF t = Loop THEN "sleep" ELSE "idle")

Fault ==
  /\ faults < MaxFaults
  /\ faults' = faults + 1
  /\ UNCHANGED <<asked, surprises, uiRuns, dbFaults, crashes>>
DbFault ==
  /\ dbFaults < MaxDbFaults
  /\ dbFaults' = dbFaults + 1
  /\ UNCHANGED <<asked, surprises, uiRuns, faults, crashes>>

\* _loop first returns interrupted requests to the queue.
Boot ==
  /\ pc[Loop] = "boot"
  /\ rows' = [i \in RowIds |-> IF rows[i].status = "running"
                               THEN Marked(i, "pending") ELSE rows[i]]
  /\ Goto(Loop, "top")
  /\ UNCHANGED <<env, live, revision, mode, breaker, locks, kind, run, left, todo,
                 drifted, dev, plan, failed, spared, req, from, fin, bounds>>

\* The recovery raises: the loop swallows it, and leaves the rows as they are.
BootRaises ==
  /\ pc[Loop] = "boot"
  /\ DbFault
  /\ Goto(Loop, "top")
  /\ UNCHANGED <<env, live, db, breaker, locks, kind, run, left, todo, drifted, dev,
                 plan, failed, spared, req, from, fin>>

Top ==
  /\ pc[Loop] = "top"
  /\ run' = [run EXCEPT ![Loop] = mode]
  /\ left' = RequestsPerWake
  /\ Goto(Loop, "next")
  /\ UNCHANGED <<env, live, db, breaker, locks, kind, todo, drifted, dev, plan,
                 failed, spared, req, from, fin, bounds>>

\* settings() raises outside every try block of _loop: the thread ends.
TopRaises ==
  /\ pc[Loop] = "top"
  /\ DbFault
  /\ Goto(Loop, "dead")
  /\ UNCHANGED <<env, live, db, breaker, locks, kind, run, left, todo, drifted,
                 dev, plan, failed, spared, req, from, fin>>

Targets(i) == IF rows[i].target = All THEN Devices ELSE {rows[i].target}

\* run_requested_reconciliation gets the cycle lock and claims the oldest row.
ClaimRequest ==
  /\ pc[Loop] = "next"
  /\ left > 0
  /\ cycle = None
  /\ \E i \in Pending :
       /\ \A j \in Pending : i <= j
       /\ rows' = [rows EXCEPT ![i] = Marked(i, "running")]
       /\ req' = i
       /\ todo' = [todo EXCEPT ![Loop] = Targets(i)]
  /\ cycle' = Loop
  /\ kind' = [kind EXCEPT ![Loop] = "request"]
  /\ from' = revision
  /\ Goto(Loop, "takeLane")
  /\ UNCHANGED <<env, live, revision, mode, breaker, lane, run, left, drifted, dev,
                 plan, failed, spared, fin, bounds>>

NoRequest ==
  /\ pc[Loop] = "next"
  /\ left = 0 \/ cycle # None \/ Pending = {}
  /\ left' = 0
  /\ Goto(Loop, IF run[Loop] = "off" THEN "sleep" ELSE "try")
  /\ UNCHANGED <<env, live, db, breaker, locks, kind, run, todo, drifted, dev, plan,
                 failed, spared, req, from, fin, bounds>>

\* wake or timeout
Awake ==
  /\ pc[Loop] = "sleep"
  /\ Goto(Loop, "top")
  /\ UNCHANGED <<env, live, db, breaker, locks, kind, run, left, todo, drifted, dev,
                 plan, failed, spared, req, from, fin, bounds>>

UiRun ==
  /\ uiRuns < MaxUiRuns
  /\ uiRuns' = uiRuns + 1
  /\ UNCHANGED <<asked, surprises, faults, dbFaults, crashes>>

\* local_reconciler_run_now
RunNow(t) ==
  /\ pc[t] = "idle"
  /\ UiRun
  /\ \E m \in {"observe", "enforce"} : run' = [run EXCEPT ![t] = m]
  /\ Goto(t, "try")
  /\ UNCHANGED <<env, live, db, breaker, locks, kind, left, todo, drifted, dev, plan,
                 failed, spared, req, from, fin>>

\* authority_transfer_guard: the cycle lock, then the lane.  (On a time-out it
\* raises and has done nothing.)
BeginTransfer(t) ==
  /\ pc[t] = "idle"
  /\ UiRun
  /\ cycle = None
  /\ cycle' = t
  /\ kind' = [kind EXCEPT ![t] = "transfer"]
  /\ Goto(t, "waitLane")
  /\ UNCHANGED <<env, live, db, breaker, lane, run, left, todo, drifted, dev, plan,
                 failed, spared, req, from, fin>>

Transfer(t) ==
  /\ pc[t] = "waitLane"
  /\ lane = None
  /\ lane' = t
  /\ Goto(t, "transfer")
  /\ UNCHANGED <<env, live, db, breaker, cycle, kind, run, left, todo, drifted, dev,
                 plan, failed, spared, req, from, fin, bounds>>

EndTransfer(t) ==
  /\ pc[t] = "transfer"
  /\ cycle' = None /\ lane' = None
  /\ Return(t)
  /\ UNCHANGED <<env, live, db, breaker, left, req, from, fin, bounds>>

-----------------------------------------------------------------------------
(* run_cycle.                                                              *)

\* Mutant: the cycle lock is not tried.
EnterCycleAnyway(t) ==
  /\ pc[t] = "try"
  /\ cycle' = t
  /\ kind' = [kind EXCEPT ![t] = "cycle"]
  /\ Goto(t, "settings")
  /\ UNCHANGED <<run, todo, drifted, dev, plan, failed, spared>>
  /\ UNCHANGED <<env, live, db, breaker, lane, left, req, from, fin, bounds>>

EnterCycle(t) ==
  /\ pc[t] = "try"
  /\ IF cycle = None
     THEN /\ cycle' = t
          /\ kind' = [kind EXCEPT ![t] = "cycle"]
          /\ Goto(t, "settings")
          /\ UNCHANGED <<run, todo, drifted, dev, plan, failed, spared>>
     ELSE Return(t) /\ UNCHANGED cycle
  /\ UNCHANGED <<env, live, db, breaker, lane, left, req, from, fin, bounds>>

\* A background cycle takes its mode from the settings; a UI cycle brings it.
ReadSettings(t) ==
  /\ pc[t] = "settings"
  /\ run' = [run EXCEPT ![t] = IF t = Loop THEN mode ELSE run[t]]
  /\ Goto(t, "gate")
  /\ UNCHANGED <<env, live, db, breaker, locks, kind, left, todo, drifted, dev, plan,
                 failed, spared, req, from, fin, bounds>>

\* settings() raises between the acquire and the try block: nobody releases
\* the cycle lock.
SettingsRaise(t) ==
  /\ pc[t] = "settings"
  /\ DbFault
  /\ Return(t)
  /\ UNCHANGED <<env, live, db, breaker, locks, left, req, from, fin>>

Leave(t) == cycle' = None /\ Return(t)

\* Mutant: the count of failures holds, and not the time.
RefusedByCount(t) ==
  run[t] = "off" \/ (run[t] = "enforce" /\ (failures >= Threshold \/ ~secure))

\* OFF, the cooldown hold and the security hold end the cycle here.
Refused(t) ==
  run[t] = "off" \/ (run[t] = "enforce" /\ (hold \/ ~secure))

Gate(t) ==
  /\ pc[t] = "gate"
  /\ IF Refused(t)
     THEN Leave(t)
     ELSE /\ todo' = [todo EXCEPT ![t] = Devices]
          /\ Goto(t, "observe")
          /\ UNCHANGED <<cycle, kind, run, drifted, dev, plan, failed, spared>>
  /\ UNCHANGED <<env, live, db, breaker, lane, left, req, from, fin, bounds>>

\* Plans are read in parallel, each at a moment of its own.
Observe(t) ==
  /\ pc[t] = "observe"
  /\ \E d \in todo[t] :
       /\ todo' = [todo EXCEPT ![t] = @ \ {d}]
       /\ drifted' = [drifted EXCEPT ![t] =
                        IF d \notin temp /\ live[d] # desired[d] THEN @ \cup {d} ELSE @]
  /\ UNCHANGED <<env, live, db, breaker, locks, pc, kind, run, left, dev, plan,
                 failed, spared, req, from, fin, bounds>>

ObserveRaises(t) ==
  /\ pc[t] = "observe"
  /\ Fault
  /\ \E d \in todo[t] : todo' = [todo EXCEPT ![t] = @ \ {d}]
  /\ failed' = [failed EXCEPT ![t] = TRUE]
  /\ UNCHANGED <<env, live, db, breaker, locks, pc, kind, run, left, drifted, dev,
                 plan, spared, req, from, fin>>

Observed(t) ==
  /\ pc[t] = "observe"
  /\ todo[t] = {}
  /\ IF run[t] = "enforce" /\ drifted[t] # {}
     THEN todo' = [todo EXCEPT ![t] = drifted[t]] /\ Goto(t, "takeLane")
     ELSE UNCHANGED todo /\ Goto(t, "record")
  /\ drifted' = [drifted EXCEPT ![t] = {}]
  /\ UNCHANGED <<env, live, db, breaker, locks, kind, run, left, dev, plan, failed,
                 spared, req, from, fin, bounds>>

\* _record_failed_cycle and _record_successful_cycle; only ENFORCE counts.
Recorded(t, bad) ==
  IF run[t] # "enforce" THEN UNCHANGED breaker
  ELSE IF bad THEN /\ failures' = failures + 1
                   /\ hold' = (hold \/ failures + 1 >= Threshold)
              ELSE failures' = 0 /\ hold' = FALSE

Record(t) ==
  /\ pc[t] = "record"
  /\ Recorded(t, failed[t])
  /\ Leave(t)
  /\ UNCHANGED <<env, live, db, lane, left, req, from, fin, bounds>>

\* The security posture or the inventory cannot be read: the cycle fails.
GateRaises(t) ==
  /\ pc[t] = "gate"
  /\ run[t] # "off"
  /\ Fault
  /\ Recorded(t, TRUE)
  /\ Leave(t)
  /\ UNCHANGED <<env, live, db, lane, left, req, from, fin>>

-----------------------------------------------------------------------------
(* The write phase, shared by cycles and requests.                         *)

TakeLane(t) ==
  /\ pc[t] = "takeLane"
  /\ lane = None
  /\ lane' = t
  /\ Goto(t, "prove")
  /\ UNCHANGED <<env, live, db, breaker, cycle, kind, run, left, todo, drifted, dev,
                 plan, failed, spared, req, from, fin, bounds>>

\* Another mutation keeps the lane too long, or the posture cannot be read.
LaneRaises(t) ==
  /\ pc[t] \in {"takeLane", "prove"}
  /\ Fault
  /\ lane' = IF lane = t THEN None ELSE lane
  /\ IF kind[t] = "cycle"
     THEN Recorded(t, TRUE) /\ Leave(t)
     ELSE /\ Goto(t, "abort")
          /\ UNCHANGED <<breaker, cycle, kind, run, todo, drifted, dev, plan, failed,
                         spared>>
  /\ UNCHANGED <<env, live, db, left, req, from, fin>>

\* The contract is proven again by the owner of the lane.  A degraded one ends
\* a cycle as a security hold and fails a request.
Prove(t) ==
  /\ pc[t] = "prove"
  /\ \/ /\ secure
        /\ Goto(t, "device")
        /\ UNCHANGED <<lane, cycle, kind, run, todo, drifted, dev, plan, failed,
                       spared>>
     \/ ~secure /\ kind[t] = "cycle" /\ lane' = None /\ Leave(t)
     \/ /\ ~secure /\ kind[t] = "request"
        /\ lane' = None
        /\ Goto(t, "abort")
        /\ UNCHANGED <<cycle, kind, run, todo, drifted, dev, plan, failed, spared>>
  /\ UNCHANGED <<env, live, db, breaker, left, req, from, fin, bounds>>

\* reconcile_device: a fresh plan decides.
Device(t) ==
  /\ pc[t] = "device"
  /\ \E d \in todo[t] :
       IF d \notin temp /\ live[d] # desired[d]
       THEN /\ dev' = [dev EXCEPT ![t] = d]
            /\ plan' = [plan EXCEPT ![t] = desired[d]]
            /\ Goto(t, "write")
            /\ UNCHANGED <<todo, spared>>
       ELSE /\ todo' = [todo EXCEPT ![t] = @ \ {d}]
            /\ spared' = [spared EXCEPT ![t] = @ \/ d \in temp]
            /\ UNCHANGED <<pc, dev, plan>>
  /\ UNCHANGED <<env, live, db, breaker, locks, kind, run, left, drifted, failed, req,
                 from, fin, bounds>>

\* set_device_mode, set_device_bandwidth and set_device_services, in this order.
Write(t) ==
  /\ pc[t] = "write"
  /\ live' = [live EXCEPT ![dev[t]] = plan[t]]
  /\ Goto(t, "verify")
  /\ UNCHANGED <<env, db, breaker, locks, kind, run, left, todo, drifted, dev, plan,
                 failed, spared, req, from, fin, bounds>>

NextDevice(t) ==
  /\ todo' = [todo EXCEPT ![t] = @ \ {dev[t]}]
  /\ dev' = [dev EXCEPT ![t] = None]
  /\ plan' = [plan EXCEPT ![t] = 0]
  /\ Goto(t, "device")

\* The plan is loaded again: drift now means it did not converge.
Verify(t) ==
  /\ pc[t] = "verify"
  /\ failed' = [failed EXCEPT ![t] = @ \/ live[dev[t]] # desired[dev[t]]]
  /\ NextDevice(t)
  /\ UNCHANGED <<env, live, db, breaker, locks, kind, run, left, drifted, spared, req,
                 from, fin, bounds>>

\* A call for one device raises, before its effect, after it, or between two of
\* the writes; the next device is tried.
DeviceRaises(t) ==
  /\ pc[t] \in {"write", "verify"}
  /\ Fault
  /\ \/ UNCHANGED live
     \/ pc[t] = "write" /\ \E v \in {plan[t], Mixed} : live' = [live EXCEPT ![dev[t]] = v]
  /\ failed' = [failed EXCEPT ![t] = TRUE]
  /\ NextDevice(t)
  /\ UNCHANGED <<env, db, breaker, locks, kind, run, left, drifted, spared, req, from,
                 fin>>

PlanRaises(t) ==
  /\ pc[t] = "device"
  /\ Fault
  /\ \E d \in todo[t] : todo' = [todo EXCEPT ![t] = @ \ {d}]
  /\ failed' = [failed EXCEPT ![t] = TRUE]
  /\ UNCHANGED <<env, live, db, breaker, locks, pc, kind, run, left, drifted, dev,
                 plan, spared, req, from, fin>>

AllDone(t) ==
  /\ pc[t] = "device"
  /\ todo[t] = {}
  /\ lane' = None
  /\ Goto(t, IF kind[t] = "cycle" THEN "record" ELSE "settle")
  /\ UNCHANGED <<env, live, db, breaker, cycle, kind, run, left, todo, drifted, dev,
                 plan, failed, spared, req, from, fin, bounds>>

-----------------------------------------------------------------------------
(* The end of run_requested_reconciliation.                                *)

Settle ==
  /\ pc[Loop] = "settle"
  /\ fin' = revision
  /\ Goto(Loop, "finish")
  /\ UNCHANGED <<env, live, db, breaker, locks, kind, run, left, todo, drifted, dev,
                 plan, failed, spared, req, from, bounds>>

\* Mutant: a revision that changed meanwhile is not noticed.
OutcomeIgnoresRevision ==
  IF failed[Loop] THEN "failed" ELSE IF spared[Loop] THEN "temporary" ELSE "succeeded"

\* A failure takes precedence over a changed revision.
Outcome ==
  IF failed[Loop] THEN "failed"
  ELSE IF fin # from THEN "superseded"
  ELSE IF spared[Loop] THEN "temporary" ELSE "succeeded"

\* The loop goes on with the next request, keeping the mode it read.
Served(n) ==
  /\ Clear(Loop)
  /\ cycle' = None
  /\ left' = n
  /\ req' = 0 /\ from' = 0 /\ fin' = 0
  /\ Goto(Loop, "next")
  /\ UNCHANGED run

Finish ==
  /\ pc[Loop] = "finish"
  /\ rows' = [rows EXCEPT ![req] = Marked(req, Outcome)]
  /\ IF Outcome = "superseded"
     THEN /\ Goto(Loop, "requeue")
          /\ UNCHANGED <<cycle, kind, run, left, todo, drifted, dev, plan, failed,
                         spared, req, from, fin>>
     ELSE Served(left - 1)
  /\ UNCHANGED <<env, live, revision, mode, breaker, lane, bounds>>

Requeue ==
  /\ pc[Loop] = "requeue"
  /\ rows' = Enqueued(rows[req].target)
  /\ Served(left - 1)
  /\ UNCHANGED <<env, live, revision, mode, breaker, lane, bounds>>

\* A call of the store raises after the claim: a read of the revision, the finish,
\* or the enqueue that follows a row already marked superseded.
RequestRaises ==
  /\ pc[Loop] \in {"takeLane", "settle", "finish", "requeue"}
  /\ kind[Loop] = "request"
  /\ DbFault
  /\ Goto(Loop, "abort")
  /\ UNCHANGED <<env, live, db, breaker, locks, kind, run, left, todo, drifted, dev,
                 plan, failed, spared, req, from, fin>>

\* Mutant: the exception handler forgets the row.
AbortKeepsRow ==
  /\ pc[Loop] = "abort"
  /\ Served(0)
  /\ UNCHANGED <<env, live, db, breaker, lane, bounds>>

\* The except branch: a request that is still running fails, one that is already
\* superseded stays so, and the loop stops serving requests.
Abort ==
  /\ pc[Loop] = "abort"
  /\ rows' = [rows EXCEPT ![req] = IF @.status = "running" THEN Marked(req, "failed")
                                   ELSE @]
  /\ Served(0)
  /\ UNCHANGED <<env, live, revision, mode, breaker, lane, bounds>>

\* The finish of the except branch raises, and is swallowed.
AbortRaises ==
  /\ pc[Loop] = "abort"
  /\ DbFault
  /\ Served(0)
  /\ UNCHANGED <<env, live, db, breaker, lane>>

-----------------------------------------------------------------------------
(* The process dies and is started again: its locks, its counters and its  *)
(* hold are gone.                                                          *)

Crash ==
  /\ crashes < MaxCrashes
  /\ crashes' = crashes + 1
  /\ failures' = 0 /\ hold' = FALSE
  /\ cycle' = None /\ lane' = None
  /\ pc' = [t \in Threads |-> IF t = Loop THEN "boot" ELSE "idle"]
  /\ kind' = [t \in Threads |-> "none"]
  /\ run' = [t \in Threads |-> "off"]
  /\ left' = 0
  /\ todo' = [t \in Threads |-> {}]
  /\ drifted' = [t \in Threads |-> {}]
  /\ dev' = [t \in Threads |-> None]
  /\ plan' = [t \in Threads |-> 0]
  /\ failed' = [t \in Threads |-> FALSE]
  /\ spared' = [t \in Threads |-> FALSE]
  /\ req' = 0 /\ from' = 0 /\ fin' = 0
  /\ UNCHANGED <<env, live, db, asked, surprises, uiRuns, faults, dbFaults>>

CycleStep(t) ==
  \/ EnterCycle(t) \/ ReadSettings(t) \/ Gate(t) \/ Observe(t) \/ Observed(t)
  \/ Record(t) \/ TakeLane(t) \/ Prove(t) \/ Device(t) \/ Write(t) \/ Verify(t)
  \/ AllDone(t)

LoopStep ==
  \/ Boot \/ Top \/ ClaimRequest \/ NoRequest \/ Awake
  \/ Settle \/ Finish \/ Requeue \/ Abort

Step(t) ==
  \/ CycleStep(t) \/ (t = Loop /\ LoopStep)
  \/ (t # Loop /\ (Transfer(t) \/ EndTransfer(t)))

Raises(t) ==
  \/ SettingsRaise(t) \/ ObserveRaises(t) \/ GateRaises(t) \/ LaneRaises(t)
  \/ DeviceRaises(t) \/ PlanRaises(t)

LoopRaises == TopRaises \/ BootRaises \/ RequestRaises \/ AbortRaises

Environment ==
  \/ ConfigWrite \/ SetMode \/ Boundary \/ ManualMode \/ TempChange
  \/ PostureChange \/ HoldExpires \/ ClearHold \/ Request

Next ==
  \/ Environment \/ LoopRaises \/ Crash
  \/ \E t \in Threads : Step(t) \/ Raises(t)
  \/ \E t \in Ui : RunNow(t) \/ BeginTransfer(t)

Spec == Init /\ [][Next]_vars

\* Threads go on, and a hold is a point in time that passes.  (Whoever waits for
\* the lane owns the cycle lock, so no other thread of the module competes.)
FairSpec ==
  /\ Spec
  /\ \A t \in Threads : WF_vars(Step(t))
  /\ WF_vars(HoldExpires)

-----------------------------------------------------------------------------
(* Properties.                                                             *)

\* While the circuit breaker holds, no automatic cycle writes: a hold opened
\* by one cycle is seen by every other cycle before it can write.
HoldBlocksWrites ==
  \A t \in Threads : pc[t] = "write" /\ kind[t] = "cycle" => ~hold

\* A request that succeeds at the current revision leaves its targets with
\* the policy of that revision, unless something unannounced changed them.
SucceededIsConverged ==
  [][\A i \in RowIds :
       /\ rows[i].status = "running" /\ rows'[i].status = "succeeded"
       /\ fin = revision /\ surprises = 0
       => \A d \in Targets(i) : live[d] = desired[d]]_vars

\* Every request is served, whatever the automatic mode: "Explicit requests
\* remain available even when automatic reconciliation is OFF".
RequestsServed ==
  \A i \in RowIds :
    rows[i].status \in {"pending", "running"} ~> rows[i].status \in Finals

Quiet == /\ revision = MaxRevision /\ surprises = MaxSurprises
         /\ mode = "enforce" /\ secure
Converged == \A d \in Devices : d \in temp \/ live[d] = desired[d]

\* Once nothing changes any more, ENFORCE brings every device to its policy,
\* through failures, holds and crashes.
Converges == Quiet ~> Converged

\* A superseded row that has no successor and will get none.
HasSuccessor(i) ==
  \E j \in RowIds : j > i /\ rows[j].target = rows[i].target /\ rows[j].status # "none"
Orphan(i) ==
  /\ rows[i].status = "superseded"
  /\ ~HasSuccessor(i)
  /\ ~(pc[Loop] = "requeue" /\ req = i)

\* Whoever supersedes a row, a user's later request or the loop itself, queues its
\* successor.  The loop does so in a second transaction, and only a crash or a
\* failed call between the two, at that very row, loses the successor.
SupersededHasSuccessor ==
  [][\A i \in RowIds :
       Orphan(i)' => \/ Orphan(i)
                     \/ /\ pc[Loop] = "requeue" /\ req = i
                        /\ crashes' # crashes \/ dbFaults' # dbFaults]_vars

\* "the completed request is marked superseded and a new request is queued for
\* the latest revision", without that exception: refuted by Reconciler_orphan.cfg.
NoOrphan == \A i \in RowIds : ~Orphan(i)
=============================================================================

---------------------------- MODULE Enforcement ----------------------------
(***************************************************************************)
(* What RouterOSAdapter (app/router.py) writes to the router, one API call *)
(* at a time: device modes, bandwidth queues, service lists, the global    *)
(* mode, temporary access and schedules, and the contracts of custom       *)
(* services.                                                               *)
(*                                                                         *)
(* mutation_session lets one request write at a time, so there is one job. *)
(* Its plan is the calls it still has to make. A call may raise, its       *)
(* effect made or not; the process may crash between two calls; and at any *)
(* moment the router acts by itself (its schedulers fire, its learners     *)
(* learn) or somebody edits it by hand.                                    *)
(***************************************************************************)
EXTENDS Naturals, Sequences, FiniteSets

CONSTANTS
  Devices,     \* addresses
  Catalog,     \* built-in service keys, in the order of SERVICE_ENFORCEMENT
  Customs,     \* custom service keys
  Groups,      \* ids of managed schedules
  Days,        \* weekdays of a schedule
  MaxJobs,     \* bound: requests
  MaxUpsets    \* bound: calls that raise, crashes, manual edits of the router
               \* and events of its own, together

ASSUME BoundsAssumption == MaxJobs \in Nat /\ MaxUpsets \in Nat

Modes == {"normal", "slow", "blocked"}
Queues == {"slowq", "bw"}
Keys == {Catalog[i] : i \in DOMAIN Catalog} \cup Customs
Managed == {"blocked", "slow"} \cup Queues \cup Keys  \* MC_Mode_, MC_Block_, MC-SLOW-, MC-BW-
Lists == Managed \cup {"restricted"}

ASSUME FiniteAssumption ==
  IsFiniteSet(Devices) /\ IsFiniteSet(Keys) /\ IsFiniteSet(Groups) /\ IsFiniteSet(Days)

\* The lists of the services have a prefix of their own, MC_Block_.
ASSUME KeysAssumption == Keys \cap ({"blocked", "slow", "restricted"} \cup Queues) = {}

VARIABLES
  ros,        \* the router, as below
  approved,   \* custom services with enforcement_approved (policy store)
  wanted,     \* group -> the days of the request that created it
  job,        \* the request that holds the mutation lane
  jobs, faults, edits, events

n == ros.n              \* list or queue -> device -> number of entries
disabled == ros.disabled \* <<queue, device>> whose queue is disabled
rules == ros.rules      \* custom service -> its rules, of {"learn", "block"}
learned == ros.learned  \* custom services whose detector list has entries
gmode == ros.gmode      \* what MASTER and the global slow queue amount to
web == ros.web          \* the restricted-web jump is enabled
late == ros.late        \* MASTER stands after the established/related accept
failing == ros.failing  \* static checks of the posture that fail
temp == ros.temp        \* MC-TEMP-RESTORE: the mode it restores, "fired", "none"
scheds == ros.scheds    \* schedulers, as <<group, day, mode>>

bounds == <<jobs, faults, edits, events>>
Upsets == faults + edits + events
vars == <<ros, approved, wanted, job, bounds>>

Idle == [do |-> "idle", on |-> "none", mode |-> "none", S |-> {}, plan |-> <<>>,
         proven |-> FALSE, undoing |-> FALSE, shaken |-> FALSE]

-----------------------------------------------------------------------------
(* What the adapter reads.                                                  *)

StaticChecks == {"rule_contracts", "restricted_web_order", "fasttrack", "service_contracts"}

GlobalModeFails == gmode = "invalid"

\* Only an enabled MASTER is required to stand before the accept.
ForwardOrderFails == late /\ gmode \in {"blocked", "invalid"}

\* Mutant: duplicates are not looked for.
IntegrityUnchecked == FALSE

\* Duplicate entries or queues of one device; malformed ones count as static.
IntegrityFails == \E r \in Managed : \E d \in Devices : n[r][d] > 1

\* assert_policy_enforcement_ready: no critical check fails. Disabling the
\* web policy breaks the contract of its jump rule.
Ready ==
  /\ failing = {} /\ web
  /\ ~GlobalModeFails /\ ~ForwardOrderFails /\ ~IntegrityFails

Restricted(d) == n["restricted"][d] = 1
On(q, d) == n[q][d] > 0 /\ <<q, d>> \notin disabled

LiveMode(d) ==
  LET b == n["blocked"][d]  s == n["slow"][d]  q == n["slowq"][d] IN
  CASE b = 0 /\ s = 0 /\ q = 0 -> "normal"
    [] b = 1 /\ s = 0 /\ q = 0 -> "blocked"
    [] b = 0 /\ s = 1 /\ q = 1 /\ On("slowq", d) -> "slow"
    [] OTHER -> "invalid"

Contract == {"learn", "block"}

\* _preview_custom_service_contract_api
Preview(k) ==
  CASE rules[k] = Contract -> "healthy"
    [] rules[k] = {} /\ k \notin learned /\ \A d \in Devices : n[k][d] = 0 -> "absent"
    [] OTHER -> "conflict"

\* get_service_contract_health of a custom service
ContractHealth(k) ==
  CASE k \in approved -> IF Preview(k) = "healthy" THEN "healthy" ELSE "degraded"
    [] k \notin approved -> IF Preview(k) = "absent" THEN "reporting" ELSE "orphaned"

\* _validate_service_primitive, for built-in and for custom keys
ContractHolds(k) ==
  IF k \in Customs THEN rules[k] = Contract ELSE "service_contracts" \notin failing

\* The catalogue of a request: built-in keys and the approved custom ones.
Enforceable == (Keys \ Customs) \cup approved

BlockedServices(d) == {k \in Enforceable : n[k][d] = 1}

-----------------------------------------------------------------------------
(* Plans: the calls of each operation. "one" leaves exactly one entry,      *)
(* "clear" none; "expect" is the fresh read after the writes.               *)

One(r, d) == [do |-> "one", r |-> r, d |-> d]
Clear(r, d) == [do |-> "clear", r |-> r, d |-> d]
Gate == [do |-> "gate"]
Member(d) == [do |-> "member", d |-> d]
Script(m) == [do |-> "script", mode |-> m]

\* Mutant: SLOW releases BLOCKED before the queue is there.
ModePlanReleaseFirst(d, m) ==
  <<Gate, Member(d)>> \o
  (CASE m = "normal"  -> <<Clear("blocked", d), Clear("slow", d), Clear("slowq", d)>>
     [] m = "blocked" -> <<One("blocked", d), Clear("slow", d), Clear("slowq", d), Clear("bw", d)>>
     [] m = "slow"    -> <<Clear("blocked", d), One("slowq", d), One("slow", d), Clear("bw", d)>>)
  \o <<[do |-> "expect mode", d |-> d, mode |-> m]>>

\* set_device_mode
ModePlan(d, m) ==
  <<Gate, Member(d)>> \o
  (CASE m = "normal"  -> <<Clear("blocked", d), Clear("slow", d), Clear("slowq", d)>>
     [] m = "blocked" -> <<One("blocked", d), Clear("slow", d), Clear("slowq", d), Clear("bw", d)>>
     [] m = "slow"    -> <<One("slowq", d), One("slow", d), Clear("bw", d), Clear("blocked", d)>>)
  \o <<[do |-> "expect mode", d |-> d, mode |-> m]>>

\* set_device_bandwidth: no queue for the preset "normal".
BandwidthPlan(d, limited) ==
  <<Gate, Member(d), IF limited THEN One("bw", d) ELSE Clear("bw", d),
    [do |-> "expect bandwidth", d |-> d, limited |-> limited]>>

\* set_device_services
ServicesPlan(d, S) ==
  <<Gate, Member(d), [do |-> "services", d |-> d, S |-> S],
    [do |-> "expect services", d |-> d, S |-> S]>>

\* set_mode of the adapter
GlobalPlan(m) == <<Gate, Script(m), [do |-> "expect global", mode |-> m]>>

\* Mutant: NORMAL before the restore is armed.
TemporaryPlanNormalFirst(m) ==
  GlobalPlan("normal") \o <<[do |-> "disarm"], [do |-> "arm", mode |-> m]>>

\* set_temporary_normal
TemporaryPlan(m) ==
  <<Gate, [do |-> "disarm"], [do |-> "arm", mode |-> m]>> \o GlobalPlan("normal")

SchedulePlan(g, m, days) ==
  <<Gate>> \o [i \in DOMAIN days |-> [do |-> "sched", entry |-> <<g, days[i], m>>]]

Install(k, r) == [do |-> "install", k |-> k, r |-> r]
Uninstall(k, r) == [do |-> "uninstall", k |-> k, r |-> r]
Forget(k) == [do |-> "forget", k |-> k]
Approve(k, b) == [do |-> "approve", k |-> k, ok |-> b]

\* provision_custom_service_contract and the approval of its route
ProvisionPlan(k) ==
  <<Gate, [do |-> "absent?", k |-> k], Install(k, "learn"), Install(k, "block"),
    [do |-> "expect contract", k |-> k, is |-> "healthy"], Approve(k, TRUE)>>

\* remove_custom_service_contract
RemovePlan(k) ==
  <<Gate, [do |-> "healthy?", k |-> k], Uninstall(k, "block"), Uninstall(k, "learn"),
    [do |-> "release", k |-> k], Forget(k),
    [do |-> "expect contract", k |-> k, is |-> "absent"]>>

-----------------------------------------------------------------------------
(* Reads: a call that reads either refuses, and raises, or is replaced by   *)
(* the writes that its loop makes of what it has read.                      *)

Remove(r, d) == [do |-> "remove", r |-> r, d |-> d]
Add(r, d) == [do |-> "add", r |-> r, d |-> d]
Removes(r, d) == [i \in 1..n[r][d] |-> Remove(r, d)]

Single(r, d) ==
  IF n[r][d] = 1 THEN IF r \in Queues THEN <<[do |-> "set", r |-> r, d |-> d]>> ELSE <<>>
                 ELSE Removes(r, d) \o <<Add(r, d)>>

\* The calls of s[1], then those of s[2] and so on.
Each(s) ==
  LET upto[i \in 0..Len(s)] == IF i = 0 THEN <<>> ELSE upto[i - 1] \o s[i]
  IN  upto[Len(s)]

\* The elements of a finite set, in some order.
Ordered(S) == CHOOSE s \in [1..Cardinality(S) -> S] : \A x \in S : \E i \in DOMAIN s : s[i] = x

\* Mutant: a service that is blocked already is added again.
ServiceCallsAgain(d, S) == LET s == Ordered(S) IN [i \in DOMAIN s |-> Add(s[i], d)]

Block(r, d) == Removes(r, d) \o <<Add(r, d)>>
BlockAll(K, d) == LET s == Ordered(K) IN Each([i \in DOMAIN s |-> Block(s[i], d)])
ReleaseAll(K, d) == LET s == Ordered(K) IN Each([i \in DOMAIN s |-> Removes(s[i], d)])

\* Mutant: blocks are released before the missing ones are established.
ServiceCallsReleaseFirst(d, S) ==
  ReleaseAll({k \in Enforceable \ S : n[k][d] # 0}, d)
    \o BlockAll({k \in Enforceable \cap S : n[k][d] # 1}, d)

\* Every block is established before any is released.
ServiceCalls(d, S) ==
  BlockAll({k \in Enforceable \cap S : n[k][d] # 1}, d)
    \o ReleaseAll({k \in Enforceable \ S : n[k][d] # 0}, d)

\* cleanup_stale_managed_resources keeps what belongs to a restricted device. (The
\* schedulers and scripts of temporary access, which it removes last, are TempAccess's.)
Stale(kinds, spared) ==
  LET s == Ordered(Devices \ spared) IN Each([i \in DOMAIN s |-> ReleaseAll(kinds, s[i])])

Uninstalls(k) == LET s == Ordered(rules[k]) IN [i \in DOMAIN s |-> Uninstall(k, s[i])]
Released(k) == LET s == Ordered(Devices) IN Each([i \in DOMAIN s |-> Removes(k, s[i])])
Unscheduled(g) ==
  LET s == Ordered({e \in scheds : e[1] = g})
  IN  [i \in DOMAIN s |-> [do |-> "unsched", entry |-> s[i]]]

\* A request that finds its work done goes straight to the approval, which is its
\* last call if it has one.
Rest(c, done) ==
  LET last == job.plan[Len(job.plan)]
  IN  IF Preview(c.k) # done THEN Tail(job.plan)
      ELSE IF last.do = "approve" THEN <<last>> ELSE <<>>

Refuses(c) ==
  CASE c.do = "gate" -> ~job.proven /\ ~Ready
    [] c.do = "member" -> ~Restricted(c.d)
    [] c.do = "services" -> \E k \in Enforceable :
         n[k][c.d] # (IF k \in c.S THEN 1 ELSE 0) /\ ~ContractHolds(k)
    [] c.do = "expect mode" -> ~Restricted(c.d) \/ LiveMode(c.d) # c.mode
    [] c.do = "expect bandwidth" -> \/ ~Restricted(c.d)
                                    \/ c.limited /\ ~(n["bw"][c.d] = 1 /\ On("bw", c.d))
                                    \/ ~c.limited /\ n["bw"][c.d] > 0
    [] c.do = "expect services" -> ~Restricted(c.d) \/ BlockedServices(c.d) # c.S
    [] c.do = "expect global" -> gmode # c.mode
    [] c.do \in {"absent?", "healthy?"} -> Preview(c.k) = "conflict"
    [] c.do = "expect contract" -> Preview(c.k) # c.is
    [] c.do = "leave" -> n["restricted"][c.d] = 0
    [] c.do = "unschedule" -> \A e \in scheds : e[1] # c.g
    [] c.do = "remove" -> n[c.r][c.d] = 0
    [] c.do = "uninstall" -> c.r \notin rules[c.k]
    [] c.do = "unsched" -> c.entry \notin scheds
    [] OTHER -> FALSE

\* What is left of the plan once its first call has returned.
After(c) ==
  CASE c.do = "one" -> Single(c.r, c.d) \o Tail(job.plan)
    [] c.do = "clear" -> Removes(c.r, c.d) \o Tail(job.plan)
    [] c.do = "services" -> ServiceCalls(c.d, c.S) \o Tail(job.plan)
    [] c.do = "ensure" -> (IF n["restricted"][c.d] = 0 THEN <<Add("restricted", c.d)>> ELSE <<>>)
                          \o Tail(job.plan)
    [] c.do = "leave" -> Removes("restricted", c.d) \o Tail(job.plan)
    [] c.do = "again" -> IF gmode \in c.modes THEN GlobalPlan(gmode) ELSE <<>>
    [] c.do = "absent?" -> Rest(c, "healthy")
    [] c.do = "healthy?" -> Rest(c, "absent")
    [] c.do = "release" -> Released(c.k) \o Tail(job.plan)
    [] c.do = "purge" -> Uninstalls(c.k) \o Tail(job.plan)
    [] c.do = "unschedule" -> Unscheduled(c.g) \o Tail(job.plan)
    [] c.do = "stale lists" ->
         LET spared == {d \in Devices : n["restricted"][d] > 0}
         IN  Stale(Managed \ Queues, spared) \o <<[do |-> "stale queues", spared |-> spared]>>
    [] c.do = "stale queues" -> Stale(Queues, c.spared)
    [] OTHER -> Tail(job.plan)

\* The router after a call that writes.
Effect(c) ==
  CASE c.do = "add" -> [ros EXCEPT !.n[c.r][c.d] = @ + 1]
    [] c.do = "remove" -> [ros EXCEPT !.n[c.r][c.d] = @ - 1, !.disabled = @ \ {<<c.r, c.d>>}]
    [] c.do = "set" -> [ros EXCEPT !.disabled = @ \ {<<c.r, c.d>>}]
    [] c.do = "script" -> [ros EXCEPT !.gmode = c.mode]
    [] c.do = "arm" -> [ros EXCEPT !.temp = c.mode]
    [] c.do = "disarm" -> [ros EXCEPT !.temp = "none"]
    [] c.do = "sched" -> [ros EXCEPT !.scheds = @ \cup {c.entry}]
    [] c.do = "unsched" -> [ros EXCEPT !.scheds = @ \ {c.entry}]
    [] c.do = "install" -> [ros EXCEPT !.rules[c.k] = @ \cup {c.r}]
    [] c.do = "uninstall" -> [ros EXCEPT !.rules[c.k] = @ \ {c.r}]
    [] c.do = "forget" -> [ros EXCEPT !.learned = @ \ {c.k}]
    [] c.do = "web" -> [ros EXCEPT !.web = c.on]
    [] OTHER -> ros

\* What a request does when this call raises. Provisioning removes only the
\* rules it has captured: those whose creation it has read back.
Undo(c) ==
  CASE c.do = "install" ->
         (IF c.r = "block" THEN <<Uninstall(c.k, "learn")>> ELSE <<>>) \o <<Forget(c.k)>>
    [] c.do = "expect contract" /\ job.do = "provision" -> <<[do |-> "purge", k |-> c.k], Forget(c.k)>>
    [] c.do = "approve" /\ c.ok -> RemovePlan(c.k)
    [] c.do \in {"script", "expect global"} /\ job.do = "temporary" -> <<[do |-> "disarm"]>>
    [] c.do = "sched" -> <<[do |-> "unschedule", g |-> c.entry[1]]>>
    [] OTHER -> <<>>

-----------------------------------------------------------------------------
(* Requests.                                                                *)

Begin(do, on, mode, S, plan) ==
  /\ job = Idle /\ jobs < MaxJobs
  /\ job' = IF Len(plan) = 0 THEN Idle
            ELSE [Idle EXCEPT !.do = do, !.on = on, !.mode = mode, !.S = S, !.plan = plan]
  /\ jobs' = jobs + 1
  /\ UNCHANGED <<ros, approved, faults, edits, events>>

SetDeviceMode(d, m) == Begin("device", d, m, {}, ModePlan(d, m)) /\ UNCHANGED wanted

\* build_enforcement_plan: a preset counts only while nothing stricter holds.
BandwidthExpected(m, preset) == preset /\ m = "normal" /\ gmode = "normal"

\* Whether an existing queue has another limit is not told apart.
BandwidthDrift(d, limited, otherLimit) ==
  IF limited THEN ~(n["bw"][d] = 1 /\ On("bw", d)) \/ otherLimit ELSE n["bw"][d] > 0

ServiceDrift(d, S) ==
  \E k \in Enforceable : ContractHolds(k) /\ n[k][d] <= 1 /\ (k \in S) # (n[k][d] = 1)

\* reconcile_device of the drift between the effective policy and the router
ApplyPolicy(d, m, preset, S, otherLimit) ==
  LET limited == BandwidthExpected(m, preset) IN
  /\ Begin("policy", d, m, S,
           (IF LiveMode(d) # m THEN ModePlan(d, m) ELSE <<>>)
           \o (IF BandwidthDrift(d, limited, otherLimit) THEN BandwidthPlan(d, limited) ELSE <<>>)
           \o (IF ServiceDrift(d, S) THEN ServicesPlan(d, S) ELSE <<>>))
  /\ UNCHANGED wanted

\* /mode cancels temporary access before it asks for the gate.
SetMode(m) == Begin("mode", "global", m, {}, <<[do |-> "disarm"]>> \o GlobalPlan(m)) /\ UNCHANGED wanted

SetTemporary ==
  /\ gmode \in Modes
  /\ Begin("temporary", "global", gmode, {}, TemporaryPlan(gmode))
  /\ UNCHANGED wanted

AddSchedule(g, m, days) ==
  /\ g \notin DOMAIN wanted
  /\ Begin("schedule", g, m, {}, SchedulePlan(g, m, Ordered(days)))
  /\ wanted' = [x \in DOMAIN wanted \cup {g} |-> IF x = g THEN days ELSE wanted[x]]

RemoveSchedule(g) ==
  Begin("unschedule", g, "none", {}, <<[do |-> "unschedule", g |-> g]>>) /\ UNCHANGED wanted

AddDevice(d) ==
  /\ Begin("manage", d, "none", {}, <<Gate, [do |-> "ensure", d |-> d],
                                      [do |-> "again", modes |-> {"slow", "blocked"}]>>)
  /\ UNCHANGED wanted

RemoveDevice(d) ==
  /\ Begin("unmanage", d, "none", {}, <<Gate, [do |-> "leave", d |-> d],
                                        [do |-> "again", modes |-> {"slow"}]>>)
  /\ UNCHANGED wanted

\* set_web_policy asks for no gate: it is how a disabled jump is enabled.
SetWebPolicy(b) == Begin("web", "web", "none", {}, <<[do |-> "web", on |-> b]>>) /\ UNCHANGED wanted

Cleanup == Begin("cleanup", "router", "none", {}, <<[do |-> "stale lists"]>>) /\ UNCHANGED wanted

Provision(k) == Begin("provision", k, "none", {}, ProvisionPlan(k)) /\ UNCHANGED wanted

Unprovision(k) ==
  Begin("unprovision", k, "none", {}, RemovePlan(k) \o <<Approve(k, FALSE)>>) /\ UNCHANGED wanted

-----------------------------------------------------------------------------
(* The calls of the request.                                                *)

Approvals(c) ==
  CASE c.do = "approve" /\ c.ok -> approved \cup {c.k}
    [] c.do = "approve" /\ ~c.ok -> approved \ {c.k}
    [] OTHER -> approved

Call ==
  /\ job.plan # <<>>
  /\ LET c == Head(job.plan) IN
       /\ ~Refuses(c)
       /\ ros' = Effect(c)
       /\ approved' = Approvals(c)
       /\ job' = IF Len(After(c)) = 0 THEN Idle
                 ELSE [job EXCEPT !.plan = After(c), !.proven = @ \/ c.do = "gate"]
  /\ UNCHANGED <<wanted, bounds>>

\* The request gives up at c: it undoes what it can, once.
GiveUp(c) ==
  /\ job' = IF job.undoing \/ Len(Undo(c)) = 0 THEN Idle
            ELSE [job EXCEPT !.plan = Undo(c), !.undoing = TRUE]
  /\ UNCHANGED <<approved, wanted>>

Refused ==
  /\ job.plan # <<>>
  /\ LET c == Head(job.plan) IN Refuses(c) /\ GiveUp(c)
  /\ UNCHANGED <<ros, bounds>>

\* The call raises: it never reached the router, or its answer was lost.
CallRaises(lost) ==
  /\ job.plan # <<>> /\ Upsets < MaxUpsets
  /\ LET c == Head(job.plan) IN
       /\ ~Refuses(c) /\ (lost => Effect(c) # ros)
       /\ ros' = IF lost THEN Effect(c) ELSE ros
       /\ GiveUp(c)
  /\ faults' = faults + 1
  /\ UNCHANGED <<jobs, edits, events>>

Crash ==
  /\ job # Idle /\ Upsets < MaxUpsets
  /\ job' = Idle
  /\ faults' = faults + 1
  /\ UNCHANGED <<ros, approved, wanted, jobs, edits, events>>

-----------------------------------------------------------------------------
(* What the router does by itself, and what is done to it by hand.          *)

Event(new) ==
  /\ Upsets < MaxUpsets
  /\ new # ros
  /\ ros' = new
  /\ events' = events + 1
  /\ UNCHANGED <<approved, wanted, job, jobs, faults, edits>>

\* A restore that the present request has armed is 15 minutes or more away.
TempFires ==
  /\ temp \in Modes
  /\ job.do = "temporary" => Len(job.plan) > Len(GlobalPlan("normal"))
  /\ Event([ros EXCEPT !.gmode = temp, !.temp = "fired"])

ScheduleFires == \E e \in scheds : Event([ros EXCEPT !.gmode = e[3]])

DetectorLearns ==
  /\ \E k \in Customs \ learned : "learn" \in rules[k] /\ ros' = [ros EXCEPT !.learned = @ \cup {k}]
  /\ UNCHANGED <<approved, wanted, job, bounds>>

\* get_temporary_access, of any page, removes a restore that has fired.
ReadTemporary ==
  /\ temp = "fired"
  /\ ros' = [ros EXCEPT !.temp = "none"]
  /\ UNCHANGED <<approved, wanted, job, bounds>>

Edited(new) ==
  /\ Upsets < MaxUpsets
  /\ ros' = new
  /\ edits' = edits + 1
  /\ job' = IF job = Idle THEN Idle ELSE [job EXCEPT !.shaken = TRUE]
  /\ UNCHANGED <<approved, wanted, jobs, faults, events>>

ManualEdit ==
  \/ \E r \in Lists, d \in Devices :
       \/ n[r][d] < 2 /\ Edited([ros EXCEPT !.n[r][d] = @ + 1])
       \/ n[r][d] > 0 /\ Edited([ros EXCEPT !.n[r][d] = @ - 1, !.disabled = @ \ {<<r, d>>}])
  \/ \E q \in Queues, d \in Devices :
       On(q, d) /\ Edited([ros EXCEPT !.disabled = @ \cup {<<q, d>>}])
  \/ \E c \in StaticChecks : failing = {} /\ Edited([ros EXCEPT !.failing = {c}])
  \/ failing # {} /\ Edited([ros EXCEPT !.failing = {}])
  \/ gmode # "invalid" /\ Edited([ros EXCEPT !.gmode = "invalid"])
  \/ ~late /\ Edited([ros EXCEPT !.late = TRUE])
  \/ \E k \in Customs : \E r \in rules[k] : Edited([ros EXCEPT !.rules[k] = @ \ {r}])

-----------------------------------------------------------------------------

\* A household whose devices are in some mode, with or without a limit.
Entries(managed, mode, limited) ==
  [r \in Lists |-> [d \in Devices |->
     CASE r = "restricted" -> IF d \in managed THEN 1 ELSE 0
       [] d \notin managed -> 0
       [] r = "bw" -> IF limited /\ mode = "normal" THEN 1 ELSE 0
       [] r = "blocked" -> IF mode = "blocked" THEN 1 ELSE 0
       [] r \in {"slow", "slowq"} -> IF mode = "slow" THEN 1 ELSE 0
       [] OTHER -> 0]]

\* The router is set up, or its rules were never installed as the contract says.
Init ==
  /\ \E managed \in SUBSET Devices, mode \in Modes, limited \in BOOLEAN, g \in {"normal", "slow"},
        failing0 \in {{}, {"rule_contracts"}} :
       ros = [n |-> Entries(managed, mode, limited), disabled |-> {},
              rules |-> [k \in Customs |-> {}], learned |-> {}, gmode |-> g,
              web |-> TRUE, late |-> FALSE, failing |-> failing0, temp |-> "none", scheds |-> {}]
  /\ approved = {} /\ wanted = <<>> /\ job = Idle
  /\ jobs = 0 /\ faults = 0 /\ edits = 0 /\ events = 0

Request ==
  \/ \E d \in Devices, m \in Modes : SetDeviceMode(d, m)
  \/ \E d \in Devices, m \in Modes, preset, other \in BOOLEAN, S \in SUBSET Enforceable :
       ApplyPolicy(d, m, preset, S, other)
  \/ \E m \in Modes : SetMode(m)
  \/ SetTemporary
  \/ \E g \in Groups, m \in Modes, days \in SUBSET Days \ {{}} : AddSchedule(g, m, days)
  \/ \E g \in DOMAIN wanted : RemoveSchedule(g)
  \/ \E d \in Devices : AddDevice(d) \/ RemoveDevice(d)
  \/ \E b \in BOOLEAN : SetWebPolicy(b)
  \/ Cleanup
  \/ \E k \in Customs : Provision(k) \/ Unprovision(k)

Next ==
  \/ Request
  \/ Call \/ Refused \/ (\E lost \in BOOLEAN : CallRaises(lost)) \/ Crash
  \/ TempFires \/ ScheduleFires \/ DetectorLearns \/ ReadTemporary
  \/ ManualEdit

Spec == Init /\ [][Next]_vars

-----------------------------------------------------------------------------
(* Properties.                                                              *)

\* A step of the application: neither the router's own nor a manual edit.
Ours == edits' = edits /\ events' = events

\* Something limits the device: a block, or a queue that is enabled.
Limited(d) == n["blocked"][d] > 0 \/ On("slowq", d) \/ On("bw", d)

\* set_device_mode towards SLOW or BLOCKED never fails open: whatever call
\* raises or is lost, and if the process dies between two of them, a device
\* that was limited stays limited. (Nobody edits the router meanwhile.)
FailsRestrictive ==
  [][\A d \in Devices :
       job.do \in {"device", "policy"} /\ job.on = d /\ job.mode # "normal"
       /\ ~job.shaken /\ Ours /\ Limited(d) => Limited(d)']_vars

\* set_device_services releases a service only when every service that the
\* policy blocks is blocked already.
ReleasesLast ==
  [][\A d \in Devices :
       job.do = "policy" /\ job.on = d /\ ~job.shaken /\ Ours
       /\ (\E k \in Keys \ job.S : n[k][d]' < n[k][d])
       => \A k \in job.S : n[k][d] > 0]_vars

\* set_temporary_normal: the global mode is lifted only when the router
\* already holds the restore of the mode that was read.
ArmedBeforeNormal ==
  [][job.do = "temporary" /\ ~job.shaken /\ Ours /\ gmode # "normal" /\ gmode' = "normal"
       => temp = job.mode]_vars

\* The application never closes its own write gate, by leaving duplicates or
\* a contradictory mode: only by disabling the web policy, or by enabling a
\* MASTER that stands after the established/related accept.
NoSelfLockout ==
  [][Ready /\ ~job.shaken /\ edits' = edits => Ready' \/ ~web' \/ (late /\ gmode' = "blocked")]_vars

Routers ==
  [n : [Lists -> [Devices -> Nat]], disabled : SUBSET (Queues \X Devices),
   rules : [Customs -> SUBSET Contract], learned : SUBSET Customs,
   gmode : Modes \cup {"invalid"}, web : BOOLEAN, late : BOOLEAN,
   failing : SUBSET StaticChecks, temp : Modes \cup {"none", "fired"},
   scheds : SUBSET (Groups \X Days \X Modes)]

TypeOK == ros \in Routers /\ approved \subseteq Customs /\ DOMAIN wanted \subseteq Groups

=============================================================================

---------------------------- MODULE PolicyConfig ----------------------------
(***************************************************************************)
(* The configuration tables of PolicyStore (app/policy_store.py) and the   *)
(* routes that change them (app/main.py): profiles, devices, presets,      *)
(* services, policy groups, collections, schedules, exceptions, defaults,  *)
(* and snapshot, import and restore.                                       *)
(*                                                                         *)
(* What matters of a row is its name and what it refers to. SQLite does    *)
(* not enforce foreign keys here (no PRAGMA foreign_keys), so references   *)
(* hold only because the code checks them: it reads and validates in       *)
(* transactions of their own, and writes in a config_write later, while    *)
(* other request threads may write in between. A config_write is one step  *)
(* (module ConfigRevision).                                                *)
(*                                                                         *)
(* Built-in services and presets, which no route changes and no import     *)
(* deletes, are left out with the references to them, which resolve        *)
(* whatever happens. Built-in groups are rows: their members are edited.   *)
(***************************************************************************)
EXTENDS Naturals, Sequences, FiniteSets

CONSTANTS
  Admins,        \* request threads of administrators
  Devices, Presets, Services, Groups,  \* keys: IPs, custom keys, keys of groups
  BuiltinGroups, \* POLICY_GROUPS, the groups of the product
  Names,         \* names of rows with an AUTOINCREMENT id
  InitialConfigs,\* configurations the model starts from
  MaxRefs,       \* bound: references of one form
  MaxOps,        \* bound: requests; none follows two that overlap
  MaxEdits,      \* bound: edits, only one of which overlaps the request before
  MaxCrashes,    \* bound: process crashes, and statements of an import that fail
  Retention      \* snapshot_retention_count

ASSUME RetentionAssumption == Retention \in 5..200
ASSUME BuiltinAssumption == BuiltinGroups \subseteq Groups

Tables == {"bandwidth_presets", "services", "aggregate_policy_groups",
           "profiles", "policy_templates", "device_policy", "service_groups",
           "schedule_plans", "schedule_templates", "date_exceptions",
           "app_settings"}

\* Tables whose row is identified by its key, so that a save is an upsert.
Keyed == {"bandwidth_presets", "services", "aggregate_policy_groups",
          "device_policy", "app_settings"}

\* Tables with a UNIQUE name beside an AUTOINCREMENT id.
UniqueName == {"profiles", "policy_templates", "service_groups", "schedule_templates"}

\* Mutant: export_config forgets the date exceptions.
ExportOrderNoExceptions == <<"profiles", "device_policy", "policy_templates",
  "bandwidth_presets", "services", "aggregate_policy_groups", "service_groups",
  "schedule_plans", "schedule_templates", "app_settings">>

\* The order in which export_config reads, each section in a transaction.
ExportOrder == <<"profiles", "device_policy", "policy_templates",
  "bandwidth_presets", "services", "aggregate_policy_groups", "service_groups",
  "schedule_plans", "schedule_templates", "date_exceptions", "app_settings">>

\* Mutant: profiles are recreated before the presets they name.
SectionOrderProfilesFirst == <<"profiles", "bandwidth_presets", "services",
  "aggregate_policy_groups", "policy_templates", "device_policy",
  "service_groups", "schedule_plans", "schedule_templates",
  "date_exceptions", "app_settings">>

\* The order in which import_config recreates what it has deleted.
SectionOrder == <<"bandwidth_presets", "services", "aggregate_policy_groups",
  "profiles", "policy_templates", "device_policy", "service_groups",
  "schedule_plans", "schedule_templates", "date_exceptions", "app_settings">>

VARIABLES
  cfg,        \* [rows: table -> id -> row, approved: service keys]
  nextId,     \* table -> next AUTOINCREMENT id
  snapshots,  \* config_snapshots, oldest first
  catalog,    \* the published service catalogue
  pc,         \* admin -> where its request is
  op,         \* admin -> the request
  step,       \* admin -> section of an export or import
  acc,        \* admin -> what its export has read
  idmap,      \* admin -> profile_map and template_map of its import
  crossed,    \* admin -> another thread has committed during its request
  raced,      \* some write was decided on a state that had changed since
  lost,       \* some import failed after it had deleted the configuration
  torn,       \* the services are deleted, and the groups not all imported since
  ops, crashes

local == <<pc, op, step, acc, idmap>>
vars == <<cfg, nextId, snapshots, catalog, local, crossed, raced, lost, torn, ops, crashes>>

Ref(to, id, via) == [to |-> to, id |-> id, via |-> via]

Empty == [x \in {} |-> {}]
NoConfig == [rows |-> [t \in Tables |-> Empty], approved |-> {}]
NoOp == [do |-> "none"]

Row(c, t, i) == c.rows[t][i]
Ids(c, t) == DOMAIN c.rows[t]
RowNames(c, t) == {Row(c, t, i).name : i \in Ids(c, t)}
Refs(c) == UNION {UNION {Row(c, t, i).refs : i \in Ids(c, t)} : t \in Tables}

\* Rows with the ids of f replaced or added.
Put(c, t, f) ==
  [c EXCEPT !.rows[t] = [i \in DOMAIN f \cup Ids(c, t) |->
                           IF i \in DOMAIN f THEN f[i] ELSE Row(c, t, i)]]
Drop(c, t, ids) ==
  [c EXCEPT !.rows[t] = [i \in Ids(c, t) \ ids |-> Row(c, t, i)]]
Single(i, row) == [j \in {i} |-> row]

-----------------------------------------------------------------------------
(* References.                                                             *)

PolicyKeys == {"services", "aggregate_policy_groups"}

\* The references that the form of each table saves.
Holds(t, r) ==
  \/ /\ t \in {"profiles", "policy_templates"}
     /\ \/ r.to = "bandwidth_presets" /\ r.via = "preset"
        \/ r.to \in PolicyKeys /\ r.via \in {"blocked", "quota"}
  \/ t = "aggregate_policy_groups" /\ r.to = "services" /\ r.via = "member"
  \/ t = "device_policy" /\ r.to = "profiles" /\ r.via = "profile"
  \/ t = "service_groups" /\ r.to \in PolicyKeys /\ r.via = "listed"
  \/ /\ t \in {"schedule_plans", "date_exceptions"}
     /\ r.to \in {"profiles", "device_policy"} /\ r.via = "target"
  \/ t = "schedule_plans" /\ r.to \in PolicyKeys /\ r.via = "action"
  \/ t = "date_exceptions" /\ r.to = "schedule_templates" /\ r.via = "template"
  \/ t = "app_settings" /\ r.to \in {"profiles", "bandwidth_presets"} /\ r.via = "default"

RowFormed(t, row) ==
  /\ row = [name |-> row.name, refs |-> row.refs]
  /\ \A r \in row.refs : r = Ref(r.to, r.id, r.via) /\ Holds(t, r)

WellFormed(c) ==
  /\ c = [rows |-> [t \in Tables |-> c.rows[t]], approved |-> c.approved]
  /\ \A t \in Tables :
       /\ c.rows[t] = [i \in Ids(c, t) |-> Row(c, t, i)]
       /\ \A i \in Ids(c, t) : RowFormed(t, Row(c, t, i))

Known(c, r) == r.id \in Ids(c, r.to)

\* References the code keeps: the profile of a device, the service or group of
\* a block, quota, schedule, collection or group, the template of an exception.
Kept(r) ==
  \/ r.via \in {"profile", "template"}
  \/ r.to \in PolicyKeys

Resolved(c) == \A r \in Refs(c) : Kept(r) => Known(c, r)

\* The built-in groups survive the first transaction of an import, their members
\* may not: until the groups are imported, groups may name services that are gone.
Firm(r) == Kept(r) /\ ~(torn /\ r.via = "member")

\* Rows were numbered from 1 as they were inserted, references that resolve no
\* more name a row that was there once, and the settings are seeded.
Seeded(c) ==
  LET last(t) == Cardinality(Ids(c, t))
  IN /\ \A t \in Tables \ Keyed : IsFiniteSet(Ids(c, t)) /\ Ids(c, t) = 1..last(t)
     /\ \A r \in Refs(c) : r.to \in Tables \ Keyed => r.id \in 1..last(r.to)
     /\ Ids(c, "app_settings") = {"defaults"}
     /\ BuiltinGroups \subseteq Ids(c, "aggregate_policy_groups")
     /\ c.approved \subseteq Ids(c, "services")

\* The program is started on a configuration that its forms have saved.
ASSUME ConfigsAssumption ==
  \A c \in InitialConfigs : WellFormed(c) /\ Resolved(c) /\ Seeded(c)

-----------------------------------------------------------------------------
(* Validation, which reads committed state outside the write transaction.  *)

\* A target device need not be managed, and a quota needs an enforceable key.
Backed(c, r) ==
  CASE r.to = "device_policy" -> TRUE
    [] r.via = "quota" /\ r.to = "services" -> Known(c, r) /\ r.id \in c.approved
    [] OTHER -> Known(c, r)

\* _validate_services and save_service_group drop the keys they do not know.
Clean(c, refs) == {r \in refs : r.via \in {"blocked", "listed"} => Known(c, r)}

\* _validate_preset, normalize_service_quotas, _validate_schedule_target, the
\* service of a schedule action, group members, profile and template of a form.
Valid(c, refs) ==
  \A r \in refs : r.via \notin {"blocked", "listed"} => Backed(c, r)

UsedBy(c, tables, t, id) ==
  \E u \in tables : \E i \in Ids(c, u) : \E r \in Row(c, u, i).refs :
    r.to = t /\ r.id = id

\* Mutant: service_usage forgets the reusable collections.
PolicyKeyUsersNoCollections == {"profiles", "policy_templates", "schedule_plans"}

\* policy_group_usage: profile blocks and quotas, templates, schedules and
\* reusable collections.
PolicyKeyUsers == {"profiles", "policy_templates", "schedule_plans", "service_groups"}

\* service_usage and delete_service before their write transaction.
ServiceDeletable(c, k) ==
  /\ k \in Ids(c, "services")
  /\ k \notin c.approved
  /\ ~UsedBy(c, PolicyKeyUsers \cup {"aggregate_policy_groups"}, "services", k)

\* delete_policy_group before its write transaction.
GroupDeletable(c, k) ==
  /\ k \in Ids(c, "aggregate_policy_groups") \ BuiltinGroups
  /\ ~UsedBy(c, PolicyKeyUsers, "aggregate_policy_groups", k)

-----------------------------------------------------------------------------
(* Write transactions: o is accepted by configuration c, and its effect.   *)

SaveAccepted(c, o) ==
  o.table \notin Keyed =>
    /\ o.id # 0 => o.id \in Ids(c, o.table)
    /\ o.table \in UniqueName =>
         \A i \in Ids(c, o.table) \ {o.id} : Row(c, o.table, i).name # o.name

SaveId(o) == IF o.table \in Keyed \/ o.id # 0 THEN o.id ELSE nextId[o.table]

Saved(c, o) ==
  Put(c, o.table, Single(SaveId(o), [name |-> o.name, refs |-> o.refs]))

\* Checks made inside the transaction that deletes.
DeleteAccepted(c, o) ==
  /\ o.id \in Ids(c, o.table)
  /\ o.table = "bandwidth_presets" => ~UsedBy(c, {"profiles"}, o.table, o.id)
  /\ o.table = "schedule_templates" => ~UsedBy(c, {"date_exceptions"}, o.table, o.id)

\* delete_profile: device_policy.profile_id is set to NULL first.
Without(row, id) == [row EXCEPT !.refs = {r \in @ : ~(r.to = "profiles" /\ r.id = id)}]
ProfileDeleted(c, id) ==
  LET devices == [d \in Ids(c, "device_policy") |-> Without(Row(c, "device_policy", d), id)]
  IN Drop([c EXCEPT !.rows["device_policy"] = devices], "profiles", {id})

\* A service takes its approval with it, a column of its row.
Deleted(c, o) ==
  CASE o.table = "profiles" -> ProfileDeleted(c, o.id)
    [] o.table = "services" -> [Drop(c, "services", {o.id}) EXCEPT !.approved = @ \ {o.id}]
    [] OTHER -> Drop(c, o.table, {o.id})

\* retire_device_state: the device, and the schedules and exceptions for it.
Targeting(c, t, ip) ==
  {i \in Ids(c, t) : \E r \in Row(c, t, i).refs : r.to = "device_policy" /\ r.id = ip}
Retired(c, ip) ==
  Drop(Drop(Drop(c, "device_policy", {ip}),
            "schedule_plans", Targeting(c, "schedule_plans", ip)),
       "date_exceptions", Targeting(c, "date_exceptions", ip))

\* apply_template reads the template in the transaction that updates the profile.
ApplyAccepted(c, o) == o.template \in Ids(c, "policy_templates") /\ o.id \in Ids(c, "profiles")
TemplateApplied(c, o) ==
  [c EXCEPT !.rows["profiles"][o.id].refs = Row(c, "policy_templates", o.template).refs]

\* set_service_enforcement_approved: UPDATE ... WHERE key=?
Approved(c, o) ==
  [c EXCEPT !.approved = IF o.to /\ o.id \in Ids(c, "services")
                         THEN @ \cup {o.id} ELSE @ \ {o.id}]

WriteAccepted(c, o) ==
  CASE o.do = "save" -> SaveAccepted(c, o)
    [] o.do = "delete" -> DeleteAccepted(c, o)
    [] o.do = "apply" -> ApplyAccepted(c, o)
    [] OTHER -> TRUE

Written(c, o) ==
  CASE o.do = "save" -> Saved(c, o)
    [] o.do = "delete" -> Deleted(c, o)
    [] o.do = "apply" -> TemplateApplied(c, o)
    [] o.do = "approve" -> Approved(c, o)
    [] o.do = "retire" -> Retired(c, o.id)

-----------------------------------------------------------------------------
(* Routes: csrf and role are checked, the store validates, and the request *)
(* waits for its write transaction.                                        *)

Goto(a, l) == pc' = [pc EXCEPT ![a] = l]

Begin(a, o, l) ==
  /\ pc[a] = "idle"
  /\ LET overlaps == \E x \in Admins : pc[x] # "idle"
     IN /\ ops < IF l = "write" THEN MaxEdits ELSE MaxOps
        /\ overlaps => l = "write"
        /\ ops' = IF overlaps THEN MaxOps ELSE ops + 1
  /\ op' = [op EXCEPT ![a] = o]
  /\ crossed' = [crossed EXCEPT ![a] = FALSE]
  /\ Goto(a, l)
  /\ UNCHANGED <<cfg, nextId, snapshots, catalog, step, acc, idmap, raced, lost, torn, crashes>>

Save(a, t, id, name, refs) ==
  /\ Valid(cfg, refs)
  /\ Begin(a, [do |-> "save", table |-> t, id |-> id, name |-> name,
               refs |-> Clean(cfg, refs)], "write")
Delete(a, t, id) == Begin(a, [do |-> "delete", table |-> t, id |-> id], "write")

Forms(S) == {R \in SUBSET S : Cardinality(R) <= MaxRefs}
KeyRefs(via) == {Ref("services", k, via) : k \in Services}
                  \cup {Ref("aggregate_policy_groups", g, via) : g \in Groups}
ProfileIds == 1..(nextId["profiles"] - 1)
TargetRefs == {Ref("profiles", p, "target") : p \in ProfileIds}
                \cup {Ref("device_policy", d, "target") : d \in Devices}
New(t) == {0} \cup Ids(cfg, t)

\* create_profile and update_profile behind their forms.
ProfileSave(a) ==
  \E id \in New("profiles"), n \in Names :
  \E R \in Forms({Ref("bandwidth_presets", p, "preset") : p \in Presets}
                   \cup KeyRefs("blocked") \cup KeyRefs("quota")) :
    Save(a, "profiles", id, n, R)

\* clone_profile reads a profile and creates another with its fields.
ProfileClone(a) ==
  \E id \in Ids(cfg, "profiles"), n \in Names :
    Save(a, "profiles", 0, n, Row(cfg, "profiles", id).refs)

ProfileDelete(a) == \E id \in Ids(cfg, "profiles") : Delete(a, "profiles", id)

\* update_device; bulk_update_devices is the same for several rows.
DeviceSave(a) ==
  \E d \in Devices :
  \E R \in {{}} \cup {{Ref("profiles", p, "profile")} : p \in ProfileIds} :
    Save(a, "device_policy", d, d, R)

\* copy_device_policy: the profile of another device, validated again.
DeviceCopy(a) ==
  \E s \in Ids(cfg, "device_policy") : \E d \in Devices \ {s} :
    Save(a, "device_policy", d, d, Row(cfg, "device_policy", s).refs)

\* retire_device_state, the last step of /devices/remove.
DeviceRetire(a) == \E d \in Devices : Begin(a, [do |-> "retire", id |-> d], "write")

\* save_template_from_profile copies the row it has read, unvalidated.
TemplateSave(a) ==
  \E id \in Ids(cfg, "profiles"), n \in Names :
    Begin(a, [do |-> "save", table |-> "policy_templates", id |-> 0, name |-> n,
              refs |-> Row(cfg, "profiles", id).refs], "write")
TemplateApply(a) ==
  \E t \in Ids(cfg, "policy_templates"), p \in Ids(cfg, "profiles") :
    Begin(a, [do |-> "apply", template |-> t, id |-> p], "write")
TemplateDelete(a) == \E t \in Ids(cfg, "policy_templates") : Delete(a, "policy_templates", t)

PresetSave(a) == \E p \in Presets : Save(a, "bandwidth_presets", p, p, {})
PresetDelete(a) == \E p \in Presets : Delete(a, "bandwidth_presets", p)

ServiceSave(a) == \E k \in Services : Save(a, "services", k, k, {})

\* The local part of provisioning and unprovisioning a RouterOS contract.
ServiceApprove(a) ==
  \E k \in Ids(cfg, "services"), to \in BOOLEAN :
    Begin(a, [do |-> "approve", table |-> "services", id |-> k, to |-> to], "write")
ServiceDelete(a) ==
  \E k \in Services : ServiceDeletable(cfg, k) /\ Delete(a, "services", k)

\* create_policy_group and update_policy_group: members are known services, none
\* of them when they are all built-in.
GroupSave(a) ==
  \E g \in Groups, R \in Forms({Ref("services", k, "member") : k \in Services}) :
    Save(a, "aggregate_policy_groups", g, g, R)
GroupDelete(a) ==
  \E g \in Groups : GroupDeletable(cfg, g) /\ Delete(a, "aggregate_policy_groups", g)

CollectionSave(a) ==
  \E n \in Names, R \in Forms(KeyRefs("listed")) : Save(a, "service_groups", 0, n, R)

\* apply_service_group: the keys of the collection are added to the blocks of
\* the profile, or taken from them with the services its groups expand to.
CollectionKeys(g) == {<<r.to, r.id>> : r \in Row(cfg, "service_groups", g).refs}
Expanded(K) ==
  K \cup UNION {{<<"services", r.id>> : r \in Row(cfg, "aggregate_policy_groups", k[2]).refs} :
                  k \in {k \in K : k[1] = "aggregate_policy_groups"
                                   /\ k[2] \in Ids(cfg, "aggregate_policy_groups")}}
CollectionApply(a) ==
  \E g \in Ids(cfg, "service_groups"), p \in Ids(cfg, "profiles"), block \in BOOLEAN :
    LET refs == Row(cfg, "profiles", p).refs
        K == CollectionKeys(g)
    IN Save(a, "profiles", p, Row(cfg, "profiles", p).name,
            IF block
            THEN refs \cup {Ref(k[1], k[2], "blocked") : k \in K}
            ELSE {r \in refs : r.via = "blocked" => <<r.to, r.id>> \notin Expanded(K)})
CollectionDelete(a) == \E g \in Ids(cfg, "service_groups") : Delete(a, "service_groups", g)

\* create_schedule_plan, update_schedule_plan, set_schedule_plan_enabled.
PlanSave(a) ==
  \E id \in New("schedule_plans"), R \in Forms(TargetRefs \cup KeyRefs("action")) :
    Save(a, "schedule_plans", id, "label", R)
PlanDelete(a) == \E i \in Ids(cfg, "schedule_plans") : Delete(a, "schedule_plans", i)

\* save_schedule_template; clone_schedule_template is the same with old entries.
STemplateSave(a) == \E n \in Names : Save(a, "schedule_templates", 0, n, {})
STemplateDelete(a) ==
  \E i \in Ids(cfg, "schedule_templates") : Delete(a, "schedule_templates", i)

ExceptionSave(a) ==
  \E R \in Forms(TargetRefs \cup {Ref("schedule_templates", i, "template") :
                                    i \in 1..(nextId["schedule_templates"] - 1)}) :
    Save(a, "date_exceptions", 0, "label", R)
ExceptionDelete(a) == \E i \in Ids(cfg, "date_exceptions") : Delete(a, "date_exceptions", i)

\* save_settings: the defaults for new devices.
DefaultsSave(a) ==
  \E R \in Forms({Ref("profiles", p, "default") : p \in ProfileIds}
                   \cup {Ref("bandwidth_presets", p, "default") : p \in Presets}) :
    Save(a, "app_settings", "defaults", "defaults", R)

-----------------------------------------------------------------------------
(* A commit of one thread may overtake what the others have validated.     *)

Overtake(a) == crossed' = [x \in Admins |-> crossed[x] \/ (x # a /\ pc[x] # "idle")]

Published(c) == <<Ids(c, "services"), c.approved>>

\* The requests that go on to publish the catalogue.
Publishes(o) == o.do \in {"save", "delete", "approve"} /\ o.table = "services"

\* The transaction of a request.
Write(a) ==
  /\ pc[a] = "write" /\ WriteAccepted(cfg, op[a])
  /\ cfg' = Written(cfg, op[a])
  /\ nextId' = IF op[a].do = "save" /\ op[a].table \notin Keyed /\ op[a].id = 0
               THEN [nextId EXCEPT ![op[a].table] = @ + 1] ELSE nextId
  /\ raced' = (raced \/ crossed[a])
  /\ Overtake(a)
  /\ IF Publishes(op[a])
     THEN Goto(a, "publish") /\ op' = op
     ELSE Goto(a, "idle") /\ op' = [op EXCEPT ![a] = NoOp]
  /\ UNCHANGED <<snapshots, catalog, step, acc, idmap, lost, torn, ops, crashes>>

\* The transaction raises ValueError and is rolled back.
Refused(a) ==
  /\ pc[a] = "write" /\ ~WriteAccepted(cfg, op[a])
  /\ Goto(a, "idle") /\ op' = [op EXCEPT ![a] = NoOp]
  /\ UNCHANGED <<cfg, nextId, snapshots, catalog, step, acc, idmap, crossed,
                 raced, lost, torn, ops, crashes>>

\* export_service_catalog lists the services, then replaces the file.
PublishRead(a) ==
  /\ pc[a] = "publish"
  /\ op' = [op EXCEPT ![a] = [do |-> "replace", listing |-> Published(cfg)]]
  /\ Goto(a, "replace")
  /\ UNCHANGED <<cfg, nextId, snapshots, catalog, step, acc, idmap, crossed,
                 raced, lost, torn, ops, crashes>>
PublishReplace(a) ==
  /\ pc[a] = "replace"
  /\ catalog' = op[a].listing
  /\ raced' = (raced \/ crossed[a])
  /\ Goto(a, "idle") /\ op' = [op EXCEPT ![a] = NoOp]
  /\ UNCHANGED <<cfg, nextId, snapshots, step, acc, idmap, crossed, lost, torn, ops, crashes>>

-----------------------------------------------------------------------------
(* Snapshot, import and restore.                                           *)

Snapshot(a) == Begin(a, [do |-> "snapshot"], "export")

\* An import of an earlier export, and a restore, which verifies the digest.
Import(a) == \E s \in 1..Len(snapshots) :
  Begin(a, [do |-> "import", payload |-> snapshots[s]], "export")
Restore(a) == \E s \in 1..Len(snapshots) :
  Begin(a, [do |-> "restore", payload |-> snapshots[s]], "export")

\* export_config, one list_... call after the other. They commute with all but
\* the commits of other threads, so that without one to come they are one step.
ExportSection(a) ==
  /\ pc[a] \in {"export", "reread"} /\ step[a] <= Len(ExportOrder)
  /\ LET last == IF \E x \in Admins \ {a} : pc[x] \in {"write", "wipe", "section"}
                 THEN step[a] ELSE Len(ExportOrder)
         read == {ExportOrder[i] : i \in step[a]..last}
     IN /\ acc' = [acc EXCEPT ![a] =
                     [rows |-> [t \in Tables |-> IF t \in read THEN cfg.rows[t] ELSE @.rows[t]],
                      approved |-> IF "services" \in read THEN cfg.approved ELSE @.approved]]
        /\ step' = [step EXCEPT ![a] = last + 1]
  /\ UNCHANGED <<cfg, nextId, snapshots, catalog, pc, op, idmap, crossed, raced,
                 lost, torn, ops, crashes>>

LastOf(s, n) == IF Len(s) <= n THEN s ELSE SubSeq(s, Len(s) - n + 1, Len(s))

\* create_config_snapshot inserts what was read and prunes.
SnapshotInsert(a) ==
  /\ pc[a] = "export" /\ step[a] > Len(ExportOrder)
  /\ snapshots' = LastOf(Append(snapshots, acc[a]), Retention)
  /\ acc' = [acc EXCEPT ![a] = NoConfig]
  /\ step' = [step EXCEPT ![a] = 1]
  /\ IF op[a].do = "snapshot"
     THEN Goto(a, "idle") /\ op' = [op EXCEPT ![a] = NoOp]
     ELSE Goto(a, "preflight") /\ op' = op
  /\ UNCHANGED <<cfg, nextId, catalog, idmap, crossed, raced, lost, torn, ops, crashes>>

Distinct(p, t) == Cardinality(RowNames(p, t)) = Cardinality(Ids(p, t))

\* _preflight_import_schedule_contract: exceptions name templates of the payload.
ScheduleContract(p) ==
  /\ Distinct(p, "schedule_templates")
  /\ \A i \in Ids(p, "date_exceptions") : \A r \in Row(p, "date_exceptions", i).refs :
       r.to = "schedule_templates" => Known(p, r)

\* _preflight_import_policy_groups: services and groups have names of their own,
\* the members of a group are services of the payload, no built-in group is missing.
ServiceIdentities(p) == Distinct(p, "services")
GroupContract(p) ==
  /\ Distinct(p, "aggregate_policy_groups")
  /\ BuiltinGroups \subseteq Ids(p, "aggregate_policy_groups")
  /\ \A g \in Ids(p, "aggregate_policy_groups") :
       \A r \in Row(p, "aggregate_policy_groups", g).refs : Known(p, r)

\* _validate_import_policy_references: every service or group key resolves.
PolicyReferences(p) ==
  \A r \in Refs(p) : r.to \in PolicyKeys => Known(p, r)

Preflight(a) ==
  /\ pc[a] = "preflight"
  /\ LET p == op[a].payload IN
     IF ScheduleContract(p) /\ ServiceIdentities(p) /\ GroupContract(p) /\ PolicyReferences(p)
     THEN Goto(a, "wipe") /\ op' = op
     ELSE Goto(a, "idle") /\ op' = [op EXCEPT ![a] = NoOp]
  /\ UNCHANGED <<cfg, nextId, snapshots, catalog, step, acc, idmap, crossed,
                 raced, lost, torn, ops, crashes>>

\* The first transaction of import_config deletes everything but the settings and
\* the built-in groups, which keep their members.
Survivors(c, t) ==
  CASE t = "app_settings" -> Ids(c, t)
    [] t = "aggregate_policy_groups" -> Ids(c, t) \cap BuiltinGroups
    [] OTHER -> {}
Wiped(c) ==
  [rows |-> [t \in Tables |-> [i \in Survivors(c, t) |-> Row(c, t, i)]], approved |-> {}]

Wipe(a) ==
  /\ pc[a] = "wipe"
  /\ cfg' = Wiped(cfg)
  /\ torn' = TRUE
  /\ Overtake(a)
  /\ Goto(a, "section")
  /\ idmap' = [idmap EXCEPT ![a] = [t \in {"profiles", "schedule_templates"} |-> Empty]]
  /\ UNCHANGED <<nextId, snapshots, catalog, op, step, acc, raced, lost, ops, crashes>>

\* Mutant: profile_map is not applied to the devices.
MappedNoDevices(a, t, refs) ==
  {IF r.to \in {"profiles", "schedule_templates"} /\ r.id \in DOMAIN idmap[a][r.to]
   THEN [r EXCEPT !.id = idmap[a][r.to][@]] ELSE r :
     r \in {r \in refs : t # "device_policy"}}

\* profile_map and template_map. A profile that is not in the payload is left
\* out of a device and kept, with its old id, in a schedule or a default.
Mapped(a, t, refs) ==
  {IF r.to \in {"profiles", "schedule_templates"} /\ r.id \in DOMAIN idmap[a][r.to]
   THEN [r EXCEPT !.id = idmap[a][r.to][@]] ELSE r :
     r \in {r \in refs : t = "device_policy" => r.id \in DOMAIN idmap[a]["profiles"]}}

\* New ids are given in the order of the payload.
NewId(t, old, i) ==
  IF t \in Keyed THEN i ELSE nextId[t] + Cardinality({j \in old : j < i})

RowFits(a, t, row) ==
  /\ Valid(cfg, Mapped(a, t, row.refs))
  /\ t \in UniqueName => row.name \notin RowNames(cfg, t)

\* The configuration once the rows done of section t are recreated, each in a
\* transaction of its own, and of the services those of approvals are approved.
Recreate(a, t, done, approvals) ==
  LET rows == op[a].payload.rows[t]
      new == [j \in {NewId(t, done, i) : i \in done} |->
                LET i == CHOOSE i \in done : NewId(t, done, i) = j
                IN [name |-> rows[i].name,
                    refs |-> Clean(cfg, Mapped(a, t, rows[i].refs))]]
  IN /\ cfg' = [Put(cfg, t, new) EXCEPT !.approved =
                  IF t = "services" THEN @ \cup approvals ELSE @]
     /\ nextId' = IF t \in Keyed THEN nextId
                  ELSE [nextId EXCEPT ![t] = @ + Cardinality(done)]

Fitting(a, t) ==
  {i \in DOMAIN op[a].payload.rows[t] : RowFits(a, t, op[a].payload.rows[t][i])}

\* What may have been committed of the rows that fit: the templates are one transaction.
Begun(t, fitting) == IF t = "policy_templates" THEN {{}} ELSE SUBSET fitting

\* Recreate one section, to its end or up to a row that is refused.
Section(a) ==
  /\ pc[a] = "section" /\ step[a] <= Len(SectionOrder)
  /\ LET t == SectionOrder[step[a]]
         all == DOMAIN op[a].payload.rows[t]
         fitting == Fitting(a, t)
     IN \E done \in IF fitting = all THEN {all} ELSE Begun(t, fitting) :
        /\ Recreate(a, t, done, op[a].payload.approved \cap done)
        /\ idmap' = IF t \in {"profiles", "schedule_templates"}
                    THEN [idmap EXCEPT ![a][t] = [i \in done |-> NewId(t, done, i)]]
                    ELSE idmap
        /\ IF done = all
           THEN /\ step' = [step EXCEPT ![a] = @ + 1]
                /\ torn' = (torn /\ t # "aggregate_policy_groups")
                /\ UNCHANGED <<pc, op, lost>>
           ELSE /\ step' = [step EXCEPT ![a] = 1]
                /\ lost' = TRUE
                /\ Goto(a, "failed") /\ UNCHANGED <<op, torn>>
  /\ raced' = (raced \/ crossed[a])
  /\ Overtake(a)
  /\ UNCHANGED <<snapshots, catalog, acc, ops, crashes>>

Imported(a) ==
  /\ pc[a] = "section" /\ step[a] > Len(SectionOrder)
  /\ step' = [step EXCEPT ![a] = 1]
  /\ Goto(a, IF op[a].do = "restore" THEN "reread" ELSE "publish")
  /\ UNCHANGED <<cfg, nextId, snapshots, catalog, op, acc, idmap, crossed, raced,
                 lost, torn, ops, crashes>>

\* _semantic_config_payload: rows without ids, references by name.
NameOf(c, r) == IF r.to \in {"profiles", "schedule_templates"} /\ Known(c, r)
                THEN Row(c, r.to, r.id).name ELSE r.id
SemanticRefs(c, t, refs) ==
  {[to |-> r.to, name |-> NameOf(c, r), via |-> r.via] :
     r \in {r \in refs : t = "device_policy" => Known(c, r)}}
Semantic(c) ==
  [t \in Tables |-> {[name |-> Row(c, t, i).name,
                      refs |-> SemanticRefs(c, t, Row(c, t, i).refs)] : i \in Ids(c, t)}]
Digest(c) == <<Semantic(c), c.approved>>

Verify(a) ==
  /\ pc[a] = "reread" /\ step[a] > Len(ExportOrder)
  /\ step' = [step EXCEPT ![a] = 1]
  /\ acc' = [acc EXCEPT ![a] = NoConfig]
  /\ Goto(a, IF Digest(acc[a]) = Digest(op[a].payload) THEN "publish" ELSE "failed")
  /\ UNCHANGED <<cfg, nextId, snapshots, catalog, op, idmap, crossed, raced, lost,
                 torn, ops, crashes>>

\* The route reports the error; the catalogue is not published.
Failed(a) ==
  /\ pc[a] \in {"failed", "raised"}
  /\ Goto(a, "idle") /\ op' = [op EXCEPT ![a] = NoOp]
  /\ UNCHANGED <<cfg, nextId, snapshots, catalog, step, acc, idmap, crossed,
                 raced, lost, torn, ops, crashes>>

\* Every request is gone; start-up publishes the catalogue.
Restarted ==
  /\ pc' = [a \in Admins |-> "idle"]
  /\ op' = [a \in Admins |-> NoOp]
  /\ step' = [a \in Admins |-> 1]
  /\ acc' = [a \in Admins |-> NoConfig]
  /\ idmap' = [a \in Admins |-> Empty]
  /\ crossed' = [a \in Admins |-> FALSE]
  /\ catalog' = Published(cfg')

\* The process dies and starts again. Before its first commit a request that dies
\* might as well not have been made.
Crash ==
  /\ crashes < MaxCrashes
  /\ \E a \in Admins : pc[a] \in {"publish", "replace", "section", "reread"}
  /\ crashes' = crashes + 1
  /\ UNCHANGED <<cfg, nextId, snapshots, raced, lost, torn, ops>>
  /\ Restarted

\* A statement raises within a section, or the process dies there: some rows are
\* committed, the last of the services perhaps without its approval.
Interrupted(a) ==
  /\ crashes < MaxCrashes
  /\ pc[a] = "section" /\ step[a] <= Len(SectionOrder)
  /\ LET t == SectionOrder[step[a]]
     IN \E done \in Begun(t, Fitting(a, t)) :
        \E unapproved \in {{}} \cup {{i} : i \in done} :
          Recreate(a, t, done, (op[a].payload.approved \cap done) \ unapproved)
  /\ crashes' = crashes + 1
  /\ raced' = (raced \/ crossed[a])
  /\ \/ /\ Overtake(a)
        /\ step' = [step EXCEPT ![a] = 1]
        /\ Goto(a, "raised")
        /\ UNCHANGED <<op, acc, idmap, catalog>>
     \/ Restarted
  /\ UNCHANGED <<snapshots, lost, torn, ops>>

-----------------------------------------------------------------------------
Init ==
  /\ cfg \in InitialConfigs
  /\ nextId = [t \in Tables \ Keyed |-> Cardinality(Ids(cfg, t)) + 1]
  /\ snapshots = <<cfg>>
  /\ catalog = Published(cfg)
  /\ pc = [a \in Admins |-> "idle"]
  /\ op = [a \in Admins |-> NoOp]
  /\ step = [a \in Admins |-> 1]
  /\ acc = [a \in Admins |-> NoConfig]
  /\ idmap = [a \in Admins |-> Empty]
  /\ crossed = [a \in Admins |-> FALSE]
  /\ raced = FALSE /\ lost = FALSE /\ torn = FALSE
  /\ ops = 0 /\ crashes = 0

ProfileRoutes(a) == ProfileSave(a) \/ ProfileClone(a) \/ ProfileDelete(a)
DeviceRoutes(a) == DeviceSave(a) \/ DeviceCopy(a) \/ DeviceRetire(a)
TemplateRoutes(a) == TemplateSave(a) \/ TemplateApply(a) \/ TemplateDelete(a)
ServiceRoutes(a) == ServiceSave(a) \/ ServiceApprove(a) \/ ServiceDelete(a)
GroupRoutes(a) == GroupSave(a) \/ GroupDelete(a)
CollectionRoutes(a) == CollectionSave(a) \/ CollectionApply(a) \/ CollectionDelete(a)
PlanRoutes(a) == PlanSave(a) \/ PlanDelete(a)
STemplateRoutes(a) == STemplateSave(a) \/ STemplateDelete(a)
ExceptionRoutes(a) == ExceptionSave(a) \/ ExceptionDelete(a)
PresetRoutes(a) == PresetSave(a) \/ PresetDelete(a)
OperationsRoutes(a) == Snapshot(a) \/ Import(a) \/ Restore(a)

Request(a) ==
  \/ ProfileRoutes(a) \/ DeviceRoutes(a) \/ TemplateRoutes(a) \/ PresetRoutes(a)
  \/ ServiceRoutes(a) \/ GroupRoutes(a) \/ CollectionRoutes(a) \/ PlanRoutes(a)
  \/ STemplateRoutes(a) \/ ExceptionRoutes(a) \/ DefaultsSave(a) \/ OperationsRoutes(a)

Advance(a) ==
  \/ Write(a) \/ Refused(a) \/ PublishRead(a) \/ PublishReplace(a)
  \/ ExportSection(a) \/ SnapshotInsert(a) \/ Preflight(a) \/ Wipe(a)
  \/ Section(a) \/ Interrupted(a) \/ Imported(a) \/ Verify(a) \/ Failed(a)

Next == Crash \/ \E a \in Admins : Request(a) \/ Advance(a)

Spec == Init /\ [][Next]_vars

-----------------------------------------------------------------------------
(* Properties.                                                             *)

Quiet == \A a \in Admins : pc[a] = "idle"

\* No sequence of requests, imports, failures and crashes leaves a dangling
\* reference, unless a write was decided on a state another thread changed
\* meanwhile: what is validated on save, guarded on delete and ordered in an import
\* fits together. Between the wipe and the end of the groups of an import, or of the
\* one that makes up for it if it fails, the members of groups are excepted.
ReferencesResolve == ~raced => \A r \in Refs(cfg) : Firm(r) => Known(cfg, r)

\* "Unknown concrete service(s)": a group never names a service that is not there.
\* It does when an import fails, or the process dies, with the groups to come.
MembersResolve == Quiet /\ ~raced => Resolved(cfg)

\* Every reference of p is one that a save would accept.
Restorable(p) == Valid(p, Refs(p)) /\ Resolved(p)

\* A backup whose references all resolve is imported to the end: no section of
\* import_config meets a row whose references are not there yet.
ConsistentBackupRestores ==
  \A a \in Admins : pc[a] = "failed" /\ ~crossed[a] => ~Restorable(op[a].payload)

\* A restore that nobody overtakes brings back what the snapshot held, although
\* ids change: the digest check of restore_config_snapshot does not fail.
RestoreIsFaithful ==
  \A a \in Admins :
    pc[a] = "reread" /\ step[a] = 1 /\ ~crossed[a] => Digest(cfg) = Digest(op[a].payload)

\* Once an import has deleted the configuration and has not finished, the newest
\* snapshot still holds what was deleted.
DeletedIsSaved ==
  [][\A a \in Admins : pc[a] = "wipe" /\ pc'[a] = "section" /\ ~crossed[a]
       => Digest(snapshots[Len(snapshots)]) = Digest(cfg)]_vars

\* "A malformed backup therefore cannot fail only after current configuration
\* has already been deleted."
FailsBeforeDeleting == ~lost \/ raced
=============================================================================

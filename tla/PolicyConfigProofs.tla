------------------------- MODULE PolicyConfigProofs -------------------------
(* Theorems about PolicyConfig for any administrators, keys, names and     *)
(* bounds: references resolve unless a write raced, an import saves what   *)
(* it deletes, a consistent backup is imported to the end, and a restore   *)
(* brings back what the snapshot held.                                     *)
EXTENDS PolicyConfig, SequenceTheorems, FiniteSetTheorems, TLAPS

-----------------------------------------------------------------------------
(* Configurations.                                                         *)

\* c with g for the rows of table t.
With(c, t, g) ==
  [rows |-> [u \in Tables |-> IF u = t THEN g ELSE c.rows[u]], approved |-> c.approved]

TableFormed(t, g) ==
  /\ g = [i \in DOMAIN g |-> g[i]]
  /\ \A i \in DOMAIN g : RowFormed(t, g[i])

LEMMA FormedTables ==
  ASSUME NEW c
  PROVE  WellFormed(c) <=>
           /\ c = [rows |-> [t \in Tables |-> c.rows[t]], approved |-> c.approved]
           /\ \A t \in Tables : TableFormed(t, c.rows[t])
BY DEF WellFormed, TableFormed, Ids, Row

LEMMA RefsUnfold ==
  ASSUME NEW c
  PROVE  Resolved(c) <=>
           \A t \in Tables : \A i \in Ids(c, t) : \A r \in Row(c, t, i).refs : Kept(r) => Known(c, r)
BY DEF Resolved, Refs

\* The references of c that are firm now resolve.
Held(c) == \A r \in Refs(c) : Firm(r) => Known(c, r)

LEMMA HeldUnfold ==
  ASSUME NEW c
  PROVE  Held(c) <=>
           \A t \in Tables : \A i \in Ids(c, t) : \A r \in Row(c, t, i).refs : Firm(r) => Known(c, r)
BY DEF Held, Refs

LEMMA WithFacts ==
  ASSUME NEW c, NEW t \in Tables, NEW g
  PROVE  /\ \A u \in Tables : With(c, t, g).rows[u] = IF u = t THEN g ELSE c.rows[u]
         /\ \A u \in Tables : Ids(With(c, t, g), u) = IF u = t THEN DOMAIN g ELSE Ids(c, u)
         /\ \A u \in Tables : \A i : Row(With(c, t, g), u, i) = IF u = t THEN g[i] ELSE Row(c, u, i)
         /\ With(c, t, g).approved = c.approved
BY DEF With, Ids, Row

LEMMA WithFormed ==
  ASSUME NEW c, WellFormed(c), NEW t \in Tables, NEW g, TableFormed(t, g)
  PROVE  WellFormed(With(c, t, g))
BY FormedTables DEF With

\* Where a kept reference may be, and to what.
LEMMA KeptFacts ==
  ASSUME NEW t, NEW r, Holds(t, r)
  PROVE  /\ r.to \in Tables /\ r.to # t
         /\ r.to = "services" => t \in PolicyKeyUsers \cup {"aggregate_policy_groups"}
         /\ r.to = "aggregate_policy_groups" => t \in PolicyKeyUsers
         /\ Firm(r) => Kept(r)
         /\ Kept(r) => \/ r.to \in PolicyKeys
                       \/ r.to = "profiles" /\ t = "device_policy"
                       \/ r.to = "schedule_templates" /\ t = "date_exceptions"
         /\ Kept(r) => Firm(r) \/ t = "aggregate_policy_groups"
BY DEF Holds, Kept, Firm, PolicyKeys, PolicyKeyUsers, Tables

\* Rows are only taken away, or references from them, and none that a row left
\* still keeps loses what it refers to.
LEMMA ShrunkResolves ==
  ASSUME NEW c, NEW n, Held(c),
         \A t \in Tables : Ids(n, t) \subseteq Ids(c, t),
         \A t \in Tables : \A i \in Ids(n, t) : Row(n, t, i).refs \subseteq Row(c, t, i).refs,
         \A t \in Tables : \A i \in Ids(n, t) : \A r \in Row(n, t, i).refs :
           Firm(r) /\ Known(c, r) => Known(n, r)
  PROVE  Held(n)
BY HeldUnfold

\* Rows are put, and what their references keep is there.
LEMMA GrownResolves ==
  ASSUME NEW c, WellFormed(c), Held(c), NEW t \in Tables, NEW g, TableFormed(t, g),
         Ids(c, t) \subseteq DOMAIN g,
         \A i \in DOMAIN g : \A r \in g[i].refs : Firm(r) => Known(c, r)
  PROVE  Held(With(c, t, g))
<1> DEFINE n == With(c, t, g)
<1>0. /\ \A u \in Tables : Ids(n, u) = IF u = t THEN DOMAIN g ELSE Ids(c, u)
      /\ \A u \in Tables : \A i : Row(n, u, i) = IF u = t THEN g[i] ELSE Row(c, u, i)
  BY WithFacts
<1> HIDE DEF n
<1>1. \A u \in Tables : Ids(c, u) \subseteq Ids(n, u)
  BY <1>0
<1>2. \A u \in Tables : \A i \in Ids(n, u) : \A r \in Row(n, u, i).refs :
        r.to \in Tables /\ (Firm(r) => Known(c, r))
  <2> SUFFICES ASSUME NEW u \in Tables, NEW i \in Ids(n, u), NEW r \in Row(n, u, i).refs
               PROVE  r.to \in Tables /\ (Firm(r) => Known(c, r))
    OBVIOUS
  <2>1. CASE u = t
    <3>1. i \in DOMAIN g /\ r \in g[i].refs
      BY <2>1, <1>0
    <3> QED
      BY <3>1, KeptFacts DEF TableFormed, RowFormed
  <2>2. CASE u # t
    <3>1. i \in Ids(c, u) /\ r \in Row(c, u, i).refs
      BY <2>2, <1>0
    <3>2. Holds(u, r)
      BY <3>1 DEF WellFormed, RowFormed
    <3> QED
      BY <3>1, <3>2, KeptFacts, HeldUnfold
  <2> QED
    BY <2>1, <2>2
<1> QED
  BY <1>1, <1>2, HeldUnfold DEF Known, n

-----------------------------------------------------------------------------
(* What the write transactions do.                                         *)

LEMMA PutIsWith ==
  ASSUME NEW c, WellFormed(c), NEW t \in Tables, NEW f
  PROVE  Put(c, t, f) = With(c, t, [i \in DOMAIN f \cup Ids(c, t) |->
                                      IF i \in DOMAIN f THEN f[i] ELSE Row(c, t, i)])
BY DEF Put, With, WellFormed

LEMMA DropIsWith ==
  ASSUME NEW c, WellFormed(c), NEW t \in Tables, NEW ids
  PROVE  Drop(c, t, ids) = With(c, t, [i \in Ids(c, t) \ ids |-> Row(c, t, i)])
BY DEF Drop, With, WellFormed

LEMMA PutFormed ==
  ASSUME NEW c, WellFormed(c), NEW t \in Tables, NEW f, \A i \in DOMAIN f : RowFormed(t, f[i])
  PROVE  WellFormed(Put(c, t, f))
<1> DEFINE g == [i \in DOMAIN f \cup Ids(c, t) |-> IF i \in DOMAIN f THEN f[i] ELSE Row(c, t, i)]
<1>1. TableFormed(t, g)
  BY DEF TableFormed, WellFormed
<1> HIDE DEF g
<1>2. WellFormed(With(c, t, g))
  BY <1>1, WithFormed
<1> QED
  BY <1>2, PutIsWith DEF g

LEMMA PutResolves ==
  ASSUME NEW c, WellFormed(c), Held(c), NEW t \in Tables,
         NEW f, \A i \in DOMAIN f : RowFormed(t, f[i]),
         \A i \in DOMAIN f : \A r \in f[i].refs : Firm(r) => Known(c, r)
  PROVE  Held(Put(c, t, f))
<1> DEFINE g == [i \in DOMAIN f \cup Ids(c, t) |-> IF i \in DOMAIN f THEN f[i] ELSE Row(c, t, i)]
<1>1. TableFormed(t, g)
  BY DEF TableFormed, WellFormed
<1>2. \A i \in DOMAIN g : \A r \in g[i].refs : Firm(r) => Known(c, r)
  BY HeldUnfold
<1>3. Ids(c, t) \subseteq DOMAIN g
  OBVIOUS
<1> HIDE DEF g
<1>4. Held(With(c, t, g))
  BY <1>1, <1>2, <1>3, GrownResolves
<1> QED
  BY <1>4, PutIsWith DEF g

\* What Drop leaves.
LEMMA DropEffect ==
  ASSUME NEW c, WellFormed(c), NEW t \in Tables, NEW ids
  PROVE  /\ WellFormed(Drop(c, t, ids))
         /\ \A u \in Tables : Ids(Drop(c, t, ids), u) = IF u = t THEN Ids(c, t) \ ids ELSE Ids(c, u)
         /\ \A u \in Tables : \A i \in Ids(Drop(c, t, ids), u) : Row(Drop(c, t, ids), u, i) = Row(c, u, i)
<1> DEFINE g == [i \in Ids(c, t) \ ids |-> Row(c, t, i)]
<1>1. TableFormed(t, g)
  BY DEF TableFormed, WellFormed
<1>2. /\ DOMAIN g = Ids(c, t) \ ids
      /\ \A i \in DOMAIN g : g[i] = Row(c, t, i)
  OBVIOUS
<1> HIDE DEF g
<1>3. WellFormed(With(c, t, g))
  BY <1>1, WithFormed
<1>4. /\ \A u \in Tables : Ids(With(c, t, g), u) = IF u = t THEN Ids(c, t) \ ids ELSE Ids(c, u)
      /\ \A u \in Tables : \A i \in Ids(With(c, t, g), u) : Row(With(c, t, g), u, i) = Row(c, u, i)
  BY <1>2, WithFacts
<1>5. Drop(c, t, ids) = With(c, t, g)
  BY DropIsWith DEF g
<1> QED
  BY <1>3, <1>4, <1>5

-----------------------------------------------------------------------------
(* Requests that wait for their write transaction.                         *)

Edits == {"save", "delete", "apply", "approve", "retire"}
Payloads == {"import", "restore"}

\* The table of a request, its references and its payload are those of its route.
OpShaped(o) ==
  /\ o.do \in {"save", "delete"} => o.table \in Tables
  /\ o.do = "save" => \A r \in o.refs : r = Ref(r.to, r.id, r.via) /\ Holds(o.table, r)
  /\ o.do \in Payloads => WellFormed(o.payload)

\* What was decided on c before the transaction: the references of a save, and
\* that nothing uses a service or a group that is deleted.
Decided(c, o) ==
  /\ o.do = "save" => \A r \in o.refs : Firm(r) => Known(c, r)
  /\ o.do = "delete" /\ o.table \in PolicyKeys =>
       \A t \in Tables : \A i \in Ids(c, t) : \A r \in Row(c, t, i).refs : ~(r.to = o.table /\ r.id = o.id)

LEMMA WriteCases ==
  ASSUME NEW c, NEW o
  PROVE  /\ o.do = "save" => Written(c, o) = Saved(c, o)
         /\ o.do = "delete" => Written(c, o) = Deleted(c, o) /\ (WriteAccepted(c, o) => DeleteAccepted(c, o))
         /\ o.do = "apply" => Written(c, o) = TemplateApplied(c, o) /\ (WriteAccepted(c, o) => ApplyAccepted(c, o))
         /\ o.do = "approve" => Written(c, o) = Approved(c, o)
         /\ o.do = "retire" => Written(c, o) = Retired(c, o.id)
BY Zenon DEF Written, WriteAccepted

LEMMA SavedResolves ==
  ASSUME NEW c, WellFormed(c), NEW o, o.do = "save", OpShaped(o)
  PROVE  /\ WellFormed(Saved(c, o))
         /\ Held(c) /\ Decided(c, o) => Held(Saved(c, o))
<1> DEFINE row == [name |-> o.name, refs |-> o.refs]
           f == Single(SaveId(o), row)
<1>1. Saved(c, o) = Put(c, o.table, f)
  BY DEF Saved
<1>2. \A i \in DOMAIN f : f[i] = row
  BY DEF Single
<1> HIDE DEF f
<1>3. \A i \in DOMAIN f : RowFormed(o.table, f[i])
  BY <1>2 DEF OpShaped, RowFormed
<1>4. o.table \in Tables
  BY DEF OpShaped
<1>5. WellFormed(Put(c, o.table, f))
  BY <1>3, <1>4, PutFormed
<1>6. ASSUME Held(c), Decided(c, o)
      PROVE  Held(Put(c, o.table, f))
  <2>1. \A i \in DOMAIN f : \A r \in f[i].refs : Firm(r) => Known(c, r)
    BY <1>2, <1>6 DEF Decided
  <2> QED
    BY <1>3, <1>4, <1>6, <2>1, PutResolves
<1> QED
  BY <1>1, <1>5, <1>6

\* A drop leaves what is kept, unless a row left refers to one that goes.
LEMMA DropResolves ==
  ASSUME NEW c, WellFormed(c), Held(c), NEW t \in Tables, NEW ids,
         \A u \in Tables \ {t} : \A i \in Ids(c, u) : \A r \in Row(c, u, i).refs :
           Firm(r) => ~(r.to = t /\ r.id \in ids)
  PROVE  Held(Drop(c, t, ids))
<1> DEFINE n == Drop(c, t, ids)
<1>1. /\ \A u \in Tables : Ids(n, u) = IF u = t THEN Ids(c, t) \ ids ELSE Ids(c, u)
      /\ \A u \in Tables : \A i \in Ids(n, u) : Row(n, u, i) = Row(c, u, i)
  BY DropEffect
<1> HIDE DEF n
<1>2. ASSUME NEW u \in Tables, NEW i \in Ids(n, u), NEW r \in Row(n, u, i).refs, Firm(r), Known(c, r)
      PROVE  Known(n, r)
  <2>1. i \in Ids(c, u) /\ r \in Row(c, u, i).refs
    BY <1>1, <1>2
  <2>2. Holds(u, r)
    BY <2>1 DEF WellFormed, RowFormed
  <2>3. r.to \in Tables /\ r.to # u
    BY <2>2, KeptFacts
  <2>4. r.to = t => r.id \notin ids
    BY <1>2, <2>1, <2>3
  <2> QED
    BY <1>1, <1>2, <2>3, <2>4 DEF Known
<1>3. Held(n)
  BY <1>1, <1>2, ShrunkResolves
<1> QED
  BY <1>3 DEF n

LEMMA RetiredResolves ==
  ASSUME NEW c, WellFormed(c), NEW ip
  PROVE  /\ WellFormed(Retired(c, ip))
         /\ Held(c) => Held(Retired(c, ip))
<1> DEFINE plans == Targeting(c, "schedule_plans", ip)
           exceptions == Targeting(c, "date_exceptions", ip)
           d == Drop(c, "device_policy", {ip})
           e == Drop(d, "schedule_plans", plans)
           f == Drop(e, "date_exceptions", exceptions)
<1>1. Retired(c, ip) = f
  BY DEF Retired
<1> HIDE DEF plans, exceptions
<1>2. {"device_policy", "schedule_plans", "date_exceptions"} \subseteq Tables
  BY DEF Tables
<1>3. \A u \in {"device_policy", "schedule_plans", "date_exceptions"} : \A n :
        WellFormed(n) => \A v \in Tables : \A i \in Ids(n, v) : \A r \in Row(n, v, i).refs : Firm(r) => r.to # u
  BY KeptFacts DEF WellFormed, RowFormed, PolicyKeys
<1>4. WellFormed(d) /\ (Held(c) => Held(d))
  BY <1>2, <1>3, DropEffect, DropResolves
<1> HIDE DEF d
<1>5. WellFormed(e) /\ (Held(d) => Held(e))
  BY <1>2, <1>3, <1>4, DropEffect, DropResolves
<1> HIDE DEF e
<1>6. WellFormed(f) /\ (Held(e) => Held(f))
  BY <1>2, <1>3, <1>5, DropEffect, DropResolves
<1> HIDE DEF f
<1> QED
  BY <1>1, <1>4, <1>5, <1>6

LEMMA WithoutIs ==
  ASSUME NEW row, row = [name |-> row.name, refs |-> row.refs], NEW id
  PROVE  Without(row, id) =
           [name |-> row.name, refs |-> {r \in row.refs : ~(r.to = "profiles" /\ r.id = id)}]
BY DEF Without

\* delete_profile takes the profile from its devices, then drops it.
LEMMA ProfileDeletedIs ==
  ASSUME NEW c, WellFormed(c), NEW id,
         NEW g, g = [d \in Ids(c, "device_policy") |-> Without(Row(c, "device_policy", d), id)]
  PROVE  /\ ProfileDeleted(c, id) = Drop(With(c, "device_policy", g), "profiles", {id})
         /\ TableFormed("device_policy", g) /\ WellFormed(With(c, "device_policy", g))
         /\ \A d \in DOMAIN g : g[d].refs \subseteq Row(c, "device_policy", d).refs
         /\ \A d \in DOMAIN g : \A r \in g[d].refs : ~(r.to = "profiles" /\ r.id = id)
<1> DEFINE n == With(c, "device_policy", g)
<1>1. ProfileDeleted(c, id) = Drop(n, "profiles", {id})
  <2>1. [c EXCEPT !.rows["device_policy"] = g] = n
    BY DEF With, WellFormed
  <2> HIDE DEF n
  <2> QED
    BY <2>1, Zenon DEF ProfileDeleted
<1>0. \A d \in Ids(c, "device_policy") :
        Without(Row(c, "device_policy", d), id) =
          [name |-> Row(c, "device_policy", d).name,
           refs |-> {r \in Row(c, "device_policy", d).refs : ~(r.to = "profiles" /\ r.id = id)}]
  <2>1. \A d \in Ids(c, "device_policy") :
          Row(c, "device_policy", d) = [name |-> Row(c, "device_policy", d).name, refs |-> Row(c, "device_policy", d).refs]
    BY DEF WellFormed, RowFormed, Tables
  <2> QED
    BY <2>1, WithoutIs
<1>2. TableFormed("device_policy", g)
  BY <1>0 DEF TableFormed, RowFormed, WellFormed, Tables
<1>3. /\ \A d \in DOMAIN g : g[d].refs \subseteq Row(c, "device_policy", d).refs
      /\ \A d \in DOMAIN g : \A r \in g[d].refs : ~(r.to = "profiles" /\ r.id = id)
  BY <1>0
<1>4. "device_policy" \in Tables
  BY DEF Tables
<1>5. WellFormed(n)
  BY <1>2, <1>4, WithFormed
<1> QED
  BY <1>1, <1>2, <1>3, <1>5

LEMMA ProfileDeletedResolves ==
  ASSUME NEW c, WellFormed(c), NEW id
  PROVE  /\ WellFormed(ProfileDeleted(c, id))
         /\ Held(c) => Held(ProfileDeleted(c, id))
<1> DEFINE g == [d \in Ids(c, "device_policy") |-> Without(Row(c, "device_policy", d), id)]
           n == With(c, "device_policy", g)
<1>1. /\ ProfileDeleted(c, id) = Drop(n, "profiles", {id})
      /\ TableFormed("device_policy", g) /\ WellFormed(n)
      /\ \A d \in DOMAIN g : g[d].refs \subseteq Row(c, "device_policy", d).refs
      /\ \A d \in DOMAIN g : \A r \in g[d].refs : ~(r.to = "profiles" /\ r.id = id)
  BY ProfileDeletedIs
<1>2. TableFormed("device_policy", g)
  BY <1>1
<1>3. /\ DOMAIN g = Ids(c, "device_policy")
      /\ \A d \in DOMAIN g : g[d].refs \subseteq Row(c, "device_policy", d).refs
      /\ \A d \in DOMAIN g : \A r \in g[d].refs : ~(r.to = "profiles" /\ r.id = id)
  BY <1>1
<1> HIDE DEF g
<1>4. "device_policy" \in Tables /\ "profiles" \in Tables
  BY DEF Tables
<1>8. /\ \A u \in Tables : Ids(n, u) = IF u = "device_policy" THEN DOMAIN g ELSE Ids(c, u)
      /\ \A u \in Tables : \A i : Row(n, u, i) = IF u = "device_policy" THEN g[i] ELSE Row(c, u, i)
  BY <1>4 DEF With, Ids, Row
<1>5. WellFormed(n)
  BY <1>1
<1>6. ASSUME Held(c)
      PROVE  Held(n)
  <2>1. \A i \in DOMAIN g : \A r \in g[i].refs : Firm(r) => Known(c, r)
    BY <1>3, <1>4, <1>6, HeldUnfold
  <2> QED
    BY <1>2, <1>3, <1>4, <1>6, <2>1, GrownResolves
<1>7. \A u \in Tables \ {"profiles"} : \A i \in Ids(n, u) : \A r \in Row(n, u, i).refs :
        Firm(r) => ~(r.to = "profiles" /\ r.id \in {id})
  <2> SUFFICES ASSUME NEW u \in Tables, NEW i \in Ids(n, u), NEW r \in Row(n, u, i).refs, Firm(r),
                      r.to = "profiles"
               PROVE  r.id # id
    OBVIOUS
  <2>1. Holds(u, r)
    BY <1>5 DEF WellFormed, RowFormed
  <2>2. u = "device_policy"
    BY <2>1, KeptFacts DEF PolicyKeys
  <2>3. i \in DOMAIN g /\ Row(n, u, i) = g[i]
    <3>1. i \in Ids(n, "device_policy") /\ Row(n, u, i) = Row(n, "device_policy", i)
      BY <2>2
    <3>2. Ids(n, "device_policy") = DOMAIN g /\ Row(n, "device_policy", i) = g[i]
      BY <1>4, <1>8
    <3> QED
      BY <3>1, <3>2
  <2> QED
    BY <1>3, <2>3
<1> HIDE DEF n
<1> QED
  BY <1>1, <1>4, <1>5, <1>6, <1>7, DropEffect, DropResolves

LEMMA AppliedIs ==
  ASSUME NEW c, WellFormed(c), NEW o, ApplyAccepted(c, o)
  PROVE  TemplateApplied(c, o) =
           Put(c, "profiles", [i \in {o.id} |-> [name |-> Row(c, "profiles", i).name,
                                                refs |-> Row(c, "policy_templates", o.template).refs]])
<1> DEFINE refs == Row(c, "policy_templates", o.template).refs
           f == [i \in {o.id} |-> [name |-> Row(c, "profiles", i).name, refs |-> refs]]
           g == [i \in DOMAIN f \cup Ids(c, "profiles") |-> IF i \in DOMAIN f THEN f[i] ELSE Row(c, "profiles", i)]
<1>1. "profiles" \in Tables /\ "policy_templates" \in Tables
  BY DEF Tables
<1>2. o.id \in Ids(c, "profiles") /\ o.template \in Ids(c, "policy_templates")
  BY DEF ApplyAccepted
<1> HIDE DEF refs
<1>4. TemplateApplied(c, o) = Put(c, "profiles", f)
  <2> DEFINE h == [c.rows["profiles"] EXCEPT ![o.id].refs = refs]
  <2>1. h = g
    <3>1. /\ c.rows["profiles"] = [i \in Ids(c, "profiles") |-> Row(c, "profiles", i)]
          /\ \A i \in Ids(c, "profiles") :
               Row(c, "profiles", i) = [name |-> Row(c, "profiles", i).name, refs |-> Row(c, "profiles", i).refs]
      BY <1>1 DEF WellFormed, RowFormed
    <3>2. DOMAIN f \cup Ids(c, "profiles") = Ids(c, "profiles")
      BY <1>2
    <3>3. [Row(c, "profiles", o.id) EXCEPT !.refs = refs] = [name |-> Row(c, "profiles", o.id).name, refs |-> refs]
      BY <1>2, <3>1
    <3> QED
      BY <1>2, <3>1, <3>2, <3>3 DEF Row
  <2> HIDE DEF h, g, f
  <2>2. [c EXCEPT !.rows["profiles"] = h] = With(c, "profiles", h)
    BY <1>1 DEF With, WellFormed
  <2>3. TemplateApplied(c, o) = [c EXCEPT !.rows["profiles"] = h]
    BY DEF TemplateApplied, WellFormed, h, refs
  <2>4. Put(c, "profiles", f) = With(c, "profiles", g)
    BY <1>1, PutIsWith DEF g
  <2> QED
    BY <2>1, <2>2, <2>3, <2>4
<1> QED
  BY <1>4 DEF refs

LEMMA AppliedResolves ==
  ASSUME NEW c, WellFormed(c), NEW o, ApplyAccepted(c, o)
  PROVE  /\ WellFormed(TemplateApplied(c, o))
         /\ Held(c) => Held(TemplateApplied(c, o))
<1> DEFINE refs == Row(c, "policy_templates", o.template).refs
           f == [i \in {o.id} |-> [name |-> Row(c, "profiles", i).name, refs |-> refs]]
<1>1. "profiles" \in Tables /\ "policy_templates" \in Tables
  BY DEF Tables
<1>2. o.id \in Ids(c, "profiles") /\ o.template \in Ids(c, "policy_templates")
  BY DEF ApplyAccepted
<1>3. \A r \in refs : r = Ref(r.to, r.id, r.via) /\ Holds("profiles", r) /\ (Held(c) /\ Firm(r) => Known(c, r))
  <2> SUFFICES ASSUME NEW r \in refs
               PROVE  r = Ref(r.to, r.id, r.via) /\ Holds("profiles", r) /\ (Held(c) /\ Firm(r) => Known(c, r))
    OBVIOUS
  <2>1. r = Ref(r.to, r.id, r.via) /\ Holds("policy_templates", r)
    BY <1>1, <1>2 DEF WellFormed, RowFormed
  <2>2. Holds("profiles", r)
    BY <2>1 DEF Holds
  <2>3. Held(c) /\ Firm(r) => Known(c, r)
    BY <1>1, <1>2, HeldUnfold
  <2> QED
    BY <2>1, <2>2, <2>3
<1> HIDE DEF refs
<1>4. TemplateApplied(c, o) = Put(c, "profiles", f)
  BY AppliedIs DEF refs
<1>5. \A i \in DOMAIN f : RowFormed("profiles", f[i])
  BY <1>3 DEF RowFormed
<1>6. Held(c) => \A i \in DOMAIN f : \A r \in f[i].refs : Firm(r) => Known(c, r)
  BY <1>3
<1> HIDE DEF f
<1> QED
  BY <1>1, <1>4, <1>5, <1>6, PutFormed, PutResolves

\* Which services are approved matters to no reference.
LEMMA SameRows ==
  ASSUME NEW c, WellFormed(c), NEW n, n.rows = c.rows, n = [rows |-> c.rows, approved |-> n.approved]
  PROVE  WellFormed(n) /\ (Held(c) => Held(n))
<1>1. \A t : Ids(n, t) = Ids(c, t) /\ \A i : Row(n, t, i) = Row(c, t, i)
  BY DEF Ids, Row
<1>2. WellFormed(n)
  BY <1>1 DEF WellFormed
<1>3. Held(c) => Held(n)
  BY <1>1, HeldUnfold DEF Known
<1> QED
  BY <1>2, <1>3

LEMMA DeletedCases ==
  ASSUME NEW c, NEW o
  PROVE  /\ o.table = "profiles" => Deleted(c, o) = ProfileDeleted(c, o.id)
         /\ o.table = "services" =>
              Deleted(c, o) = [Drop(c, o.table, {o.id}) EXCEPT
                                 !.approved = Drop(c, o.table, {o.id}).approved \ {o.id}]
         /\ o.table \notin {"profiles", "services"} => Deleted(c, o) = Drop(c, o.table, {o.id})
<1>1. "profiles" # "services"
  OBVIOUS
<1> QED
  BY <1>1, Zenon DEF Deleted

LEMMA DeletedResolves ==
  ASSUME NEW c, WellFormed(c), NEW o, o.do = "delete", OpShaped(o), DeleteAccepted(c, o)
  PROVE  /\ WellFormed(Deleted(c, o))
         /\ Held(c) /\ Decided(c, o) => Held(Deleted(c, o))
<1>1. o.table \in Tables
  BY DEF OpShaped
<1>2. CASE o.table = "profiles"
  <2>1. Deleted(c, o) = ProfileDeleted(c, o.id)
    BY <1>2, DeletedCases
  <2> QED
    BY <2>1, ProfileDeletedResolves
<1>3. CASE o.table # "profiles"
  <2> DEFINE n == Drop(c, o.table, {o.id})
  <2>1. WellFormed(n)
    BY <1>1, DropEffect
  <2>2. ASSUME Held(c), Decided(c, o)
        PROVE  Held(n)
    <3>1. \A u \in Tables \ {o.table} : \A i \in Ids(c, u) : \A r \in Row(c, u, i).refs :
            Firm(r) => ~(r.to = o.table /\ r.id \in {o.id})
      <4> SUFFICES ASSUME NEW u \in Tables, NEW i \in Ids(c, u), NEW r \in Row(c, u, i).refs, Firm(r),
                          r.to = o.table, r.id = o.id
                   PROVE  FALSE
        OBVIOUS
      <4>1. Holds(u, r)
        BY DEF WellFormed, RowFormed
      <4>2. CASE r.to \in PolicyKeys
        BY <2>2, <4>2 DEF Decided
      <4>3. CASE r.to = "schedule_templates" /\ u = "date_exceptions"
        BY <4>3 DEF DeleteAccepted, UsedBy
      <4> QED
        BY <1>3, <4>1, <4>2, <4>3, KeptFacts
    <3> QED
      BY <1>1, <2>2, <3>1, DropResolves
  <2>3. \/ Deleted(c, o) = n
        \/ Deleted(c, o) = [n EXCEPT !.approved = n.approved \ {o.id}]
    BY <1>3, DeletedCases
  <2> HIDE DEF n
  <2>4. Deleted(c, o).rows = n.rows /\ Deleted(c, o) = [rows |-> n.rows, approved |-> Deleted(c, o).approved]
    <3>1. n = [rows |-> n.rows, approved |-> n.approved]
      BY <2>1 DEF WellFormed
    <3> QED
      BY <2>3, <3>1
  <2> QED
    BY <2>1, <2>2, <2>4, SameRows
<1> QED
  BY <1>2, <1>3

\* A transaction keeps the form of the configuration, and its references if what
\* was decided before still holds.
LEMMA WrittenResolves ==
  ASSUME NEW c, WellFormed(c), NEW o, o.do \in Edits, OpShaped(o), WriteAccepted(c, o)
  PROVE  /\ WellFormed(Written(c, o))
         /\ Held(c) /\ Decided(c, o) => Held(Written(c, o))
<1>1. CASE o.do = "save"
  BY <1>1, WriteCases, SavedResolves
<1>2. CASE o.do = "delete"
  BY <1>2, WriteCases, DeletedResolves
<1>3. CASE o.do = "apply"
  BY <1>3, WriteCases, AppliedResolves
<1>4. CASE o.do = "approve"
  <2>1. Approved(c, o).rows = c.rows /\ Approved(c, o) = [rows |-> c.rows, approved |-> Approved(c, o).approved]
    <3>1. c = [rows |-> c.rows, approved |-> c.approved]
      BY DEF WellFormed
    <3> QED
      BY <3>1 DEF Approved
  <2> QED
    BY <1>4, <2>1, SameRows, WriteCases
<1>5. CASE o.do = "retire"
  BY <1>5, WriteCases, RetiredResolves
<1> QED
  BY <1>1, <1>2, <1>3, <1>4, <1>5 DEF Edits
-----------------------------------------------------------------------------
(* The invariant.                                                          *)

\* A request, where it is and the section it is at.
RequestOK(l, o, s) ==
  /\ OpShaped(o)
  /\ s \in Nat \ {0}
  /\ l = "write" => o.do \in Edits
  /\ l = "export" => o.do \in Payloads \cup {"snapshot"}
  /\ l \in {"preflight", "wipe", "section", "reread"} => o.do \in Payloads
  /\ l = "wipe" => BuiltinGroups \subseteq Ids(o.payload, "aggregate_policy_groups")

Stored(s) == s \in Seq(Range(s)) /\ \A i \in DOMAIN s : WellFormed(s[i])

ShapeInv ==
  /\ WellFormed(cfg)
  /\ Stored(snapshots)
  /\ \A a \in Admins : WellFormed(acc[a])
  /\ \A a \in Admins : RequestOK(pc[a], op[a], step[a])
  /\ DOMAIN pc = Admins /\ DOMAIN op = Admins /\ DOMAIN step = Admins
  /\ DOMAIN acc = Admins /\ DOMAIN crossed = Admins
  /\ raced \in BOOLEAN /\ torn \in BOOLEAN /\ \A a \in Admins : crossed[a] \in BOOLEAN

\* Until an import that nobody has overtaken has recreated the groups, there are
\* none but those of its payload.
GroupsOK(l, k, o, s, c) ==
  l = "section" /\ ~k /\ s <= 3 =>
    Ids(c, "aggregate_policy_groups") \subseteq Ids(o.payload, "aggregate_policy_groups")

\* Unless a write raced, the references the code keeps resolve, and they still do
\* after an edit that nobody has overtaken since it was decided.
RefInv ==
  /\ ShapeInv
  /\ ~raced => /\ Held(cfg)
               /\ \A a \in Admins : pc[a] = "write" /\ ~crossed[a] => Decided(cfg, op[a])
  /\ \A a \in Admins : GroupsOK(pc[a], crossed[a], op[a], step[a], cfg)

\* Only the request of a moves.
OnlyMoves(a) ==
  /\ DOMAIN pc' = Admins /\ DOMAIN op' = Admins /\ DOMAIN step' = Admins
  /\ DOMAIN acc' = Admins /\ DOMAIN crossed' = Admins
  /\ \A x \in Admins \ {a} : pc'[x] = pc[x] /\ op'[x] = op[x] /\ step'[x] = step[x] /\ acc'[x] = acc[x]

\* A step that commits nothing to the configuration.
LEMMA ReadKeeps ==
  ASSUME RefInv, NEW a \in Admins, OnlyMoves(a), UNCHANGED <<cfg, torn>>,
         \A x \in Admins \ {a} : crossed'[x] = crossed[x],
         crossed'[a] \in BOOLEAN, raced' \in BOOLEAN, raced => raced',
         Stored(snapshots'), WellFormed(acc'[a]), RequestOK(pc'[a], op'[a], step'[a]),
         pc'[a] = "write" /\ ~raced /\ ~crossed'[a] => Decided(cfg, op'[a]),
         pc'[a] # "section"
  PROVE  RefInv'
<1>1. ShapeInv'
  BY DEF RefInv, ShapeInv, OnlyMoves
<1>0. \A r : Firm(r)' <=> Firm(r)
  BY DEF Firm, Kept
<1>2. ~raced' => Held(cfg)'
  BY <1>0 DEF RefInv, Held
<1>3. ASSUME ~raced', NEW x \in Admins, pc'[x] = "write", ~crossed'[x]
      PROVE  Decided(cfg, op[x])'
  <2>1. Decided(cfg, op'[x])
    BY <1>3 DEF RefInv, ShapeInv, OnlyMoves
  <2> QED
    BY <1>0, <2>1 DEF Decided
<1>4. ASSUME NEW x \in Admins
      PROVE  GroupsOK(pc'[x], crossed'[x], op'[x], step'[x], cfg')
  <2>1. CASE x = a
    BY <2>1 DEF GroupsOK
  <2>2. CASE x # a
    <3>1. /\ pc'[x] = pc[x] /\ crossed'[x] = crossed[x] /\ op'[x] = op[x] /\ step'[x] = step[x]
          /\ cfg' = cfg
      BY <2>2 DEF OnlyMoves
    <3> QED
      BY <3>1 DEF RefInv
  <2> QED
    BY <2>1, <2>2
<1> QED
  BY <1>1, <1>2, <1>3, <1>4 DEF RefInv

\* A step that commits, which overtakes every other request.
LEMMA CommitKeeps ==
  ASSUME RefInv, NEW a \in Admins, OnlyMoves(a), Overtake(a), WellFormed(cfg'),
         raced' \in BOOLEAN, raced => raced', ~raced' => Held(cfg)', torn' \in BOOLEAN,
         UNCHANGED <<snapshots, acc>>, RequestOK(pc'[a], op'[a], step'[a]), pc'[a] # "write",
         GroupsOK(pc'[a], crossed[a], op'[a], step'[a], cfg')
  PROVE  RefInv'
<1>1. \A x \in Admins : crossed'[x] = (crossed[x] \/ (x # a /\ pc[x] # "idle"))
  BY DEF Overtake
<1>2. \A x \in Admins : crossed'[x] \in BOOLEAN
  BY <1>1, Zenon
<1>3. ShapeInv'
  BY <1>2 DEF RefInv, ShapeInv, OnlyMoves
<1>4. ASSUME NEW x \in Admins, pc'[x] = "write"
      PROVE  crossed'[x]
  <2>1. x # a /\ pc[x] = "write"
    BY <1>4 DEF OnlyMoves
  <2> QED
    BY <1>1, <2>1, Zenon
<1>5. ASSUME NEW x \in Admins
      PROVE  GroupsOK(pc'[x], crossed'[x], op'[x], step'[x], cfg')
  <2>1. CASE x = a
    <3>1. crossed'[x] <=> crossed[x]
      BY <1>1, <2>1, Zenon
    <3> QED
      BY <2>1, <3>1 DEF GroupsOK
  <2>2. CASE x # a
    <3>1. pc'[x] = pc[x]
      BY <2>2 DEF OnlyMoves
    <3>2. pc[x] = "section" => crossed'[x]
      BY <1>1, <2>2, Zenon
    <3> QED
      BY <3>1, <3>2 DEF GroupsOK
  <2> QED
    BY <2>1, <2>2
<1> QED
  BY <1>3, <1>4, <1>5 DEF RefInv

\* The process starts again, whatever it has committed.
LEMMA RestartKeeps ==
  ASSUME RefInv, Restarted, WellFormed(cfg'), UNCHANGED snapshots,
         raced' \in BOOLEAN, torn' \in BOOLEAN, ~raced' => Held(cfg)'
  PROVE  RefInv'
<1>1. WellFormed(NoConfig)
  BY DEF NoConfig, WellFormed, Empty, Ids, Row
<1>2. RequestOK("idle", NoOp, 1)
  BY DEF RequestOK, OpShaped, NoOp, Payloads
<1> QED
  BY <1>1, <1>2 DEF Restarted, RefInv, ShapeInv, GroupsOK

\* A commit that leaves the groups of an import alone keeps what resolves.
LEMMA StillHeld ==
  ASSUME Held(cfg'), UNCHANGED torn
  PROVE  Held(cfg)'
BY DEF Held, Firm, Kept

-----------------------------------------------------------------------------
(* Requests begin.                                                         *)

\* o may begin at l, as an edit decided on the configuration it has read.
MayBegin(o, l) ==
  /\ l \in {"write", "export"} /\ RequestOK(l, o, 1)
  /\ l = "write" /\ Held(cfg) => Decided(cfg, o)

LEMMA BeginKeeps ==
  ASSUME RefInv, NEW a \in Admins, NEW o, NEW l, MayBegin(o, l), Begin(a, o, l)
  PROVE  RefInv'
<1>1. /\ pc' = [pc EXCEPT ![a] = l] /\ op' = [op EXCEPT ![a] = o]
      /\ crossed' = [crossed EXCEPT ![a] = FALSE]
      /\ UNCHANGED <<cfg, snapshots, step, acc, raced, torn>>
  BY DEF Begin, Goto
<1>2. /\ OnlyMoves(a) /\ pc'[a] = l /\ op'[a] = o /\ crossed'[a] = FALSE
      /\ \A x \in Admins \ {a} : crossed'[x] = crossed[x]
  BY <1>1 DEF OnlyMoves, RefInv, ShapeInv
<1>3. RequestOK(pc'[a], op'[a], step'[a])
  BY <1>1, <1>2 DEF MayBegin, RequestOK, RefInv, ShapeInv
<1>4. Stored(snapshots') /\ WellFormed(acc'[a]) /\ raced' \in BOOLEAN
  BY <1>1 DEF RefInv, ShapeInv
<1>5. pc'[a] = "write" /\ ~raced => Decided(cfg, op'[a])
  BY <1>2 DEF MayBegin, RefInv
<1>6. l # "section"
  BY DEF MayBegin
<1> QED
  BY <1>1, <1>2, <1>3, <1>4, <1>5, <1>6, ReadKeeps

LEMMA BackedIsKnown ==
  ASSUME NEW c, NEW r, Backed(c, r), r.to # "device_policy"
  PROVE  Known(c, r)
BY Zenon DEF Backed

\* What is valid, and cleaned of the keys that are not known, keeps nothing that
\* is not there.
LEMMA CleanIsKnown ==
  ASSUME NEW c, NEW refs, Valid(c, refs), NEW r \in Clean(c, refs), r.to # "device_policy"
  PROVE  Known(c, r)
BY BackedIsKnown DEF Valid, Clean

LEMMA SaveKeeps ==
  ASSUME RefInv, NEW a \in Admins, NEW t \in Tables, NEW id, NEW name, NEW refs,
         \A r \in refs : r = Ref(r.to, r.id, r.via) /\ Holds(t, r),
         Save(a, t, id, name, refs)
  PROVE  RefInv'
<1> DEFINE o == [do |-> "save", table |-> t, id |-> id, name |-> name, refs |-> Clean(cfg, refs)]
<1>1. Valid(cfg, refs) /\ Begin(a, o, "write")
  BY DEF Save
<1>2. o.do = "save" /\ o.table = t /\ o.refs = Clean(cfg, refs)
  OBVIOUS
<1> HIDE DEF o
<1>3. RequestOK("write", o, 1)
  BY <1>2 DEF RequestOK, OpShaped, Edits, Payloads, Clean
<1>4. \A r \in o.refs : Firm(r) => Known(cfg, r)
  <2> SUFFICES ASSUME NEW r \in Clean(cfg, refs), Firm(r)
               PROVE  Known(cfg, r)
    BY <1>2
  <2>1. Holds(t, r)
    BY DEF Clean
  <2>2. r.to # "device_policy"
    BY <2>1, KeptFacts DEF PolicyKeys
  <2> QED
    BY <1>1, <2>2, CleanIsKnown
<1>5. MayBegin(o, "write")
  BY <1>2, <1>3, <1>4 DEF MayBegin, Decided
<1> QED
  BY <1>1, <1>5, BeginKeeps

LEMMA DeleteKeeps ==
  ASSUME RefInv, NEW a \in Admins, NEW t \in Tables, NEW id, Delete(a, t, id),
         t \in PolicyKeys =>
           \A u \in Tables : \A i \in Ids(cfg, u) : \A r \in Row(cfg, u, i).refs : ~(r.to = t /\ r.id = id)
  PROVE  RefInv'
<1> DEFINE o == [do |-> "delete", table |-> t, id |-> id]
<1>1. Begin(a, o, "write")
  BY DEF Delete
<1>2. o.do = "delete" /\ o.table = t /\ o.id = id
  OBVIOUS
<1> HIDE DEF o
<1>3. MayBegin(o, "write")
  BY <1>2 DEF MayBegin, Decided, RequestOK, OpShaped, Edits, Payloads
<1> QED
  BY <1>1, <1>3, BeginKeeps

\* What the rows of a table hold, for a request that reads them.
LEMMA RowHolds ==
  ASSUME RefInv, NEW t \in Tables, NEW i \in Ids(cfg, t), NEW r \in Row(cfg, t, i).refs
  PROVE  r = Ref(r.to, r.id, r.via) /\ Holds(t, r)
BY DEF RefInv, ShapeInv, WellFormed, RowFormed

LEMMA UnusedKey ==
  ASSUME RefInv, NEW k, NEW id,
         NEW users, PolicyKeyUsers \subseteq users, ~UsedBy(cfg, users, k, id),
         k = "services" => "aggregate_policy_groups" \in users,
         k \in PolicyKeys
  PROVE  \A u \in Tables : \A i \in Ids(cfg, u) : \A r \in Row(cfg, u, i).refs : ~(r.to = k /\ r.id = id)
<1> SUFFICES ASSUME NEW u \in Tables, NEW i \in Ids(cfg, u), NEW r \in Row(cfg, u, i).refs, r.to = k, r.id = id
             PROVE  FALSE
  OBVIOUS
<1>1. Holds(u, r)
  BY RowHolds
<1> QED
  BY <1>1, KeptFacts DEF UsedBy, PolicyKeys

LEMMA FormRefs ==
  ASSUME NEW R, NEW S, R \in Forms(S)
  PROVE  R \subseteq S
BY DEF Forms

LEMMA KeyRefsFacts ==
  ASSUME NEW via, NEW r \in KeyRefs(via)
  PROVE  r = Ref(r.to, r.id, r.via) /\ r.to \in PolicyKeys /\ r.via = via
BY DEF KeyRefs, PolicyKeys, Ref

LEMMA TargetFacts ==
  ASSUME NEW r \in TargetRefs
  PROVE  r = Ref(r.to, r.id, r.via) /\ r.to \in {"profiles", "device_policy"} /\ r.via = "target"
BY DEF TargetRefs, Ref

LEMMA ProfileKeeps ==
  ASSUME RefInv, NEW a \in Admins, ProfileRoutes(a)
  PROVE  RefInv'
<1>1. "profiles" \in Tables
  BY DEF Tables
<1>2. CASE ProfileSave(a)
  <2>1. PICK id \in New("profiles"), n \in Names :
          \E R \in Forms({Ref("bandwidth_presets", p, "preset") : p \in Presets}
                           \cup KeyRefs("blocked") \cup KeyRefs("quota")) : Save(a, "profiles", id, n, R)
    BY <1>2 DEF ProfileSave
  <2>2. PICK R \in Forms({Ref("bandwidth_presets", p, "preset") : p \in Presets}
                           \cup KeyRefs("blocked") \cup KeyRefs("quota")) : Save(a, "profiles", id, n, R)
    BY <2>1
  <2>3. ASSUME NEW r \in R
        PROVE  r = Ref(r.to, r.id, r.via) /\ Holds("profiles", r)
    <3>1. \/ r \in {Ref("bandwidth_presets", p, "preset") : p \in Presets}
          \/ r \in KeyRefs("blocked") \/ r \in KeyRefs("quota")
      BY FormRefs
    <3>2. CASE r \in {Ref("bandwidth_presets", p, "preset") : p \in Presets}
      BY <3>2 DEF Holds, Ref
    <3>3. CASE r \in KeyRefs("blocked") \/ r \in KeyRefs("quota")
      BY <3>3, KeyRefsFacts DEF Holds
    <3> QED
      BY <3>1, <3>2, <3>3
  <2> QED
    BY <1>1, <2>2, <2>3, SaveKeeps
<1>3. CASE ProfileClone(a)
  <2>1. PICK id \in Ids(cfg, "profiles"), n \in Names : Save(a, "profiles", 0, n, Row(cfg, "profiles", id).refs)
    BY <1>3 DEF ProfileClone
  <2>2. \A r \in Row(cfg, "profiles", id).refs : r = Ref(r.to, r.id, r.via) /\ Holds("profiles", r)
    BY <1>1, RowHolds
  <2> QED
    BY <1>1, <2>1, <2>2, SaveKeeps
<1>4. CASE ProfileDelete(a)
  BY <1>1, <1>4, DeleteKeeps DEF ProfileDelete, PolicyKeys
<1> QED
  BY <1>2, <1>3, <1>4 DEF ProfileRoutes

LEMMA DeviceKeeps ==
  ASSUME RefInv, NEW a \in Admins, DeviceRoutes(a)
  PROVE  RefInv'
<1>1. "device_policy" \in Tables
  BY DEF Tables
<1>2. CASE DeviceSave(a)
  <2>1. PICK d \in Devices, R \in {{}} \cup {{Ref("profiles", p, "profile")} : p \in ProfileIds} :
          Save(a, "device_policy", d, d, R)
    BY <1>2 DEF DeviceSave
  <2>2. \A r \in R : r = Ref(r.to, r.id, r.via) /\ Holds("device_policy", r)
    BY DEF Holds, Ref
  <2> QED
    BY <1>1, <2>1, <2>2, SaveKeeps
<1>3. CASE DeviceCopy(a)
  <2>1. PICK s \in Ids(cfg, "device_policy") :
          \E d \in Devices \ {s} : Save(a, "device_policy", d, d, Row(cfg, "device_policy", s).refs)
    BY <1>3 DEF DeviceCopy
  <2>2. \A r \in Row(cfg, "device_policy", s).refs : r = Ref(r.to, r.id, r.via) /\ Holds("device_policy", r)
    BY <1>1, RowHolds
  <2> QED
    BY <1>1, <2>1, <2>2, SaveKeeps
<1>4. CASE DeviceRetire(a)
  <2>1. PICK d \in Devices : Begin(a, [do |-> "retire", id |-> d], "write")
    BY <1>4 DEF DeviceRetire
  <2>2. MayBegin([do |-> "retire", id |-> d], "write")
    BY DEF MayBegin, Decided, RequestOK, OpShaped, Edits, Payloads
  <2> QED
    BY <2>1, <2>2, BeginKeeps
<1> QED
  BY <1>2, <1>3, <1>4 DEF DeviceRoutes

\* A template is saved with the references of a row, without validation.
LEMMA TemplateKeeps ==
  ASSUME RefInv, NEW a \in Admins, TemplateRoutes(a)
  PROVE  RefInv'
<1>1. "profiles" \in Tables /\ "policy_templates" \in Tables
  BY DEF Tables
<1>2. CASE TemplateSave(a)
  <2>1. PICK id \in Ids(cfg, "profiles"), n \in Names :
          Begin(a, [do |-> "save", table |-> "policy_templates", id |-> 0, name |-> n,
                    refs |-> Row(cfg, "profiles", id).refs], "write")
    BY <1>2 DEF TemplateSave
  <2> DEFINE o == [do |-> "save", table |-> "policy_templates", id |-> 0, name |-> n,
                   refs |-> Row(cfg, "profiles", id).refs]
  <2>2. o.do = "save" /\ o.table = "policy_templates" /\ o.refs = Row(cfg, "profiles", id).refs
    OBVIOUS
  <2>3. Begin(a, o, "write")
    BY <2>1
  <2> HIDE DEF o
  <2>4. \A r \in o.refs : r = Ref(r.to, r.id, r.via) /\ Holds("policy_templates", r)
    <3> SUFFICES ASSUME NEW r \in Row(cfg, "profiles", id).refs
                 PROVE  r = Ref(r.to, r.id, r.via) /\ Holds("policy_templates", r)
      BY <2>2
    <3>1. r = Ref(r.to, r.id, r.via) /\ Holds("profiles", r)
      BY <1>1, RowHolds
    <3> QED
      BY <3>1 DEF Holds
  <2>5. Held(cfg) => \A r \in o.refs : Firm(r) => Known(cfg, r)
    BY <1>1, <2>2, HeldUnfold
  <2>6. MayBegin(o, "write")
    BY <1>1, <2>2, <2>4, <2>5 DEF MayBegin, Decided, RequestOK, OpShaped, Edits, Payloads
  <2> QED
    BY <2>3, <2>6, BeginKeeps
<1>3. CASE TemplateApply(a)
  <2>1. PICK t \in Ids(cfg, "policy_templates"), p \in Ids(cfg, "profiles") :
          Begin(a, [do |-> "apply", template |-> t, id |-> p], "write")
    BY <1>3 DEF TemplateApply
  <2>2. MayBegin([do |-> "apply", template |-> t, id |-> p], "write")
    BY DEF MayBegin, Decided, RequestOK, OpShaped, Edits, Payloads
  <2> QED
    BY <2>1, <2>2, BeginKeeps
<1>4. CASE TemplateDelete(a)
  BY <1>1, <1>4, DeleteKeeps DEF TemplateDelete, PolicyKeys
<1> QED
  BY <1>2, <1>3, <1>4 DEF TemplateRoutes

LEMMA PresetKeeps ==
  ASSUME RefInv, NEW a \in Admins, PresetRoutes(a)
  PROVE  RefInv'
<1>1. "bandwidth_presets" \in Tables
  BY DEF Tables
<1>2. CASE PresetSave(a)
  BY <1>1, <1>2, SaveKeeps DEF PresetSave
<1>3. CASE PresetDelete(a)
  BY <1>1, <1>3, DeleteKeeps DEF PresetDelete, PolicyKeys
<1> QED
  BY <1>2, <1>3 DEF PresetRoutes

LEMMA ServiceKeeps ==
  ASSUME RefInv, NEW a \in Admins, ServiceRoutes(a)
  PROVE  RefInv'
<1>1. "services" \in Tables
  BY DEF Tables
<1>2. CASE ServiceSave(a)
  BY <1>1, <1>2, SaveKeeps DEF ServiceSave
<1>3. CASE ServiceApprove(a)
  <2>1. PICK k \in Ids(cfg, "services"), to \in BOOLEAN :
          Begin(a, [do |-> "approve", table |-> "services", id |-> k, to |-> to], "write")
    BY <1>3 DEF ServiceApprove
  <2>2. MayBegin([do |-> "approve", table |-> "services", id |-> k, to |-> to], "write")
    BY DEF MayBegin, Decided, RequestOK, OpShaped, Edits, Payloads
  <2> QED
    BY <2>1, <2>2, BeginKeeps
<1>4. CASE ServiceDelete(a)
  <2>1. PICK k \in Services : ServiceDeletable(cfg, k) /\ Delete(a, "services", k)
    BY <1>4 DEF ServiceDelete
  <2> DEFINE users == PolicyKeyUsers \cup {"aggregate_policy_groups"}
  <2>2. ~UsedBy(cfg, users, "services", k)
    BY <2>1 DEF ServiceDeletable
  <2>4. PolicyKeyUsers \subseteq users /\ "aggregate_policy_groups" \in users
    OBVIOUS
  <2> HIDE DEF users
  <2>3. \A u \in Tables : \A i \in Ids(cfg, u) : \A r \in Row(cfg, u, i).refs : ~(r.to = "services" /\ r.id = k)
    BY <2>2, <2>4, UnusedKey DEF PolicyKeys
  <2> QED
    BY <1>1, <2>1, <2>3, DeleteKeeps
<1> QED
  BY <1>2, <1>3, <1>4 DEF ServiceRoutes

LEMMA GroupKeeps ==
  ASSUME RefInv, NEW a \in Admins, GroupRoutes(a)
  PROVE  RefInv'
<1>1. "aggregate_policy_groups" \in Tables
  BY DEF Tables
<1>2. CASE GroupSave(a)
  <2>1. PICK g \in Groups, R \in Forms({Ref("services", k, "member") : k \in Services}) :
          Save(a, "aggregate_policy_groups", g, g, R)
    BY <1>2 DEF GroupSave
  <2>2. \A r \in R : r = Ref(r.to, r.id, r.via) /\ Holds("aggregate_policy_groups", r)
    BY FormRefs DEF Holds, Ref
  <2> QED
    BY <1>1, <2>1, <2>2, SaveKeeps
<1>3. CASE GroupDelete(a)
  <2>1. PICK g \in Groups : GroupDeletable(cfg, g) /\ Delete(a, "aggregate_policy_groups", g)
    BY <1>3 DEF GroupDelete
  <2>2. ~UsedBy(cfg, PolicyKeyUsers, "aggregate_policy_groups", g)
    BY <2>1 DEF GroupDeletable
  <2>3. \A u \in Tables : \A i \in Ids(cfg, u) : \A r \in Row(cfg, u, i).refs : ~(r.to = "aggregate_policy_groups" /\ r.id = g)
    BY <2>2, UnusedKey DEF PolicyKeys
  <2> QED
    BY <1>1, <2>1, <2>3, DeleteKeeps
<1> QED
  BY <1>2, <1>3 DEF GroupRoutes

\* Applying a collection adds what it lists to the blocks, or takes it away.
LEMMA CollectionKeeps ==
  ASSUME RefInv, NEW a \in Admins, CollectionRoutes(a)
  PROVE  RefInv'
<1>1. "service_groups" \in Tables /\ "profiles" \in Tables
  BY DEF Tables
<1>2. CASE CollectionSave(a)
  <2>1. PICK n \in Names, R \in Forms(KeyRefs("listed")) : Save(a, "service_groups", 0, n, R)
    BY <1>2 DEF CollectionSave
  <2>2. \A r \in R : r = Ref(r.to, r.id, r.via) /\ Holds("service_groups", r)
    BY FormRefs, KeyRefsFacts DEF Holds
  <2> QED
    BY <1>1, <2>1, <2>2, SaveKeeps
<1>3. CASE CollectionApply(a)
  <2>1. PICK g \in Ids(cfg, "service_groups"), p \in Ids(cfg, "profiles"), block \in BOOLEAN :
          Save(a, "profiles", p, Row(cfg, "profiles", p).name,
               IF block
               THEN Row(cfg, "profiles", p).refs \cup {Ref(k[1], k[2], "blocked") : k \in CollectionKeys(g)}
               ELSE {r \in Row(cfg, "profiles", p).refs :
                       r.via = "blocked" => <<r.to, r.id>> \notin Expanded(CollectionKeys(g))})
    BY <1>3 DEF CollectionApply
  <2> DEFINE refs == Row(cfg, "profiles", p).refs
             more == refs \cup {Ref(k[1], k[2], "blocked") : k \in CollectionKeys(g)}
             fewer == {r \in refs : r.via = "blocked" => <<r.to, r.id>> \notin Expanded(CollectionKeys(g))}
  <2>2. \A r \in refs : r = Ref(r.to, r.id, r.via) /\ Holds("profiles", r)
    BY <1>1, RowHolds
  <2>3. \A k \in CollectionKeys(g) : k[1] \in PolicyKeys
    <3> SUFFICES ASSUME NEW r \in Row(cfg, "service_groups", g).refs
                 PROVE  <<r.to, r.id>>[1] \in PolicyKeys
      BY DEF CollectionKeys
    <3>1. Holds("service_groups", r)
      BY <1>1, RowHolds
    <3> QED
      BY <3>1 DEF Holds
  <2> HIDE DEF refs
  <2>4. \A r \in more : r = Ref(r.to, r.id, r.via) /\ Holds("profiles", r)
    <3> SUFFICES ASSUME NEW k \in CollectionKeys(g)
                 PROVE  LET r == Ref(k[1], k[2], "blocked")
                        IN r = Ref(r.to, r.id, r.via) /\ Holds("profiles", r)
      BY <2>2
    <3> QED
      BY <2>3 DEF Ref, Holds
  <2>5. \A r \in fewer : r = Ref(r.to, r.id, r.via) /\ Holds("profiles", r)
    BY <2>2
  <2>6. Save(a, "profiles", p, Row(cfg, "profiles", p).name, IF block THEN more ELSE fewer)
    BY <2>1 DEF refs
  <2> HIDE DEF more, fewer
  <2>7. CASE block
    <3>1. Save(a, "profiles", p, Row(cfg, "profiles", p).name, more)
      BY <2>6, <2>7
    <3> QED
      BY <1>1, <2>4, <3>1, SaveKeeps
  <2>8. CASE ~block
    <3>1. Save(a, "profiles", p, Row(cfg, "profiles", p).name, fewer)
      BY <2>6, <2>8
    <3> QED
      BY <1>1, <2>5, <3>1, SaveKeeps
  <2> QED
    BY <2>7, <2>8
<1>4. CASE CollectionDelete(a)
  BY <1>1, <1>4, DeleteKeeps DEF CollectionDelete, PolicyKeys
<1> QED
  BY <1>2, <1>3, <1>4 DEF CollectionRoutes

LEMMA PlanKeeps ==
  ASSUME RefInv, NEW a \in Admins, PlanRoutes(a)
  PROVE  RefInv'
<1>1. "schedule_plans" \in Tables
  BY DEF Tables
<1>2. CASE PlanSave(a)
  <2>1. PICK id \in New("schedule_plans"), R \in Forms(TargetRefs \cup KeyRefs("action")) :
          Save(a, "schedule_plans", id, "label", R)
    BY <1>2 DEF PlanSave
  <2>2. \A r \in R : r = Ref(r.to, r.id, r.via) /\ Holds("schedule_plans", r)
    BY FormRefs, KeyRefsFacts, TargetFacts DEF Holds
  <2> QED
    BY <1>1, <2>1, <2>2, SaveKeeps
<1>3. CASE PlanDelete(a)
  BY <1>1, <1>3, DeleteKeeps DEF PlanDelete, PolicyKeys
<1> QED
  BY <1>2, <1>3 DEF PlanRoutes

LEMMA STemplateKeeps ==
  ASSUME RefInv, NEW a \in Admins, STemplateRoutes(a)
  PROVE  RefInv'
<1>1. "schedule_templates" \in Tables
  BY DEF Tables
<1>2. CASE STemplateSave(a)
  BY <1>1, <1>2, SaveKeeps DEF STemplateSave
<1>3. CASE STemplateDelete(a)
  BY <1>1, <1>3, DeleteKeeps DEF STemplateDelete, PolicyKeys
<1> QED
  BY <1>2, <1>3 DEF STemplateRoutes

LEMMA ExceptionKeeps ==
  ASSUME RefInv, NEW a \in Admins, ExceptionRoutes(a)
  PROVE  RefInv'
<1>1. "date_exceptions" \in Tables
  BY DEF Tables
<1>2. CASE ExceptionSave(a)
  <2> DEFINE S == {Ref("schedule_templates", i, "template") : i \in 1..(nextId["schedule_templates"] - 1)}
  <2>1. PICK R \in Forms(TargetRefs \cup S) : Save(a, "date_exceptions", 0, "label", R)
    BY <1>2 DEF ExceptionSave
  <2>2. \A r \in S : r = Ref(r.to, r.id, r.via) /\ Holds("date_exceptions", r)
    BY DEF Holds, Ref
  <2> HIDE DEF S
  <2>3. \A r \in R : r = Ref(r.to, r.id, r.via) /\ Holds("date_exceptions", r)
    <3>1. R \subseteq TargetRefs \cup S
      BY FormRefs
    <3> QED
      BY <2>2, <3>1, TargetFacts DEF Holds
  <2> QED
    BY <1>1, <2>1, <2>3, SaveKeeps
<1>3. CASE ExceptionDelete(a)
  BY <1>1, <1>3, DeleteKeeps DEF ExceptionDelete, PolicyKeys
<1> QED
  BY <1>2, <1>3 DEF ExceptionRoutes

LEMMA DefaultsKeep ==
  ASSUME RefInv, NEW a \in Admins, DefaultsSave(a)
  PROVE  RefInv'
<1>1. "app_settings" \in Tables
  BY DEF Tables
<1> DEFINE P == {Ref("profiles", p, "default") : p \in ProfileIds}
           B == {Ref("bandwidth_presets", p, "default") : p \in Presets}
<1>2. PICK R \in Forms(P \cup B) : Save(a, "app_settings", "defaults", "defaults", R)
  BY DEF DefaultsSave
<1>3. \A r \in P \cup B : r = Ref(r.to, r.id, r.via) /\ Holds("app_settings", r)
  BY DEF Holds, Ref
<1> HIDE DEF P, B
<1>4. R \subseteq P \cup B
  BY FormRefs
<1> QED
  BY <1>1, <1>2, <1>3, <1>4, SaveKeeps

\* A backup is one of the snapshots.
LEMMA OperationsKeep ==
  ASSUME RefInv, NEW a \in Admins, OperationsRoutes(a)
  PROVE  RefInv'
<1>1. \A s \in 1..Len(snapshots) : WellFormed(snapshots[s])
  BY LenProperties DEF RefInv, ShapeInv, Stored
<1>2. CASE Snapshot(a)
  <2>1. MayBegin([do |-> "snapshot"], "export")
    BY DEF MayBegin, RequestOK, OpShaped, Edits, Payloads
  <2> QED
    BY <1>2, <2>1, BeginKeeps DEF Snapshot
<1>3. ASSUME NEW do \in Payloads, NEW s \in 1..Len(snapshots),
             Begin(a, [do |-> do, payload |-> snapshots[s]], "export")
      PROVE  RefInv'
  <2>1. MayBegin([do |-> do, payload |-> snapshots[s]], "export")
    BY <1>1 DEF MayBegin, RequestOK, OpShaped, Edits, Payloads
  <2> QED
    BY <1>3, <2>1, BeginKeeps
<1> QED
  BY <1>2, <1>3 DEF OperationsRoutes, Import, Restore, Payloads

LEMMA RequestKeeps ==
  ASSUME RefInv, NEW a \in Admins, Request(a)
  PROVE  RefInv'
BY ProfileKeeps, DeviceKeeps, TemplateKeeps, PresetKeeps, ServiceKeeps, GroupKeeps, CollectionKeeps,
   PlanKeeps, STemplateKeeps, ExceptionKeeps, DefaultsKeep, OperationsKeep DEF Request
-----------------------------------------------------------------------------
(* Requests go on.                                                         *)

LEMMA WriteKeeps ==
  ASSUME RefInv, NEW a \in Admins, Write(a)
  PROVE  RefInv'
<1>1. /\ pc[a] = "write" /\ WriteAccepted(cfg, op[a]) /\ cfg' = Written(cfg, op[a])
      /\ raced' = (raced \/ crossed[a]) /\ Overtake(a)
      /\ UNCHANGED <<snapshots, step, acc, torn>>
      /\ \/ Goto(a, "publish") /\ op' = op
         \/ Goto(a, "idle") /\ op' = [op EXCEPT ![a] = NoOp]
  BY DEF Write
<1>2. OnlyMoves(a) /\ pc'[a] \in {"publish", "idle"} /\ op'[a] \in {op[a], NoOp}
  BY <1>1 DEF OnlyMoves, Overtake, Goto, RefInv, ShapeInv
<1>3. RequestOK(pc'[a], op'[a], step'[a])
  BY <1>1, <1>2 DEF RequestOK, OpShaped, NoOp, Payloads, RefInv, ShapeInv
<1>4. /\ WellFormed(cfg')
      /\ Held(cfg) /\ Decided(cfg, op[a]) => Held(cfg')
  BY <1>1, WrittenResolves DEF RefInv, ShapeInv, RequestOK
<1>5. raced' \in BOOLEAN /\ (raced => raced') /\ (~raced' => ~raced /\ ~crossed[a])
  BY <1>1, Zenon DEF RefInv, ShapeInv
<1>6. ~raced' => Held(cfg)'
  BY <1>1, <1>4, <1>5, StillHeld DEF RefInv
<1>7. torn' \in BOOLEAN /\ GroupsOK(pc'[a], crossed[a], op'[a], step'[a], cfg')
  BY <1>1, <1>2 DEF GroupsOK, RefInv, ShapeInv
<1> QED
  BY <1>1, <1>2, <1>3, <1>4, <1>5, <1>6, <1>7, CommitKeeps

\* Steps that read, or write the catalogue, or end a request.
LEMMA QuietKeeps ==
  ASSUME RefInv, NEW a \in Admins,
         Refused(a) \/ PublishRead(a) \/ PublishReplace(a) \/ Preflight(a) \/ Imported(a) \/ Failed(a)
  PROVE  RefInv'
<1>1. /\ UNCHANGED <<cfg, snapshots, acc, crossed, torn>>
      /\ raced' = raced \/ raced' = (raced \/ crossed[a])
  BY DEF Refused, PublishRead, PublishReplace, Preflight, Imported, Failed
<1>2. raced' \in BOOLEAN /\ (raced => raced')
  BY <1>1, Zenon DEF RefInv, ShapeInv
<1>3. PICK l : Goto(a, l) /\ l \in {"idle", "replace", "wipe", "reread", "publish"}
               /\ (l = "wipe" => pc[a] = "preflight" /\ op' = op /\ GroupContract(op[a].payload))
               /\ (l = "reread" => pc[a] = "section" /\ op' = op)
  BY DEF Refused, PublishRead, PublishReplace, Preflight, Imported, Failed
<1>4. \/ op' = op
      \/ op' = [op EXCEPT ![a] = NoOp]
      \/ op' = [op EXCEPT ![a] = [do |-> "replace", listing |-> Published(cfg)]]
  BY DEF Refused, PublishRead, PublishReplace, Preflight, Imported, Failed
<1>5. step' = step \/ step' = [step EXCEPT ![a] = 1]
  BY DEF Refused, PublishRead, PublishReplace, Preflight, Imported, Failed
<1>6. /\ OnlyMoves(a) /\ pc'[a] = l /\ step'[a] \in {step[a], 1}
      /\ op'[a] \in {op[a], NoOp, [do |-> "replace", listing |-> Published(cfg)]}
  BY <1>1, <1>3, <1>4, <1>5 DEF OnlyMoves, Goto, RefInv, ShapeInv
<1>7. RequestOK(pc'[a], op'[a], step'[a])
  <2>1. OpShaped(op'[a])
    BY <1>6 DEF OpShaped, NoOp, Payloads, RequestOK, RefInv, ShapeInv
  <2>2. l \in {"wipe", "reread"} => op'[a].do \in Payloads
    BY <1>3 DEF RequestOK, RefInv, ShapeInv
  <2>3. l = "wipe" => BuiltinGroups \subseteq Ids(op'[a].payload, "aggregate_policy_groups")
    BY <1>3 DEF GroupContract
  <2> QED
    BY <1>3, <1>6, <2>1, <2>2, <2>3 DEF RequestOK, RefInv, ShapeInv
<1> QED
  BY <1>1, <1>2, <1>3, <1>6, <1>7, ReadKeeps DEF RefInv, ShapeInv

LEMMA VerifyKeeps ==
  ASSUME RefInv, NEW a \in Admins, Verify(a)
  PROVE  RefInv'
<1>1. /\ UNCHANGED <<cfg, op, snapshots, crossed, raced, torn>>
      /\ acc' = [acc EXCEPT ![a] = NoConfig] /\ step' = [step EXCEPT ![a] = 1]
      /\ Goto(a, "publish") \/ Goto(a, "failed")
  BY DEF Verify
<1>2. WellFormed(NoConfig)
  BY DEF NoConfig, WellFormed, Empty, Ids, Row
<1>3. /\ OnlyMoves(a) /\ pc'[a] \in {"publish", "failed"} /\ step'[a] = 1 /\ acc'[a] = NoConfig
  BY <1>1 DEF OnlyMoves, Goto, RefInv, ShapeInv
<1>4. RequestOK(pc'[a], op'[a], step'[a])
  BY <1>1, <1>3 DEF RequestOK, RefInv, ShapeInv
<1> QED
  BY <1>1, <1>2, <1>3, <1>4, ReadKeeps DEF RefInv, ShapeInv

\* A section of an export is read into what the sections before have read.
Read(c, old, read) ==
  [rows |-> [t \in Tables |-> IF t \in read THEN c.rows[t] ELSE old.rows[t]],
   approved |-> IF "services" \in read THEN c.approved ELSE old.approved]

LEMMA ReadFormed ==
  ASSUME NEW c, NEW old, NEW read, WellFormed(c), WellFormed(old)
  PROVE  WellFormed(Read(c, old, read))
BY FormedTables DEF Read

LEMMA ExportEffect ==
  ASSUME NEW a \in Admins, DOMAIN acc = Admins, DOMAIN step = Admins, step[a] \in Nat, ExportSection(a)
  PROVE  \E last \in Nat :
           /\ step[a] <= last
           /\ acc' = [acc EXCEPT ![a] = Read(cfg, acc[a], {ExportOrder[i] : i \in step[a]..last})]
           /\ step' = [step EXCEPT ![a] = last + 1]
<1> DEFINE last == IF \E x \in Admins \ {a} : pc[x] \in {"write", "wipe", "section"}
                   THEN step[a] ELSE Len(ExportOrder)
           read == {ExportOrder[i] : i \in step[a]..last}
<1>1. step[a] <= Len(ExportOrder) /\ Len(ExportOrder) \in Nat
  BY DEF ExportSection, ExportOrder
<1>2. last \in Nat /\ step[a] <= last
  BY <1>1
<1>3. /\ acc' = [acc EXCEPT ![a] = Read(cfg, acc[a], read)]
      /\ step' = [step EXCEPT ![a] = last + 1]
  BY Zenon DEF ExportSection, Read
<1> HIDE DEF last
<1> QED
  BY <1>2, <1>3

LEMMA ExportKeeps ==
  ASSUME RefInv, NEW a \in Admins, ExportSection(a)
  PROVE  RefInv'
<1>1. PICK last \in Nat :
           /\ step[a] <= last
           /\ acc' = [acc EXCEPT ![a] = Read(cfg, acc[a], {ExportOrder[i] : i \in step[a]..last})]
           /\ step' = [step EXCEPT ![a] = last + 1]
  BY ExportEffect DEF RefInv, ShapeInv, RequestOK
<1>2. UNCHANGED <<cfg, op, pc, snapshots, crossed, raced, torn>> /\ pc[a] \in {"export", "reread"}
  BY DEF ExportSection
<1> DEFINE new == Read(cfg, acc[a], {ExportOrder[i] : i \in step[a]..last})
<1>3. WellFormed(new)
  BY ReadFormed DEF RefInv, ShapeInv
<1> HIDE DEF new
<1>4. OnlyMoves(a) /\ acc'[a] = new /\ step'[a] \in Nat \ {0}
  BY <1>1, <1>2 DEF OnlyMoves, RefInv, ShapeInv, new
<1>5. RequestOK(pc'[a], op'[a], step'[a])
  BY <1>2, <1>4 DEF RequestOK, RefInv, ShapeInv
<1> QED
  BY <1>2, <1>3, <1>4, <1>5, ReadKeeps DEF RefInv, ShapeInv

\* A snapshot is stored as the last one, and old ones are pruned.
LEMMA StoredAppend ==
  ASSUME NEW s, Stored(s), NEW c, WellFormed(c),
         NEW n, n = LastOf(Append(s, c), Retention)
  PROVE  /\ Stored(n) /\ Len(n) > 0 /\ n[Len(n)] = c
         /\ \A i \in DOMAIN n : n[i] = c \/ \E j \in DOMAIN s : n[i] = s[j]
<1> DEFINE S == Range(s) \cup {c}
           e == Append(s, c)
<1>1. s \in Seq(S)
  BY SeqMonotonic DEF Stored
<1>2. /\ e \in Seq(S) /\ Len(e) = Len(s) + 1 /\ Len(s) \in Nat
      /\ \A i \in 1..Len(s) : e[i] = s[i]
      /\ e[Len(s) + 1] = c
  BY <1>1, AppendProperties, LenProperties
<1>3. \A i \in 1..Len(e) : WellFormed(e[i]) /\ (e[i] = c \/ \E j \in DOMAIN s : e[i] = s[j])
  <2> SUFFICES ASSUME NEW i \in 1..Len(e)
               PROVE  WellFormed(e[i]) /\ (e[i] = c \/ \E j \in DOMAIN s : e[i] = s[j])
    OBVIOUS
  <2>1. DOMAIN s = 1..Len(s)
    BY LenProperties DEF Stored
  <2> QED
    BY <1>2, <2>1 DEF Stored
<1> HIDE DEF e
<1>4. CASE Len(e) <= Retention
  <2>1. n = e
    BY <1>4 DEF LastOf, e
  <2>2. e \in Seq(Range(e)) /\ DOMAIN e = 1..Len(e)
    BY <1>2, SeqOfRange, LenProperties
  <2>3. /\ Stored(e) /\ Len(e) > 0 /\ e[Len(e)] = c
        /\ \A i \in DOMAIN e : e[i] = c \/ \E j \in DOMAIN s : e[i] = s[j]
    BY <1>2, <1>3, <2>2 DEF Stored
  <2> QED
    BY <2>1, <2>3
<1>5. CASE ~(Len(e) <= Retention)
  <2> DEFINE m == Len(e) - Retention + 1
  <2>1. n = SubSeq(e, m, Len(e))
    BY <1>5 DEF LastOf, e
  <2>2. m \in 1..Len(e) /\ Len(e) \in Nat /\ Retention \in Nat /\ Retention > 0
    <3>1. Len(e) \in Nat
      BY <1>2
    <3> HIDE DEF e
    <3> QED
      BY <1>5, <3>1, RetentionAssumption
  <2>3. /\ n \in Seq(S) /\ Len(n) = Retention
        /\ \A i \in 1..Retention : n[i] = e[m + i - 1]
    BY <1>2, <2>1, <2>2, SubSeqProperties
  <2>4. \A i \in 1..Retention : m + i - 1 \in 1..Len(e)
    BY <2>2
  <2>5. n[Len(n)] = c
    BY <1>2, <2>2, <2>3
  <2>6. n \in Seq(Range(n)) /\ DOMAIN n = 1..Len(n)
    BY <2>3, SeqOfRange, LenProperties
  <2>7. \A i \in DOMAIN n : WellFormed(n[i]) /\ (n[i] = c \/ \E j \in DOMAIN s : n[i] = s[j])
    <3> SUFFICES ASSUME NEW i \in 1..Retention
                 PROVE  WellFormed(n[i]) /\ (n[i] = c \/ \E j \in DOMAIN s : n[i] = s[j])
      BY <2>3, <2>6
    <3> DEFINE k == m + i - 1
    <3>1. k \in 1..Len(e) /\ n[i] = e[k]
      BY <2>3, <2>4
    <3> HIDE DEF k
    <3> QED
      BY <1>3, <3>1
  <2>8. Stored(n) /\ Len(n) > 0
    BY <2>2, <2>3, <2>6, <2>7 DEF Stored
  <2> QED
    BY <2>5, <2>7, <2>8
<1> QED
  BY <1>4, <1>5

LEMMA SnapshotKeeps ==
  ASSUME RefInv, NEW a \in Admins, SnapshotInsert(a)
  PROVE  RefInv'
<1>1. /\ pc[a] = "export" /\ UNCHANGED <<cfg, crossed, raced, torn>>
      /\ snapshots' = LastOf(Append(snapshots, acc[a]), Retention)
      /\ acc' = [acc EXCEPT ![a] = NoConfig] /\ step' = [step EXCEPT ![a] = 1]
      /\ \/ Goto(a, "idle") /\ op' = [op EXCEPT ![a] = NoOp]
         \/ Goto(a, "preflight") /\ op' = op /\ op[a].do # "snapshot"
  BY DEF SnapshotInsert
<1>2. WellFormed(NoConfig)
  BY DEF NoConfig, WellFormed, Empty, Ids, Row
<1>3. Stored(snapshots')
  BY <1>1, StoredAppend DEF RefInv, ShapeInv
<1>4. /\ OnlyMoves(a) /\ step'[a] = 1 /\ acc'[a] = NoConfig
      /\ \/ pc'[a] = "idle" /\ op'[a] = NoOp
         \/ pc'[a] = "preflight" /\ op'[a] = op[a] /\ op[a].do # "snapshot"
  BY <1>1 DEF OnlyMoves, Goto, RefInv, ShapeInv
<1>5. RequestOK(pc'[a], op'[a], step'[a])
  BY <1>1, <1>4 DEF RequestOK, OpShaped, NoOp, Payloads, RefInv, ShapeInv
<1> QED
  BY <1>1, <1>2, <1>3, <1>4, <1>5, ReadKeeps DEF RefInv, ShapeInv

LEMMA WipeIs ==
  ASSUME RefInv, NEW a \in Admins, Wipe(a)
  PROVE  /\ WellFormed(cfg') /\ cfg'.approved = {}
         /\ \A t \in Tables : Ids(cfg', t) \subseteq Ids(cfg, t)
         /\ \A t \in Tables : \A i \in Ids(cfg', t) : Row(cfg', t, i) = Row(cfg, t, i)
         /\ Ids(cfg', "app_settings") = Ids(cfg, "app_settings")
         /\ Ids(cfg', "aggregate_policy_groups") \subseteq BuiltinGroups
         /\ \A t \in Tables \ {"app_settings", "aggregate_policy_groups"} : Ids(cfg', t) = {}
<1>1. cfg' = Wiped(cfg) /\ WellFormed(cfg)
  BY DEF Wipe, RefInv, ShapeInv
<1>2. \A t \in Tables : cfg'.rows[t] = [i \in Survivors(cfg, t) |-> Row(cfg, t, i)]
  BY <1>1 DEF Wiped
<1>3. cfg' = [rows |-> [t \in Tables |-> cfg'.rows[t]], approved |-> cfg'.approved] /\ cfg'.approved = {}
  BY <1>1 DEF Wiped
<1>4. \A t \in Tables : /\ Ids(cfg', t) = Survivors(cfg, t)
                         /\ \A i \in Ids(cfg', t) : Row(cfg', t, i) = Row(cfg, t, i)
  BY <1>2 DEF Ids, Row
<1>5. /\ \A t : Survivors(cfg, t) \subseteq Ids(cfg, t)
      /\ Survivors(cfg, "app_settings") = Ids(cfg, "app_settings")
      /\ Survivors(cfg, "aggregate_policy_groups") \subseteq BuiltinGroups
      /\ \A t : t \notin {"app_settings", "aggregate_policy_groups"} => Survivors(cfg, t) = {}
  <2>1. "app_settings" # "aggregate_policy_groups"
    OBVIOUS
  <2>2. /\ Survivors(cfg, "app_settings") = Ids(cfg, "app_settings")
        /\ Survivors(cfg, "aggregate_policy_groups") = Ids(cfg, "aggregate_policy_groups") \cap BuiltinGroups
        /\ \A t : t \notin {"app_settings", "aggregate_policy_groups"} => Survivors(cfg, t) = {}
    BY <2>1, Zenon DEF Survivors
  <2> QED
    BY <2>2
<1>6. \A t \in Tables : Ids(cfg', t) \subseteq Ids(cfg, t)
  BY <1>4, <1>5
<1>7. \A t \in Tables : TableFormed(t, cfg'.rows[t])
  <2> SUFFICES ASSUME NEW t \in Tables
               PROVE  TableFormed(t, cfg'.rows[t])
    OBVIOUS
  <2>1. cfg'.rows[t] = [i \in DOMAIN cfg'.rows[t] |-> cfg'.rows[t][i]]
    BY <1>2
  <2>2. \A i \in DOMAIN cfg'.rows[t] : RowFormed(t, cfg'.rows[t][i])
    BY <1>1, <1>4, <1>6 DEF WellFormed, Ids, Row
  <2> QED
    BY <2>1, <2>2 DEF TableFormed
<1>8. WellFormed(cfg')
  BY <1>3, <1>7, FormedTables
<1>9. {"app_settings", "aggregate_policy_groups"} \subseteq Tables
  BY DEF Tables
<1> QED
  BY <1>3, <1>4, <1>5, <1>6, <1>8, <1>9

\* What is left after the wipe refers to nothing that is firm then.
LEMMA WipeKeeps ==
  ASSUME RefInv, NEW a \in Admins, Wipe(a)
  PROVE  RefInv'
<1>1. /\ pc[a] = "wipe" /\ Overtake(a) /\ Goto(a, "section") /\ torn' = TRUE
      /\ UNCHANGED <<snapshots, op, step, acc, raced>>
  BY DEF Wipe
<1>2. WellFormed(cfg')
  BY WipeIs
<1>3. Held(cfg)'
  <2> SUFFICES ASSUME NEW t \in Tables, NEW i \in Ids(cfg', t), NEW r \in Row(cfg', t, i).refs, Firm(r)'
               PROVE  FALSE
    BY DEF Held, Refs, Ids, Row
  <2>1. Holds(t, r)
    BY <1>2 DEF WellFormed, RowFormed
  <2>2. t \in {"app_settings", "aggregate_policy_groups"}
    BY WipeIs
  <2>3. r.via # "member" /\ Kept(r)
    BY <1>1 DEF Firm, Kept
  <2> QED
    BY <2>1, <2>2, <2>3 DEF Holds, Kept, PolicyKeys
<1>4. OnlyMoves(a) /\ pc'[a] = "section" /\ op'[a] = op[a]
  BY <1>1 DEF OnlyMoves, Overtake, Goto, RefInv, ShapeInv
<1>5. RequestOK(pc'[a], op'[a], step'[a])
  BY <1>1, <1>4 DEF RequestOK, RefInv, ShapeInv
<1>6. GroupsOK(pc'[a], crossed[a], op'[a], step'[a], cfg')
  <2>1. BuiltinGroups \subseteq Ids(op[a].payload, "aggregate_policy_groups")
    BY <1>1 DEF RequestOK, RefInv, ShapeInv
  <2> QED
    BY <1>4, <2>1, WipeIs DEF GroupsOK
<1> QED
  BY <1>1, <1>2, <1>3, <1>4, <1>5, <1>6, CommitKeeps DEF RefInv, ShapeInv

LEMMA MappedFacts ==
  ASSUME NEW a, NEW t, NEW refs, \A r \in refs : r = Ref(r.to, r.id, r.via) /\ Holds(t, r)
  PROVE  \A r \in Mapped(a, t, refs) : r = Ref(r.to, r.id, r.via) /\ Holds(t, r)
<1> SUFFICES ASSUME NEW r \in refs,
                    NEW n, n = IF r.to \in {"profiles", "schedule_templates"} /\ r.id \in DOMAIN idmap[a][r.to]
                               THEN [r EXCEPT !.id = idmap[a][r.to][@]] ELSE r
             PROVE  n = Ref(n.to, n.id, n.via) /\ Holds(t, n)
  BY DEF Mapped
<1>1. r = Ref(r.to, r.id, r.via) /\ Holds(t, r)
  OBVIOUS
<1>2. n = Ref(r.to, n.id, r.via) /\ n.to = r.to /\ n.via = r.via
  BY <1>1 DEF Ref
<1> QED
  BY <1>1, <1>2 DEF Holds

LEMMA SectionTable ==
  ASSUME RefInv, NEW a \in Admins, pc[a] = "section", step[a] <= Len(SectionOrder)
  PROVE  /\ step[a] \in 1..11 /\ SectionOrder[step[a]] \in Tables
         /\ SectionOrder[step[a]] = "aggregate_policy_groups" <=> step[a] = 3
         /\ step[a] = 2 <=> SectionOrder[step[a]] = "services"
         /\ WellFormed(op[a].payload)
<1>1. step[a] \in 1..11
  <2>1. Len(SectionOrder) = 11
    BY DEF SectionOrder
  <2>2. step[a] \in Nat \ {0}
    BY DEF RefInv, ShapeInv, RequestOK
  <2> QED
    BY <2>1, <2>2
<1>2. WellFormed(op[a].payload)
  BY DEF RefInv, ShapeInv, RequestOK, OpShaped
<1>3. \/ step[a] = 1 \/ step[a] = 2 \/ step[a] = 3 \/ step[a] = 4 \/ step[a] = 5 \/ step[a] = 6
      \/ step[a] = 7 \/ step[a] = 8 \/ step[a] = 9 \/ step[a] = 10 \/ step[a] = 11
  BY <1>1
<1> QED
  BY <1>1, <1>2, <1>3 DEF SectionOrder, Tables

\* Rows are recreated with references that were found when they were written.
LEMMA RecreateEffect ==
  ASSUME RefInv, NEW a \in Admins, NEW t \in Tables, WellFormed(op[a].payload),
         NEW done, done \subseteq Fitting(a, t), NEW approvals, Recreate(a, t, done, approvals)
  PROVE  /\ WellFormed(cfg') /\ (Held(cfg) => Held(cfg'))
         /\ \A u \in Tables \ {t} : Ids(cfg', u) = Ids(cfg, u) /\ \A i : Row(cfg', u, i) = Row(cfg, u, i)
         /\ \A u \in Tables : Ids(cfg, u) \subseteq Ids(cfg', u)
         /\ t \in Keyed => /\ Ids(cfg', t) = Ids(cfg, t) \cup done
                           /\ \A i \in done : \A r \in Row(cfg', t, i).refs : Kept(r) => Known(cfg, r)
<1> DEFINE rows == op[a].payload.rows[t]
           f == [j \in {NewId(t, done, i) : i \in done} |->
                   LET i == CHOOSE i \in done : NewId(t, done, i) = j
                   IN [name |-> rows[i].name, refs |-> Clean(cfg, Mapped(a, t, rows[i].refs))]]
<1>1. cfg' = [Put(cfg, t, f) EXCEPT !.approved = IF t = "services" THEN @ \cup approvals ELSE @]
  BY Zenon DEF Recreate
<1>2. ASSUME NEW i \in done
      PROVE  /\ RowFormed(t, [name |-> rows[i].name, refs |-> Clean(cfg, Mapped(a, t, rows[i].refs))])
             /\ \A r \in Clean(cfg, Mapped(a, t, rows[i].refs)) : Kept(r) => Known(cfg, r)
  <2>1. i \in DOMAIN rows /\ Valid(cfg, Mapped(a, t, rows[i].refs))
    BY DEF Fitting, RowFits
  <2>2. \A r \in rows[i].refs : r = Ref(r.to, r.id, r.via) /\ Holds(t, r)
    BY <2>1 DEF WellFormed, RowFormed, Ids, Row
  <2> DEFINE refs == Mapped(a, t, rows[i].refs)
  <2>3. \A r \in refs : r = Ref(r.to, r.id, r.via) /\ Holds(t, r)
    BY <2>2, MappedFacts
  <2>4. Valid(cfg, refs)
    BY <2>1
  <2> HIDE DEF refs
  <2>5. \A r \in Clean(cfg, refs) : r = Ref(r.to, r.id, r.via) /\ Holds(t, r)
    BY <2>3 DEF Clean
  <2>6. \A r \in Clean(cfg, refs) : Kept(r) => Known(cfg, r)
    BY <2>4, <2>5, CleanIsKnown, KeptFacts DEF PolicyKeys
  <2>7. RowFormed(t, [name |-> rows[i].name, refs |-> Clean(cfg, refs)])
    BY <2>5 DEF RowFormed
  <2> QED
    BY <2>6, <2>7 DEF refs
<1>3. DOMAIN f = {NewId(t, done, i) : i \in done}
  OBVIOUS
<1>4. \A j \in DOMAIN f : \E i \in done :
        f[j] = [name |-> rows[i].name, refs |-> Clean(cfg, Mapped(a, t, rows[i].refs))]
  OBVIOUS
<1> HIDE DEF f
<1>5. \A j \in DOMAIN f : RowFormed(t, f[j]) /\ \A r \in f[j].refs : Kept(r) => Known(cfg, r)
  BY <1>2, <1>4
<1>6. \A j \in DOMAIN f : \A r \in f[j].refs : Firm(r) => Known(cfg, r)
  BY <1>5 DEF Firm
<1>7. WellFormed(cfg)
  BY DEF RefInv, ShapeInv
<1> DEFINE n == Put(cfg, t, f)
           g == [i \in DOMAIN f \cup Ids(cfg, t) |-> IF i \in DOMAIN f THEN f[i] ELSE Row(cfg, t, i)]
<1>8. WellFormed(n) /\ (Held(cfg) => Held(n))
  BY <1>5, <1>6, <1>7, PutFormed, PutResolves
<1>9. n = With(cfg, t, g)
  BY <1>7, PutIsWith
<1>10. cfg' = [n EXCEPT !.approved = IF t = "services" THEN @ \cup approvals ELSE @]
  BY <1>1
<1>11. DOMAIN g = DOMAIN f \cup Ids(cfg, t) /\ \A i \in DOMAIN f : g[i] = f[i]
  OBVIOUS
<1> HIDE DEF n, g
<1>12. cfg'.rows = n.rows /\ cfg' = [rows |-> n.rows, approved |-> cfg'.approved]
  <2>1. n = [rows |-> n.rows, approved |-> n.approved]
    BY <1>8 DEF WellFormed
  <2> QED
    BY <1>10, <2>1
<1>13. WellFormed(cfg') /\ (Held(cfg) => Held(cfg'))
  BY <1>8, <1>12, SameRows
<1>14. \A u \in Tables : cfg'.rows[u] = IF u = t THEN g ELSE cfg.rows[u]
  BY <1>9, <1>12 DEF With
<1>15. /\ \A u \in Tables \ {t} : Ids(cfg', u) = Ids(cfg, u) /\ \A i : Row(cfg', u, i) = Row(cfg, u, i)
       /\ Ids(cfg', t) = DOMAIN f \cup Ids(cfg, t) /\ \A i \in DOMAIN f : Row(cfg', t, i) = f[i]
  BY <1>11, <1>14 DEF Ids, Row
<1>16. t \in Keyed => DOMAIN f = done
  BY <1>3 DEF NewId
<1> QED
  BY <1>5, <1>13, <1>15, <1>16

\* Once all the groups of the payload are recreated there are no others, and their
\* members are there.
LEMMA GroupsRecreated ==
  ASSUME RefInv, NEW a \in Admins, Held(cfg), WellFormed(op[a].payload),
         NEW t \in Tables, t = "aggregate_policy_groups", NEW done, done \subseteq Fitting(a, t),
         NEW approvals, Recreate(a, t, done, approvals), Ids(cfg, t) \subseteq done
  PROVE  Resolved(cfg')
<1>1. /\ WellFormed(cfg') /\ Held(cfg')
      /\ \A u \in Tables : Ids(cfg, u) \subseteq Ids(cfg', u)
      /\ t \in Keyed => /\ Ids(cfg', t) = Ids(cfg, t) \cup done
                        /\ \A i \in done : \A r \in Row(cfg', t, i).refs : Kept(r) => Known(cfg, r)
  BY RecreateEffect
<1>2. t \in Keyed
  BY DEF Keyed
<1> SUFFICES ASSUME NEW u \in Tables, NEW i \in Ids(cfg', u), NEW r \in Row(cfg', u, i).refs, Kept(r)
             PROVE  Known(cfg', r)
  BY RefsUnfold
<1>3. Holds(u, r)
  BY <1>1 DEF WellFormed, RowFormed
<1>4. CASE u = t
  <2>1. Known(cfg, r)
    BY <1>1, <1>2, <1>4
  <2> QED
    BY <1>1, <1>3, <2>1, KeptFacts DEF Known
<1>5. CASE u # t
  <2>1. Firm(r)
    BY <1>3, <1>5, KeptFacts
  <2> QED
    BY <1>1, <2>1, HeldUnfold
<1> QED
  BY <1>4, <1>5

\* A section, or the part of it that was committed before it was interrupted.
LEMMA SectionParts ==
  ASSUME NEW a \in Admins, Section(a)
  PROVE  LET t == SectionOrder[step[a]]
             all == DOMAIN op[a].payload.rows[t]
         IN \E done \in SUBSET Fitting(a, t) :
              /\ Recreate(a, t, done, op[a].payload.approved \cap done)
              /\ Fitting(a, t) = all => done = all
              /\ idmap' = IF t \in {"profiles", "schedule_templates"}
                          THEN [idmap EXCEPT ![a][t] = [i \in done |-> NewId(t, done, i)]]
                          ELSE idmap
              /\ done = all => /\ step' = [step EXCEPT ![a] = @ + 1] /\ pc' = pc
                               /\ torn' = (torn /\ t # "aggregate_policy_groups")
              /\ done # all => /\ step' = [step EXCEPT ![a] = 1] /\ Goto(a, "failed")
                               /\ torn' = torn
<1> DEFINE t == SectionOrder[step[a]]
           all == DOMAIN op[a].payload.rows[t]
           ends(done) ==
             /\ Recreate(a, t, done, op[a].payload.approved \cap done)
             /\ idmap' = IF t \in {"profiles", "schedule_templates"}
                         THEN [idmap EXCEPT ![a][t] = [i \in done |-> NewId(t, done, i)]]
                         ELSE idmap
             /\ IF done = all
                THEN /\ step' = [step EXCEPT ![a] = @ + 1]
                     /\ torn' = (torn /\ t # "aggregate_policy_groups")
                     /\ UNCHANGED <<pc, op, lost>>
                ELSE /\ step' = [step EXCEPT ![a] = 1]
                     /\ lost' = TRUE
                     /\ Goto(a, "failed") /\ UNCHANGED <<op, torn>>
<1>1. \E done \in IF Fitting(a, t) = all THEN {all} ELSE Begun(t, Fitting(a, t)) : ends(done)
  BY Zenon DEF Section
<1>2. Begun(t, Fitting(a, t)) \subseteq SUBSET Fitting(a, t)
  BY DEF Begun
<1> HIDE DEF all, ends
<1>3. PICK done \in SUBSET Fitting(a, t) : ends(done) /\ (Fitting(a, t) = all => done = all)
  BY <1>1, <1>2
<1>4. /\ Recreate(a, t, done, op[a].payload.approved \cap done)
      /\ Fitting(a, t) = all => done = all
      /\ idmap' = IF t \in {"profiles", "schedule_templates"}
                  THEN [idmap EXCEPT ![a][t] = [i \in done |-> NewId(t, done, i)]]
                  ELSE idmap
      /\ done = all => /\ step' = [step EXCEPT ![a] = @ + 1] /\ pc' = pc
                       /\ torn' = (torn /\ t # "aggregate_policy_groups")
      /\ done # all => /\ step' = [step EXCEPT ![a] = 1] /\ Goto(a, "failed")
                       /\ torn' = torn
  BY <1>3, Zenon DEF ends
<1> QED
  BY <1>4, Zenon DEF all

LEMMA InterruptedParts ==
  ASSUME NEW a \in Admins, Interrupted(a)
  PROVE  /\ pc[a] = "section" /\ step[a] <= Len(SectionOrder)
         /\ raced' = (raced \/ crossed[a]) /\ UNCHANGED <<snapshots, torn>>
         /\ \E done \in SUBSET Fitting(a, SectionOrder[step[a]]) : \E approvals \in SUBSET done :
              Recreate(a, SectionOrder[step[a]], done, approvals)
         /\ \/ /\ Overtake(a) /\ step' = [step EXCEPT ![a] = 1] /\ Goto(a, "raised")
               /\ UNCHANGED <<op, acc, idmap>>
            \/ Restarted
<1> DEFINE t == SectionOrder[step[a]]
           part(done, gone) == Recreate(a, t, done, (op[a].payload.approved \cap done) \ gone)
<1>1. /\ pc[a] = "section" /\ step[a] <= Len(SectionOrder)
      /\ raced' = (raced \/ crossed[a]) /\ UNCHANGED <<snapshots, torn>>
      /\ \/ /\ Overtake(a) /\ step' = [step EXCEPT ![a] = 1] /\ Goto(a, "raised")
            /\ UNCHANGED <<op, acc, idmap>>
         \/ Restarted
  BY Zenon DEF Interrupted
<1>2. \E done \in Begun(t, Fitting(a, t)) : \E gone \in {{}} \cup {{i} : i \in done} : part(done, gone)
  BY Zenon DEF Interrupted
<1>3. Begun(t, Fitting(a, t)) \subseteq SUBSET Fitting(a, t)
  BY DEF Begun
<1> HIDE DEF part
<1>4. PICK done \in SUBSET Fitting(a, t) : \E gone : part(done, gone)
  BY <1>2, <1>3
<1>5. PICK gone : part(done, gone)
  BY <1>4
<1> DEFINE approvals == (op[a].payload.approved \cap done) \ gone
<1>6. approvals \in SUBSET done /\ Recreate(a, t, done, approvals)
  BY <1>5 DEF part
<1> HIDE DEF approvals
<1> QED
  BY <1>1, <1>6, Zenon

LEMMA SectionKeeps ==
  ASSUME RefInv, NEW a \in Admins, Section(a)
  PROVE  RefInv'
<1> DEFINE t == SectionOrder[step[a]]
           all == DOMAIN op[a].payload.rows[t]
<1>1. /\ pc[a] = "section" /\ step[a] <= Len(SectionOrder)
      /\ raced' = (raced \/ crossed[a]) /\ Overtake(a)
      /\ UNCHANGED <<snapshots, acc>> /\ op' = op
  BY Zenon DEF Section
<1>2. PICK done \in SUBSET Fitting(a, t) :
              /\ Recreate(a, t, done, op[a].payload.approved \cap done)
              /\ done = all => /\ step' = [step EXCEPT ![a] = @ + 1] /\ pc' = pc
                               /\ torn' = (torn /\ t # "aggregate_policy_groups")
              /\ done # all => /\ step' = [step EXCEPT ![a] = 1] /\ Goto(a, "failed")
                               /\ torn' = torn
  BY SectionParts
<1>3. /\ step[a] \in 1..11 /\ t \in Tables /\ (t = "aggregate_policy_groups" <=> step[a] = 3)
      /\ WellFormed(op[a].payload)
  BY <1>1, SectionTable
<1>4. /\ OnlyMoves(a) /\ op'[a] = op[a]
      /\ \/ step'[a] = step[a] + 1 /\ pc'[a] = "section"
         \/ step'[a] = 1 /\ pc'[a] = "failed"
  <2>1. CASE done = all
    BY <1>1, <1>2, <2>1 DEF OnlyMoves, Overtake, RefInv, ShapeInv
  <2>2. CASE done # all
    BY <1>1, <1>2, <2>2 DEF OnlyMoves, Overtake, Goto, RefInv, ShapeInv
  <2> QED
    BY <2>1, <2>2
<1>5. RequestOK(pc'[a], op'[a], step'[a])
  BY <1>1, <1>4 DEF RequestOK, RefInv, ShapeInv
<1>6. raced' \in BOOLEAN /\ (raced => raced') /\ (~raced' => ~raced /\ ~crossed[a])
  BY <1>1, Zenon DEF RefInv, ShapeInv
<1>7. torn' \in BOOLEAN
  BY <1>2 DEF RefInv, ShapeInv
<1> HIDE DEF t
<1>8. /\ WellFormed(cfg') /\ (Held(cfg) => Held(cfg'))
      /\ \A u \in Tables \ {t} : Ids(cfg', u) = Ids(cfg, u)
  BY <1>2, <1>3, RecreateEffect
<1>9. ASSUME ~raced'
      PROVE  Held(cfg)'
  <2>0. Held(cfg)
    BY <1>6, <1>9 DEF RefInv
  <2>1. CASE torn' = torn
    BY <1>8, <2>0, <2>1, StillHeld
  <2>2. CASE torn' # torn
    <3>1. done = all /\ t = "aggregate_policy_groups"
      BY <1>2, <2>2 DEF RefInv, ShapeInv
    <3>2. Ids(cfg, t) \subseteq done
      BY <1>1, <1>3, <1>6, <1>9, <3>1 DEF RefInv, GroupsOK, Ids, all
    <3>3. Resolved(cfg')
      BY <1>2, <1>3, <2>0, <3>1, <3>2, GroupsRecreated
    <3> QED
      BY <3>3 DEF Resolved, Held, Firm, Kept
  <2> QED
    BY <2>1, <2>2
<1>10. GroupsOK(pc'[a], crossed[a], op'[a], step'[a], cfg')
  <2> SUFFICES ASSUME pc'[a] = "section", ~crossed[a], step'[a] <= 3
               PROVE  Ids(cfg', "aggregate_policy_groups") \subseteq Ids(op[a].payload, "aggregate_policy_groups")
    BY <1>4 DEF GroupsOK
  <2>1. step[a] < 3 /\ step[a] <= 3
    BY <1>3, <1>4
  <2>2. t # "aggregate_policy_groups" /\ "aggregate_policy_groups" \in Tables
    BY <1>3, <2>1 DEF Tables
  <2>3. Ids(cfg', "aggregate_policy_groups") = Ids(cfg, "aggregate_policy_groups")
    BY <1>8, <2>2
  <2>4. GroupsOK(pc[a], crossed[a], op[a], step[a], cfg)
    BY DEF RefInv
  <2> QED
    BY <1>1, <2>1, <2>3, <2>4 DEF GroupsOK
<1> QED
  BY <1>1, <1>4, <1>5, <1>6, <1>7, <1>8, <1>9, <1>10, CommitKeeps

LEMMA InterruptedKeeps ==
  ASSUME RefInv, NEW a \in Admins, Interrupted(a)
  PROVE  RefInv'
<1> DEFINE t == SectionOrder[step[a]]
<1>1. /\ pc[a] = "section" /\ step[a] <= Len(SectionOrder)
      /\ raced' = (raced \/ crossed[a]) /\ UNCHANGED <<snapshots, torn>>
      /\ \E done \in SUBSET Fitting(a, t) : \E approvals \in SUBSET done : Recreate(a, t, done, approvals)
  BY InterruptedParts
<1>2. t \in Tables /\ WellFormed(op[a].payload)
  BY <1>1, SectionTable
<1> HIDE DEF t
<1>3. WellFormed(cfg') /\ (Held(cfg) => Held(cfg'))
  BY <1>1, <1>2, RecreateEffect
<1>4. raced' \in BOOLEAN /\ (raced => raced') /\ (~raced' => ~raced)
  BY <1>1, Zenon DEF RefInv, ShapeInv
<1>5. ~raced' => Held(cfg)'
  BY <1>1, <1>3, <1>4, StillHeld DEF RefInv
<1>6. torn' \in BOOLEAN
  BY <1>1 DEF RefInv, ShapeInv
<1>7. CASE /\ Overtake(a) /\ step' = [step EXCEPT ![a] = 1] /\ Goto(a, "raised")
           /\ UNCHANGED <<op, acc, idmap>>
  <2>1. OnlyMoves(a) /\ pc'[a] = "raised" /\ op'[a] = op[a] /\ step'[a] = 1
    BY <1>7 DEF OnlyMoves, Overtake, Goto, RefInv, ShapeInv
  <2>2. RequestOK(pc'[a], op'[a], step'[a])
    BY <2>1 DEF RequestOK, RefInv, ShapeInv
  <2>3. GroupsOK(pc'[a], crossed[a], op'[a], step'[a], cfg')
    BY <2>1 DEF GroupsOK
  <2> QED
    BY <1>1, <1>3, <1>4, <1>5, <1>6, <1>7, <2>1, <2>2, <2>3, CommitKeeps
<1>8. CASE Restarted
  BY <1>1, <1>3, <1>4, <1>5, <1>6, <1>8, RestartKeeps
<1> QED
  BY <1>7, <1>8, InterruptedParts

LEMMA CrashKeeps ==
  ASSUME RefInv, Crash
  PROVE  RefInv'
<1>1. UNCHANGED <<cfg, snapshots, raced, torn>> /\ Restarted
  BY DEF Crash
<1>2. ~raced' => Held(cfg)'
  BY <1>1, StillHeld DEF RefInv
<1> QED
  BY <1>1, <1>2, RestartKeeps DEF RefInv, ShapeInv

LEMMA AdvanceKeeps ==
  ASSUME RefInv, NEW a \in Admins, Advance(a)
  PROVE  RefInv'
BY WriteKeeps, QuietKeeps, VerifyKeeps, ExportKeeps, SnapshotKeeps, WipeKeeps, SectionKeeps, InterruptedKeeps DEF Advance

LEMMA RefInit == Init => RefInv
<1> SUFFICES ASSUME Init PROVE RefInv
  OBVIOUS
<1>1. WellFormed(cfg) /\ Held(cfg)
  BY ConfigsAssumption DEF Init, Resolved, Held, Firm
<1>2. WellFormed(NoConfig)
  BY DEF NoConfig, WellFormed, Empty, Ids, Row
<1>3. RequestOK("idle", NoOp, 1)
  BY DEF RequestOK, OpShaped, NoOp, Payloads
<1>4. Stored(<<cfg>>)
  <2> DEFINE s == <<cfg>>
  <2>1. s \in Seq({cfg}) /\ \A i \in DOMAIN s : s[i] = cfg
    OBVIOUS
  <2> HIDE DEF s
  <2>2. s \in Seq(Range(s))
    BY <2>1, SeqOfRange
  <2>3. Stored(s)
    BY <1>1, <2>1, <2>2 DEF Stored
  <2> QED
    BY <2>3 DEF s
<1> QED
  BY <1>1, <1>2, <1>3, <1>4 DEF Init, RefInv, ShapeInv, GroupsOK

LEMMA RefNext == RefInv /\ [Next]_vars => RefInv'
<1> SUFFICES ASSUME RefInv, [Next]_vars PROVE RefInv'
  OBVIOUS
<1>1. CASE Crash
  BY <1>1, CrashKeeps
<1>2. ASSUME NEW a \in Admins, Request(a) \/ Advance(a)
      PROVE  RefInv'
  BY <1>2, RequestKeeps, AdvanceKeeps
<1>3. CASE UNCHANGED vars
  <2>1. UNCHANGED <<cfg, snapshots, pc, op, step, acc, crossed, raced, torn>>
    BY <1>3 DEF vars, local
  <2>2. \A r : Firm(r)' <=> Firm(r)
    BY <2>1 DEF Firm, Kept
  <2> QED
    BY <2>1, <2>2 DEF RefInv, ShapeInv, Held, Decided
<1> QED
  BY <1>1, <1>2, <1>3 DEF Next

\* Saves that validate, deletes that look for users, the profile that delete_profile
\* takes from its devices, and imports in an order in which what a row names is there:
\* unless a write raced, together they leave no reference dangling, not even when an
\* import fails or the process dies between two of its rows. Between the wipe and the
\* end of the groups that is said of all but the members of groups.
THEOREM ReferencesAlwaysResolve == Spec => []ReferencesResolve
<1>1. RefInv => ReferencesResolve
  BY DEF RefInv, ReferencesResolve, Held
<1> QED
  BY <1>1, RefInit, RefNext, PTL DEF Spec

-----------------------------------------------------------------------------
(* What an import deletes is in the newest snapshot.                       *)

\* The steps of a snapshot, or of an import, before it deletes.
Saving == {"export", "preflight", "wipe"}

\* What an export has read in the sections before s is what c holds.
ReadSoFar(x, c, s) ==
  \A i \in 1..Len(ExportOrder) : i < s =>
    /\ x.rows[ExportOrder[i]] = c.rows[ExportOrder[i]]
    /\ ExportOrder[i] = "services" => x.approved = c.approved

\* A request that nobody has overtaken: where it is, whether it is overtaken, its
\* section and what it has read.
SavedOK(l, k, s, x, c, snaps) ==
  /\ l \notin {"export", "section", "reread"} => s = 1
  /\ l = "export" /\ ~k => ReadSoFar(x, c, s)
  /\ l \in {"preflight", "wipe"} /\ ~k => snaps[Len(snaps)] = c

SaveInv ==
  /\ RefInv
  /\ \A a, b \in Admins : pc[a] \in Saving /\ pc[b] \in Saving => a = b
  /\ \A a \in Admins : SavedOK(pc[a], crossed[a], step[a], acc[a], cfg, snapshots)

LEMMA SaveStep ==
  ASSUME SaveInv, RefInv', NEW a \in Admins, OnlyMoves(a),
         \/ UNCHANGED cfg /\ \A x \in Admins \ {a} : crossed'[x] = crossed[x]
         \/ Overtake(a),
         UNCHANGED snapshots \/ pc[a] \in Saving,
         pc'[a] \in Saving => pc[a] \in Saving \/ \A x \in Admins \ {a} : pc[x] = "idle",
         SavedOK(pc'[a], crossed'[a], step'[a], acc'[a], cfg', snapshots')
  PROVE  SaveInv'
<1>1. ASSUME NEW x \in Admins, NEW y \in Admins, pc'[x] \in Saving, pc'[y] \in Saving, x # y
      PROVE  FALSE
  <2>1. \A z \in Admins \ {a} : pc'[z] = pc[z]
    BY DEF OnlyMoves
  <2> QED
    BY <1>1, <2>1 DEF SaveInv, Saving
<1>2. ASSUME NEW x \in Admins \ {a}
      PROVE  SavedOK(pc'[x], crossed'[x], step'[x], acc'[x], cfg', snapshots')
  <2>1. pc'[x] = pc[x] /\ step'[x] = step[x] /\ acc'[x] = acc[x]
    BY DEF OnlyMoves
  <2>2. SavedOK(pc[x], crossed[x], step[x], acc[x], cfg, snapshots)
    BY DEF SaveInv
  <2>3. CASE UNCHANGED cfg /\ crossed'[x] = crossed[x]
    <3>1. pc[x] \in {"preflight", "wipe"} => UNCHANGED snapshots
      BY DEF SaveInv, Saving
    <3> QED
      BY <2>1, <2>2, <2>3, <3>1, Zenon DEF SavedOK
  <2>4. CASE Overtake(a)
    <3>1. pc[x] # "idle" => crossed'[x]
      BY <2>4, Zenon DEF Overtake
    <3> QED
      BY <2>1, <2>2, <3>1 DEF SavedOK
  <2> QED
    BY <2>3, <2>4
<1> QED
  BY <1>1, <1>2 DEF SaveInv

LEMMA RequestBegins ==
  ASSUME NEW a \in Admins, Request(a)
  PROVE  \E o : \E l \in {"write", "export"} : Begin(a, o, l)
<1> DEFINE Begins == \E o : \E l \in {"write", "export"} : Begin(a, o, l)
<1>1. \A o : Begin(a, o, "write") \/ Begin(a, o, "export") => Begins
  OBVIOUS
<1> HIDE DEF Begins
<1>2. \A t, id, name, refs : Save(a, t, id, name, refs) => Begins
  BY <1>1 DEF Save
<1>3. \A t, id : Delete(a, t, id) => Begins
  BY <1>1 DEF Delete
<1>4. ProfileRoutes(a) => Begins
  BY <1>1, <1>2, <1>3 DEF ProfileRoutes, ProfileSave, ProfileClone, ProfileDelete
<1>5. DeviceRoutes(a) => Begins
  BY <1>1, <1>2, <1>3 DEF DeviceRoutes, DeviceSave, DeviceCopy, DeviceRetire
<1>6. TemplateRoutes(a) => Begins
  BY <1>1, <1>2, <1>3 DEF TemplateRoutes, TemplateSave, TemplateApply, TemplateDelete
<1>7. PresetRoutes(a) => Begins
  BY <1>1, <1>2, <1>3 DEF PresetRoutes, PresetSave, PresetDelete
<1>8. ServiceRoutes(a) => Begins
  BY <1>1, <1>2, <1>3 DEF ServiceRoutes, ServiceSave, ServiceApprove, ServiceDelete
<1>9. GroupRoutes(a) => Begins
  BY <1>1, <1>2, <1>3 DEF GroupRoutes, GroupSave, GroupDelete
<1>10. CollectionRoutes(a) => Begins
  BY <1>1, <1>2, <1>3 DEF CollectionRoutes, CollectionSave, CollectionApply, CollectionDelete
<1>11. PlanRoutes(a) => Begins
  BY <1>1, <1>2, <1>3 DEF PlanRoutes, PlanSave, PlanDelete
<1>12. STemplateRoutes(a) => Begins
  BY <1>1, <1>2, <1>3 DEF STemplateRoutes, STemplateSave, STemplateDelete
<1>13. ExceptionRoutes(a) => Begins
  BY <1>1, <1>2, <1>3 DEF ExceptionRoutes, ExceptionSave, ExceptionDelete
<1>14. DefaultsSave(a) => Begins
  BY <1>1, <1>2, <1>3 DEF DefaultsSave
<1>15. OperationsRoutes(a) => Begins
  BY <1>1, <1>2, <1>3 DEF OperationsRoutes, Snapshot, Import, Restore
<1>16. Begins
  BY <1>4, <1>5, <1>6, <1>7, <1>8, <1>9, <1>10, <1>11, <1>12, <1>13, <1>14, <1>15, Zenon DEF Request
<1> QED
  BY <1>16 DEF Begins

LEMMA RequestSaves ==
  ASSUME SaveInv, NEW a \in Admins, Request(a)
  PROVE  SaveInv'
<1>1. PICK o : \E l \in {"write", "export"} : Begin(a, o, l)
  BY RequestBegins
<1>2. PICK l \in {"write", "export"} : Begin(a, o, l)
  BY <1>1
<1>3. RefInv'
  BY RequestKeeps DEF SaveInv
<1>4. /\ pc[a] = "idle" /\ pc' = [pc EXCEPT ![a] = l] /\ op' = [op EXCEPT ![a] = o]
      /\ crossed' = [crossed EXCEPT ![a] = FALSE]
      /\ UNCHANGED <<cfg, snapshots, step, acc, raced>>
      /\ l = "export" => \A x \in Admins \ {a} : pc[x] = "idle"
  BY <1>2 DEF Begin, Goto
<1>5. /\ OnlyMoves(a) /\ pc'[a] = l
      /\ \A x \in Admins \ {a} : crossed'[x] = crossed[x]
  BY <1>4 DEF OnlyMoves, SaveInv, RefInv, ShapeInv
<1>6. SavedOK(pc'[a], crossed'[a], step'[a], acc'[a], cfg', snapshots')
  <2>1. step[a] = 1
    BY <1>4 DEF SaveInv, SavedOK
  <2> QED
    BY <1>4, <1>5, <2>1 DEF SavedOK, ReadSoFar
<1> QED
  BY <1>3, <1>4, <1>5, <1>6, SaveStep DEF Saving

LEMMA WriteSaves ==
  ASSUME SaveInv, NEW a \in Admins, Write(a)
  PROVE  SaveInv'
<1>1. RefInv'
  BY WriteKeeps DEF SaveInv
<1>2. /\ pc[a] = "write" /\ Overtake(a) /\ UNCHANGED <<snapshots, step, acc>>
      /\ \/ Goto(a, "publish") /\ op' = op
         \/ Goto(a, "idle") /\ op' = [op EXCEPT ![a] = NoOp]
  BY DEF Write
<1>3. OnlyMoves(a) /\ pc'[a] \in {"publish", "idle"}
  BY <1>2 DEF OnlyMoves, Overtake, Goto, SaveInv, RefInv, ShapeInv
<1>4. SavedOK(pc'[a], crossed'[a], step'[a], acc'[a], cfg', snapshots')
  BY <1>2, <1>3 DEF SavedOK, SaveInv
<1> QED
  BY <1>1, <1>2, <1>3, <1>4, SaveStep DEF Saving

LEMMA QuietSaves ==
  ASSUME SaveInv, NEW a \in Admins,
         Refused(a) \/ PublishRead(a) \/ PublishReplace(a) \/ Preflight(a) \/ Imported(a) \/ Failed(a) \/ Verify(a)
  PROVE  SaveInv'
<1>1. RefInv'
  BY QuietKeeps, VerifyKeeps DEF SaveInv
<1>2. /\ UNCHANGED <<cfg, snapshots, crossed>>
      /\ acc' = acc \/ acc' = [acc EXCEPT ![a] = NoConfig]
      /\ \/ op' = op
         \/ op' = [op EXCEPT ![a] = NoOp]
         \/ op' = [op EXCEPT ![a] = [do |-> "replace", listing |-> Published(cfg)]]
      /\ \/ step' = step /\ pc[a] \notin {"export", "section", "reread"}
         \/ step' = [step EXCEPT ![a] = 1]
  BY DEF Refused, PublishRead, PublishReplace, Preflight, Imported, Failed, Verify
<1>3. PICK l : /\ Goto(a, l) /\ l \in {"idle", "replace", "wipe", "reread", "publish", "failed"}
               /\ l = "wipe" => pc[a] = "preflight"
  BY DEF Refused, PublishRead, PublishReplace, Preflight, Imported, Failed, Verify
<1>4. /\ OnlyMoves(a) /\ pc'[a] = l
      /\ \/ step'[a] = step[a] /\ pc[a] \notin {"export", "section", "reread"}
         \/ step'[a] = 1
  BY <1>2, <1>3 DEF OnlyMoves, Goto, SaveInv, RefInv, ShapeInv
<1>5. SavedOK(pc'[a], crossed'[a], step'[a], acc'[a], cfg', snapshots')
  <2>1. SavedOK(pc[a], crossed[a], step[a], acc[a], cfg, snapshots)
    BY DEF SaveInv
  <2>2. step'[a] = 1
    BY <1>4, <2>1 DEF SavedOK
  <2> QED
    BY <1>2, <1>3, <1>4, <2>1, <2>2 DEF SavedOK
<1> QED
  BY <1>1, <1>2, <1>3, <1>4, <1>5, SaveStep DEF Saving

\* An export reads on.
LEMMA ReadOn ==
  ASSUME NEW x, NEW c, NEW s \in Nat, NEW last \in Nat, ReadSoFar(x, c, s)
  PROVE  ReadSoFar(Read(c, x, {ExportOrder[i] : i \in s..last}), c, last + 1)
<1> DEFINE read == {ExportOrder[i] : i \in s..last}
           new == Read(c, x, read)
<1> SUFFICES ASSUME NEW i \in 1..Len(ExportOrder), i < last + 1
             PROVE  /\ new.rows[ExportOrder[i]] = c.rows[ExportOrder[i]]
                    /\ ExportOrder[i] = "services" => new.approved = c.approved
  BY DEF ReadSoFar
<1>1. Len(ExportOrder) \in Nat /\ ExportOrder[i] \in Tables
  BY DEF ExportOrder, Tables
<1>2. i < s \/ i \in s..last
  BY <1>1
<1>3. \/ ExportOrder[i] \in read
      \/ /\ x.rows[ExportOrder[i]] = c.rows[ExportOrder[i]]
         /\ ExportOrder[i] = "services" => x.approved = c.approved
  BY <1>2 DEF ReadSoFar
<1> HIDE DEF read
<1> QED
  BY <1>1, <1>3 DEF Read

\* An export has read everything after its last section.
LEMMA ReadAll ==
  ASSUME NEW x, NEW c, NEW s \in Nat, WellFormed(x), WellFormed(c), ReadSoFar(x, c, s), s > Len(ExportOrder)
  PROVE  x = c
<1>1. /\ Len(ExportOrder) = 11 /\ 5 \in 1..11
      /\ ExportOrder[1] = "profiles" /\ ExportOrder[2] = "device_policy" /\ ExportOrder[3] = "policy_templates"
      /\ ExportOrder[4] = "bandwidth_presets" /\ ExportOrder[5] = "services"
      /\ ExportOrder[6] = "aggregate_policy_groups" /\ ExportOrder[7] = "service_groups"
      /\ ExportOrder[8] = "schedule_plans" /\ ExportOrder[9] = "schedule_templates"
      /\ ExportOrder[10] = "date_exceptions" /\ ExportOrder[11] = "app_settings"
  BY DEF ExportOrder
<1>2. \A t \in Tables : \E i \in 1..Len(ExportOrder) : ExportOrder[i] = t
  <2> HIDE DEF ExportOrder
  <2> QED
    BY <1>1 DEF Tables
<1>3. \A i \in 1..Len(ExportOrder) : i < s
  BY <1>1
<1>4. \A t \in Tables : x.rows[t] = c.rows[t]
  BY <1>2, <1>3 DEF ReadSoFar
<1>5. x.approved = c.approved
  BY <1>2, <1>3 DEF ReadSoFar, Tables
<1> QED
  BY <1>4, <1>5 DEF WellFormed

LEMMA ExportSaves ==
  ASSUME SaveInv, NEW a \in Admins, ExportSection(a)
  PROVE  SaveInv'
<1>1. RefInv'
  BY ExportKeeps DEF SaveInv
<1>2. PICK last \in Nat :
           /\ step[a] <= last
           /\ acc' = [acc EXCEPT ![a] = Read(cfg, acc[a], {ExportOrder[i] : i \in step[a]..last})]
           /\ step' = [step EXCEPT ![a] = last + 1]
  BY ExportEffect DEF SaveInv, RefInv, ShapeInv, RequestOK
<1>3. UNCHANGED <<cfg, op, pc, snapshots, crossed>> /\ pc[a] \in {"export", "reread"}
  BY DEF ExportSection
<1> DEFINE read == {ExportOrder[i] : i \in step[a]..last}
           new == Read(cfg, acc[a], read)
<1>4. OnlyMoves(a) /\ acc'[a] = new /\ step'[a] = last + 1
  BY <1>2, <1>3 DEF OnlyMoves, SaveInv, RefInv, ShapeInv
<1>5. ReadSoFar(acc[a], cfg, step[a]) => ReadSoFar(new, cfg, last + 1)
  BY <1>2, ReadOn DEF SaveInv, RefInv, ShapeInv, RequestOK
<1> HIDE DEF new
<1>6. SavedOK(pc'[a], crossed'[a], step'[a], acc'[a], cfg', snapshots')
  <2>1. SavedOK(pc[a], crossed[a], step[a], acc[a], cfg, snapshots)
    BY DEF SaveInv
  <2> QED
    BY <1>3, <1>4, <1>5, <2>1 DEF SavedOK
<1> QED
  BY <1>1, <1>3, <1>4, <1>6, SaveStep DEF Saving

LEMMA SnapshotSaves ==
  ASSUME SaveInv, NEW a \in Admins, SnapshotInsert(a)
  PROVE  SaveInv'
<1>1. RefInv'
  BY SnapshotKeeps DEF SaveInv
<1>2. /\ pc[a] = "export" /\ step[a] > Len(ExportOrder) /\ UNCHANGED <<cfg, crossed>>
      /\ snapshots' = LastOf(Append(snapshots, acc[a]), Retention)
      /\ acc' = [acc EXCEPT ![a] = NoConfig] /\ step' = [step EXCEPT ![a] = 1]
      /\ \/ Goto(a, "idle") /\ op' = [op EXCEPT ![a] = NoOp]
         \/ Goto(a, "preflight") /\ op' = op
  BY DEF SnapshotInsert
<1>3. snapshots'[Len(snapshots')] = acc[a]
  <2>1. Stored(snapshots) /\ WellFormed(acc[a])
    BY DEF SaveInv, RefInv, ShapeInv
  <2> QED
    BY <1>2, <2>1, StoredAppend
<1>4. ASSUME ~crossed[a]
      PROVE  acc[a] = cfg
  <2>1. ReadSoFar(acc[a], cfg, step[a])
    BY <1>2, <1>4 DEF SaveInv, SavedOK
  <2> QED
    BY <1>2, <2>1, ReadAll DEF SaveInv, RefInv, ShapeInv, RequestOK
<1>5. /\ OnlyMoves(a) /\ step'[a] = 1 /\ pc'[a] \in {"idle", "preflight"}
  BY <1>2 DEF OnlyMoves, Goto, SaveInv, RefInv, ShapeInv
<1>6. SavedOK(pc'[a], crossed'[a], step'[a], acc'[a], cfg', snapshots')
  BY <1>2, <1>3, <1>4, <1>5 DEF SavedOK
<1> QED
  BY <1>1, <1>2, <1>5, <1>6, SaveStep DEF Saving

LEMMA WipeSaves ==
  ASSUME SaveInv, NEW a \in Admins, Wipe(a)
  PROVE  SaveInv'
<1>1. RefInv'
  BY WipeKeeps DEF SaveInv
<1>2. /\ pc[a] = "wipe" /\ Overtake(a) /\ Goto(a, "section") /\ UNCHANGED <<snapshots, op, step, acc>>
  BY DEF Wipe
<1>3. OnlyMoves(a) /\ pc'[a] = "section"
  BY <1>2 DEF OnlyMoves, Overtake, Goto, SaveInv, RefInv, ShapeInv
<1>4. SavedOK(pc'[a], crossed'[a], step'[a], acc'[a], cfg', snapshots')
  BY <1>3 DEF SavedOK
<1> QED
  BY <1>1, <1>2, <1>3, <1>4, SaveStep DEF Saving

LEMMA SectionSaves ==
  ASSUME SaveInv, NEW a \in Admins, Section(a)
  PROVE  SaveInv'
<1>1. RefInv'
  BY SectionKeeps DEF SaveInv
<1>2. /\ pc[a] = "section" /\ Overtake(a) /\ UNCHANGED <<snapshots, acc, op>>
  BY Zenon DEF Section
<1>3. \/ step' = [step EXCEPT ![a] = @ + 1] /\ pc' = pc
      \/ step' = [step EXCEPT ![a] = 1] /\ Goto(a, "failed")
  BY SectionParts, Zenon
<1>4. /\ OnlyMoves(a)
      /\ \/ pc'[a] = "section"
         \/ pc'[a] = "failed" /\ step'[a] = 1
  <2>1. CASE step' = [step EXCEPT ![a] = @ + 1] /\ pc' = pc
    <3>1. OnlyMoves(a)
      BY <1>2, <2>1 DEF OnlyMoves, Overtake, SaveInv, RefInv, ShapeInv
    <3>2. pc'[a] = "section"
      BY <1>2, <2>1
    <3> QED
      BY <3>1, <3>2
  <2>2. CASE step' = [step EXCEPT ![a] = 1] /\ Goto(a, "failed")
    BY <1>2, <2>2 DEF OnlyMoves, Overtake, Goto, SaveInv, RefInv, ShapeInv
  <2> QED
    BY <1>3, <2>1, <2>2
<1>5. SavedOK(pc'[a], crossed'[a], step'[a], acc'[a], cfg', snapshots')
  BY <1>4 DEF SavedOK
<1> QED
  BY <1>1, <1>2, <1>4, <1>5, SaveStep DEF Saving

LEMMA InterruptedSaves ==
  ASSUME SaveInv, NEW a \in Admins, Interrupted(a)
  PROVE  SaveInv'
<1>1. RefInv'
  BY InterruptedKeeps DEF SaveInv
<1>2. CASE /\ Overtake(a) /\ step' = [step EXCEPT ![a] = 1] /\ Goto(a, "raised")
           /\ UNCHANGED <<op, acc, idmap>>
  <2>1. OnlyMoves(a) /\ pc'[a] = "raised" /\ step'[a] = 1
    BY <1>2 DEF OnlyMoves, Overtake, Goto, SaveInv, RefInv, ShapeInv
  <2>2. SavedOK(pc'[a], crossed'[a], step'[a], acc'[a], cfg', snapshots')
    BY <2>1 DEF SavedOK
  <2>3. UNCHANGED snapshots
    BY InterruptedParts
  <2> QED
    BY <1>1, <1>2, <2>1, <2>2, <2>3, SaveStep DEF Saving
<1>3. CASE Restarted
  BY <1>1, <1>3 DEF Restarted, SaveInv, SavedOK, Saving
<1> QED
  BY <1>2, <1>3, InterruptedParts

LEMMA SaveNext == SaveInv /\ [Next]_vars => SaveInv'
<1> SUFFICES ASSUME SaveInv, [Next]_vars PROVE SaveInv'
  OBVIOUS
<1>1. RefInv'
  BY RefNext DEF SaveInv
<1>2. CASE Crash
  BY <1>1, <1>2 DEF Crash, Restarted, SaveInv, SavedOK, Saving
<1>3. ASSUME NEW a \in Admins, Request(a)
      PROVE  SaveInv'
  BY <1>3, RequestSaves
<1>4. ASSUME NEW a \in Admins, Advance(a)
      PROVE  SaveInv'
  BY <1>4, WriteSaves, QuietSaves, ExportSaves, SnapshotSaves, WipeSaves, SectionSaves, InterruptedSaves DEF Advance
<1>5. CASE UNCHANGED vars
  BY <1>1, <1>5 DEF vars, local, SaveInv
<1> QED
  BY <1>2, <1>3, <1>4, <1>5 DEF Next

LEMMA SaveInit == Init => SaveInv
<1> SUFFICES ASSUME Init PROVE SaveInv
  OBVIOUS
<1>1. RefInv
  BY RefInit
<1> QED
  BY <1>1 DEF Init, SaveInv, SavedOK, Saving

\* import_config exports before it deletes: the newest snapshot is the configuration
\* that the wipe deletes, as long as no other thread has committed since.
THEOREM WhatIsDeletedIsSaved == Spec => DeletedIsSaved
<1>1. SaveInv => \A a \in Admins : pc[a] = "wipe" /\ ~crossed[a] => snapshots[Len(snapshots)] = cfg
  BY DEF SaveInv, SavedOK
<1>2. SaveInv /\ [Next]_vars =>
        [\A a \in Admins : pc[a] = "wipe" /\ pc'[a] = "section" /\ ~crossed[a]
           => Digest(snapshots[Len(snapshots)]) = Digest(cfg)]_vars
  BY <1>1
<1> QED
  BY <1>2, SaveInit, SaveNext, PTL DEF Spec, DeletedIsSaved

-----------------------------------------------------------------------------
(* A restore brings back what the snapshot held.                           *)

\* Tables whose ids are given in turn.
Given == Tables \ Keyed
MapTables == {"profiles", "schedule_templates"}

\* n is above every id of a row, and above every id that a reference to a profile
\* or a template names: an id given anew is the id of nothing that was.
RefsNumbered(refs, n) == \A r \in refs : r.to \in MapTables => r.id \in 1..(n[r.to] - 1)

Numbered(c, n) ==
  /\ \A t \in Given : Ids(c, t) \subseteq 1..(n[t] - 1)
  /\ \A t \in Tables : \A i \in Ids(c, t) : RefsNumbered(Row(c, t, i).refs, n)
  /\ Ids(c, "app_settings") \subseteq {"defaults"}
  /\ c.approved \subseteq Ids(c, "services")

\* The settings are there.
HasSettings(c) == Ids(c, "app_settings") = {"defaults"}

OpNumbered(o, n) ==
  /\ o.do = "save" => RefsNumbered(o.refs, n) /\ (o.table = "app_settings" => o.id = "defaults")
  /\ o.do = "delete" => o.table # "app_settings"
  /\ o.do \in Payloads => Numbered(o.payload, n) /\ HasSettings(o.payload)

\* The maps of an import lead to ids that have been given.
MapNumbered(m, n) ==
  /\ DOMAIN m = MapTables
  /\ \A t \in MapTables : \A i \in DOMAIN m[t] : m[t][i] \in 1..(n[t] - 1)

NumOK(l, o, s, x, m, n) ==
  /\ Numbered(x, n) /\ OpNumbered(o, n)
  /\ l \in {"export", "reread"} /\ s > Len(ExportOrder) => HasSettings(x)
  /\ l = "section" => MapNumbered(m, n)

NumInv ==
  /\ DOMAIN nextId = Given /\ \A t \in Given : nextId[t] \in Nat \ {0}
  /\ Numbered(cfg, nextId) /\ HasSettings(cfg)
  /\ \A i \in DOMAIN snapshots : Numbered(snapshots[i], nextId) /\ HasSettings(snapshots[i])
  /\ DOMAIN idmap = Admins
  /\ \A a \in Admins : NumOK(pc[a], op[a], step[a], acc[a], idmap[a], nextId)

\* The tables an import has recreated before section s.
Before(s) == {SectionOrder[i] : i \in {i \in 1..Len(SectionOrder) : i < s}}

\* The rows of a table, without ids and with references by name.
Meaning(c, t) ==
  {[name |-> Row(c, t, i).name, refs |-> SemanticRefs(c, t, Row(c, t, i).refs)] : i \in Ids(c, t)}

\* The map m of table t leads from a row of p to the row of c with its name, and
\* an id that p names and does not have is the id of no row of c.
Leads(m, t, p, c) ==
  /\ DOMAIN m[t] = Ids(p, t)
  /\ \A i \in Ids(p, t) : m[t][i] \in Ids(c, t) /\ Row(c, t, m[t][i]).name = Row(p, t, i).name
  /\ \A r \in Refs(p) : r.to = t => r.id \notin Ids(c, t)

\* What an import of p that nobody has overtaken has done of c before section s.
Recreated(c, p, m, s) ==
  /\ \A t \in Before(s) : Meaning(c, t) = Meaning(p, t)
  /\ \A t \in Tables \ Before(s) : t \notin {"app_settings", "aggregate_policy_groups"} => Ids(c, t) = {}
  /\ Ids(c, "aggregate_policy_groups") \subseteq Ids(p, "aggregate_policy_groups")
  /\ \A t \in Before(s) \cap Keyed : Ids(c, t) = Ids(p, t)
  /\ c.approved = IF "services" \in Before(s) THEN p.approved ELSE {}
  /\ \A t \in Before(s) \cap MapTables : Leads(m, t, p, c)

ImportOK(l, k, o, s, x, m, c) ==
  /\ l \in {"wipe", "section", "reread"} => PolicyReferences(o.payload)
  /\ l = "section" /\ ~k => Recreated(c, o.payload, m, s)
  /\ l = "reread" /\ ~k => Digest(c) = Digest(o.payload) /\ ReadSoFar(x, c, s)
  /\ l = "failed" /\ ~k => ~Restorable(o.payload)

ImportInv ==
  /\ SaveInv
  /\ NumInv
  /\ \A a \in Admins : ImportOK(pc[a], crossed[a], op[a], step[a], acc[a], idmap[a], cfg)

-----------------------------------------------------------------------------
(* Ids are given once.                                                     *)

LEMMA GivenTables ==
  /\ MapTables \subseteq Given /\ Given \subseteq Tables /\ "app_settings" \in Tables \ Given
  /\ "services" \in Tables \ Given /\ "profiles" \in Given
BY DEF MapTables, Given, Tables, Keyed

LEMMA NumberedGrows ==
  ASSUME NEW n, NEW m, \A t \in Given : n[t] \in Nat /\ m[t] \in Nat /\ n[t] <= m[t]
  PROVE  /\ \A refs : RefsNumbered(refs, n) => RefsNumbered(refs, m)
         /\ \A c : Numbered(c, n) => Numbered(c, m)
         /\ \A o : OpNumbered(o, n) => OpNumbered(o, m)
         /\ \A f : MapNumbered(f, n) => MapNumbered(f, m)
<1>1. \A t \in Given : 1..(n[t] - 1) \subseteq 1..(m[t] - 1)
  OBVIOUS
<1>2. \A t \in MapTables : 1..(n[t] - 1) \subseteq 1..(m[t] - 1)
  BY <1>1, GivenTables
<1>3. \A refs : RefsNumbered(refs, n) => RefsNumbered(refs, m)
  BY <1>2 DEF RefsNumbered
<1>4. \A c : Numbered(c, n) => Numbered(c, m)
  BY <1>1, <1>3 DEF Numbered
<1>5. \A o : OpNumbered(o, n) => OpNumbered(o, m)
  BY <1>3, <1>4 DEF OpNumbered
<1>6. \A f : MapNumbered(f, n) => MapNumbered(f, m)
  BY <1>2 DEF MapNumbered
<1> QED
  BY <1>3, <1>4, <1>5, <1>6

\* A table is replaced by numbered rows.
LEMMA WithNumbered ==
  ASSUME NEW c, NEW n, Numbered(c, n), NEW t \in Tables, NEW g,
         t \in Given => DOMAIN g \subseteq 1..(n[t] - 1),
         t = "app_settings" => DOMAIN g \subseteq {"defaults"},
         t = "services" => c.approved \subseteq DOMAIN g,
         \A i \in DOMAIN g : RefsNumbered(g[i].refs, n)
  PROVE  /\ Numbered(With(c, t, g), n)
         /\ HasSettings(c) /\ (t = "app_settings" => "defaults" \in DOMAIN g) => HasSettings(With(c, t, g))
<1> DEFINE w == With(c, t, g)
<1>1. /\ \A u \in Tables : Ids(w, u) = IF u = t THEN DOMAIN g ELSE Ids(c, u)
      /\ \A u \in Tables : \A i : Row(w, u, i) = IF u = t THEN g[i] ELSE Row(c, u, i)
      /\ w.approved = c.approved
  BY WithFacts
<1> HIDE DEF w
<1>2. \A u \in Given : Ids(w, u) \subseteq 1..(n[u] - 1)
  BY <1>1, GivenTables DEF Numbered
<1>3. \A u \in Tables : \A i \in Ids(w, u) : RefsNumbered(Row(w, u, i).refs, n)
  <2> SUFFICES ASSUME NEW u \in Tables, NEW i \in Ids(w, u)
               PROVE  RefsNumbered(Row(w, u, i).refs, n)
    OBVIOUS
  <2>1. CASE u = t
    BY <1>1, <2>1
  <2>2. CASE u # t
    BY <1>1, <2>2 DEF Numbered
  <2> QED
    BY <2>1, <2>2
<1>4. Ids(w, "app_settings") \subseteq {"defaults"}
  BY <1>1, GivenTables DEF Numbered
<1>5. w.approved \subseteq Ids(w, "services")
  BY <1>1, GivenTables DEF Numbered
<1>6. HasSettings(c) /\ (t = "app_settings" => "defaults" \in DOMAIN g) => HasSettings(w)
  BY <1>1, GivenTables DEF HasSettings
<1>7. Numbered(w, n)
  BY <1>2, <1>3, <1>4, <1>5 DEF Numbered
<1> QED
  BY <1>6, <1>7 DEF w

LEMMA NothingNumbered ==
  ASSUME NEW n
  PROVE  Numbered(NoConfig, n)
BY DEF Numbered, NoConfig, Empty, Ids, Row, Tables, Given

\* Only the approved services change.
LEMMA ApprovedNumbered ==
  ASSUME NEW c, NEW n, Numbered(c, n), NEW d, d.rows = c.rows, d.approved \subseteq Ids(c, "services")
  PROVE  Numbered(d, n) /\ (HasSettings(c) => HasSettings(d))
BY DEF Numbered, HasSettings, Ids, Row

LEMMA DropNumbered ==
  ASSUME NEW c, WellFormed(c), NEW n, Numbered(c, n), NEW t \in Tables \ {"services"}, NEW ids
  PROVE  /\ Numbered(Drop(c, t, ids), n)
         /\ HasSettings(c) /\ t # "app_settings" => HasSettings(Drop(c, t, ids))
<1> DEFINE g == [i \in Ids(c, t) \ ids |-> Row(c, t, i)]
<1>1. Drop(c, t, ids) = With(c, t, g)
  BY DropIsWith
<1>2. DOMAIN g \subseteq Ids(c, t) /\ \A i \in DOMAIN g : g[i] = Row(c, t, i)
  OBVIOUS
<1> HIDE DEF g
<1>3. \A i \in DOMAIN g : RefsNumbered(g[i].refs, n)
  BY <1>2 DEF Numbered
<1>4. t \in Given => DOMAIN g \subseteq 1..(n[t] - 1)
  BY <1>2 DEF Numbered
<1>5. t = "app_settings" => DOMAIN g \subseteq {"defaults"}
  BY <1>2 DEF Numbered
<1> QED
  BY <1>1, <1>3, <1>4, <1>5, WithNumbered

LEMMA PutNumbered ==
  ASSUME NEW c, WellFormed(c), NEW n, Numbered(c, n), NEW t \in Tables, NEW f,
         t \in Given => DOMAIN f \subseteq 1..(n[t] - 1),
         t = "app_settings" => DOMAIN f \subseteq {"defaults"},
         \A i \in DOMAIN f : RefsNumbered(f[i].refs, n)
  PROVE  Numbered(Put(c, t, f), n) /\ (HasSettings(c) => HasSettings(Put(c, t, f)))
<1> DEFINE g == [i \in DOMAIN f \cup Ids(c, t) |-> IF i \in DOMAIN f THEN f[i] ELSE Row(c, t, i)]
<1>1. Put(c, t, f) = With(c, t, g)
  BY PutIsWith
<1>2. DOMAIN g = DOMAIN f \cup Ids(c, t) /\ \A i \in DOMAIN g : g[i] = IF i \in DOMAIN f THEN f[i] ELSE Row(c, t, i)
  OBVIOUS
<1> HIDE DEF g
<1>3. \A i \in DOMAIN g : RefsNumbered(g[i].refs, n)
  BY <1>2 DEF Numbered
<1>4. t \in Given => DOMAIN g \subseteq 1..(n[t] - 1)
  BY <1>2 DEF Numbered
<1>5. t = "app_settings" => DOMAIN g \subseteq {"defaults"}
  BY <1>2 DEF Numbered
<1>6. t = "services" => c.approved \subseteq DOMAIN g
  BY <1>2 DEF Numbered
<1>7. HasSettings(c) /\ t = "app_settings" => "defaults" \in DOMAIN g
  BY <1>2 DEF HasSettings
<1> QED
  BY <1>1, <1>3, <1>4, <1>5, <1>6, <1>7, WithNumbered

LEMMA SavedNumbered ==
  ASSUME NEW c, WellFormed(c), NEW n, Numbered(c, n), HasSettings(c), NEW o, o.do = "save", OpShaped(o),
         OpNumbered(o, n), o.table \in Given => SaveId(o) \in 1..(n[o.table] - 1),
         o.table \notin Given => SaveId(o) = o.id
  PROVE  Numbered(Saved(c, o), n) /\ HasSettings(Saved(c, o))
<1> DEFINE row == [name |-> o.name, refs |-> o.refs]
           f == Single(SaveId(o), row)
<1>1. Saved(c, o) = Put(c, o.table, f)
  BY DEF Saved
<1>2. DOMAIN f = {SaveId(o)} /\ \A i \in DOMAIN f : f[i].refs = o.refs
  BY DEF Single
<1> HIDE DEF f
<1>3. \A i \in DOMAIN f : RefsNumbered(f[i].refs, n)
  BY <1>2 DEF OpNumbered
<1>4. o.table \in Given => DOMAIN f \subseteq 1..(n[o.table] - 1)
  BY <1>2
<1>5. o.table = "app_settings" => DOMAIN f \subseteq {"defaults"}
  BY <1>2, GivenTables DEF OpNumbered
<1>6. o.table \in Tables
  BY DEF OpShaped
<1> QED
  BY <1>1, <1>3, <1>4, <1>5, <1>6, PutNumbered

LEMMA RetiredNumbered ==
  ASSUME NEW c, WellFormed(c), NEW n, Numbered(c, n), HasSettings(c), NEW ip
  PROVE  Numbered(Retired(c, ip), n) /\ HasSettings(Retired(c, ip))
<1> DEFINE plans == Targeting(c, "schedule_plans", ip)
           exceptions == Targeting(c, "date_exceptions", ip)
           d == Drop(c, "device_policy", {ip})
           e == Drop(d, "schedule_plans", plans)
           f == Drop(e, "date_exceptions", exceptions)
<1>1. Retired(c, ip) = f
  BY DEF Retired
<1> HIDE DEF plans, exceptions
<1>2. {"device_policy", "schedule_plans", "date_exceptions"} \subseteq Tables \ {"services", "app_settings"}
  BY DEF Tables
<1>3. WellFormed(d) /\ Numbered(d, n) /\ HasSettings(d)
  BY <1>2, DropEffect, DropNumbered
<1> HIDE DEF d
<1>4. WellFormed(e) /\ Numbered(e, n) /\ HasSettings(e)
  BY <1>2, <1>3, DropEffect, DropNumbered
<1> HIDE DEF e
<1> QED
  BY <1>1, <1>2, <1>4, DropNumbered

LEMMA ProfileDeletedNumbered ==
  ASSUME NEW c, WellFormed(c), NEW n, Numbered(c, n), HasSettings(c), NEW id
  PROVE  Numbered(ProfileDeleted(c, id), n) /\ HasSettings(ProfileDeleted(c, id))
<1> DEFINE g == [d \in Ids(c, "device_policy") |-> Without(Row(c, "device_policy", d), id)]
           w == With(c, "device_policy", g)
<1>1. /\ ProfileDeleted(c, id) = Drop(w, "profiles", {id}) /\ WellFormed(w)
      /\ \A d \in Ids(c, "device_policy") : g[d].refs \subseteq Row(c, "device_policy", d).refs
  BY ProfileDeletedIs
<1>2. DOMAIN g = Ids(c, "device_policy")
  OBVIOUS
<1> HIDE DEF g
<1>3. /\ "device_policy" \in Tables \ {"app_settings", "services"} /\ "device_policy" \notin Given
      /\ "profiles" \in Tables \ {"app_settings", "services"}
  BY DEF Tables, Given, Keyed
<1>4. \A d \in DOMAIN g : RefsNumbered(g[d].refs, n)
  BY <1>1, <1>2, <1>3 DEF Numbered, RefsNumbered
<1>5. Numbered(w, n) /\ HasSettings(w)
  BY <1>3, <1>4, WithNumbered
<1> HIDE DEF w
<1> QED
  BY <1>1, <1>3, <1>5, DropNumbered

LEMMA DeletedNumbered ==
  ASSUME NEW c, WellFormed(c), NEW n, Numbered(c, n), HasSettings(c), NEW o, o.do = "delete", OpShaped(o),
         OpNumbered(o, n)
  PROVE  Numbered(Deleted(c, o), n) /\ HasSettings(Deleted(c, o))
<1>1. o.table \in Tables /\ o.table # "app_settings"
  BY DEF OpShaped, OpNumbered
<1>2. CASE o.table = "profiles"
  <2>1. Deleted(c, o) = ProfileDeleted(c, o.id)
    BY <1>2, DeletedCases
  <2> QED
    BY <2>1, ProfileDeletedNumbered
<1>3. CASE o.table = "services"
  <2> DEFINE d == Drop(c, o.table, {o.id})
  <2>1. /\ WellFormed(d)
        /\ \A u \in Tables : Ids(d, u) = IF u = o.table THEN Ids(c, u) \ {o.id} ELSE Ids(c, u)
        /\ \A u \in Tables : \A i \in Ids(d, u) : Row(d, u, i) = Row(c, u, i)
        /\ d.approved = c.approved
    <3>1. d = With(c, o.table, [i \in Ids(c, o.table) \ {o.id} |-> Row(c, o.table, i)])
      BY <1>1, DropIsWith
    <3>2. d.approved = c.approved
      BY <3>1 DEF With
    <3> HIDE DEF d
    <3> QED
      BY <1>1, <3>2, DropEffect DEF d
  <2>2. Deleted(c, o) = [d EXCEPT !.approved = d.approved \ {o.id}]
    BY <1>3, DeletedCases
  <2> HIDE DEF d
  <2> DEFINE e == Deleted(c, o)
  <2>3. e.rows = d.rows /\ e.approved = c.approved \ {o.id}
    <3>1. d = [rows |-> d.rows, approved |-> d.approved]
      BY <2>1 DEF WellFormed
    <3> QED
      BY <2>1, <2>2, <3>1
  <2> HIDE DEF e
  <2>4. \A u : Ids(e, u) = Ids(d, u) /\ \A i : Row(e, u, i) = Row(d, u, i)
    BY <2>3 DEF Ids, Row
  <2>5. \A u \in Given : Ids(e, u) \subseteq 1..(n[u] - 1)
    BY <2>1, <2>4, GivenTables DEF Numbered
  <2>6. \A u \in Tables : \A i \in Ids(e, u) : RefsNumbered(Row(e, u, i).refs, n)
    BY <2>1, <2>4 DEF Numbered
  <2>7. Ids(e, "app_settings") = {"defaults"}
    BY <1>3, <2>1, <2>4, GivenTables DEF HasSettings
  <2>8. e.approved \subseteq Ids(e, "services")
    BY <1>3, <2>1, <2>3, <2>4, GivenTables DEF Numbered
  <2> QED
    BY <2>5, <2>6, <2>7, <2>8 DEF Numbered, HasSettings, e
<1>4. CASE o.table \notin {"profiles", "services"}
  <2>1. Deleted(c, o) = Drop(c, o.table, {o.id})
    BY <1>4, DeletedCases
  <2> QED
    BY <1>1, <1>4, <2>1, DropNumbered
<1> QED
  BY <1>2, <1>3, <1>4

LEMMA AppliedNumbered ==
  ASSUME NEW c, WellFormed(c), NEW n, Numbered(c, n), HasSettings(c), NEW o, ApplyAccepted(c, o)
  PROVE  Numbered(TemplateApplied(c, o), n) /\ HasSettings(TemplateApplied(c, o))
<1> DEFINE refs == Row(c, "policy_templates", o.template).refs
           f == [i \in {o.id} |-> [name |-> Row(c, "profiles", i).name, refs |-> refs]]
<1>1. "profiles" \in Tables \ {"app_settings"} /\ "policy_templates" \in Tables
  BY DEF Tables
<1>2. o.id \in Ids(c, "profiles") /\ o.template \in Ids(c, "policy_templates")
  BY DEF ApplyAccepted
<1>3. RefsNumbered(refs, n)
  BY <1>1, <1>2 DEF Numbered
<1>4. TemplateApplied(c, o) = Put(c, "profiles", f)
  BY AppliedIs
<1> HIDE DEF refs
<1>5. DOMAIN f = {o.id} /\ \A i \in DOMAIN f : f[i].refs = refs
  OBVIOUS
<1> HIDE DEF f
<1>6. DOMAIN f \subseteq 1..(n["profiles"] - 1)
  BY <1>2, <1>5, GivenTables DEF Numbered
<1> QED
  BY <1>1, <1>3, <1>4, <1>5, <1>6, PutNumbered

\* The transaction of an edit, when ids have been given up to n.
LEMMA WrittenNumbered ==
  ASSUME NEW c, WellFormed(c), NEW n, Numbered(c, n), HasSettings(c), NEW o, o.do \in Edits, OpShaped(o),
         OpNumbered(o, n), WriteAccepted(c, o),
         o.do = "save" /\ o.table \in Given => SaveId(o) \in 1..(n[o.table] - 1),
         o.do = "save" /\ o.table \notin Given => SaveId(o) = o.id
  PROVE  Numbered(Written(c, o), n) /\ HasSettings(Written(c, o))
<1>1. CASE o.do = "save"
  <2>1. Written(c, o) = Saved(c, o)
    BY <1>1, WriteCases
  <2> QED
    BY <1>1, <2>1, SavedNumbered
<1>2. CASE o.do = "delete"
  <2>1. Written(c, o) = Deleted(c, o)
    BY <1>2, WriteCases
  <2> QED
    BY <1>2, <2>1, DeletedNumbered
<1>3. CASE o.do = "apply"
  <2>1. Written(c, o) = TemplateApplied(c, o) /\ ApplyAccepted(c, o)
    BY <1>3, WriteCases
  <2> QED
    BY <2>1, AppliedNumbered
<1>4. CASE o.do = "approve"
  <2> DEFINE d == Approved(c, o)
  <2>1. Written(c, o) = d
    BY <1>4, WriteCases
  <2>2. d.rows = c.rows /\ d.approved \subseteq Ids(c, "services")
    <3>1. c = [rows |-> c.rows, approved |-> c.approved] /\ c.approved \subseteq Ids(c, "services")
      BY DEF WellFormed, Numbered
    <3> QED
      BY <3>1 DEF Approved
  <2> HIDE DEF d
  <2> QED
    BY <2>1, <2>2, ApprovedNumbered
<1>5. CASE o.do = "retire"
  <2>1. Written(c, o) = Retired(c, o.id)
    BY <1>5, WriteCases
  <2> QED
    BY <2>1, RetiredNumbered
<1> QED
  BY <1>1, <1>2, <1>3, <1>4, <1>5 DEF Edits

\* The request of a moves, and ids are given.
LEMMA NumStep ==
  ASSUME NumInv, NEW a \in Admins, OnlyMoves(a),
         DOMAIN nextId' = Given, \A t \in Given : nextId'[t] \in Nat /\ nextId[t] <= nextId'[t],
         DOMAIN idmap' = Admins, \A x \in Admins \ {a} : idmap'[x] = idmap[x],
         Numbered(cfg', nextId'), HasSettings(cfg'),
         \A i \in DOMAIN snapshots' : Numbered(snapshots'[i], nextId) /\ HasSettings(snapshots'[i]),
         NumOK(pc'[a], op'[a], step'[a], acc'[a], idmap'[a], nextId')
  PROVE  NumInv'
<1> DEFINE n == nextId'
<1>1. \A t \in Given : nextId[t] \in Nat /\ n[t] \in Nat /\ nextId[t] <= n[t]
  BY DEF NumInv
<1> HIDE DEF n
<1>2. /\ \A c : Numbered(c, nextId) => Numbered(c, n)
      /\ \A o : OpNumbered(o, nextId) => OpNumbered(o, n)
      /\ \A f : MapNumbered(f, nextId) => MapNumbered(f, n)
  BY <1>1, NumberedGrows
<1>3. ASSUME NEW x \in Admins
      PROVE  NumOK(pc'[x], op'[x], step'[x], acc'[x], idmap'[x], n)
  <2>1. CASE x = a
    BY <2>1 DEF n
  <2>2. CASE x # a
    <3>1. /\ pc'[x] = pc[x] /\ op'[x] = op[x] /\ step'[x] = step[x] /\ acc'[x] = acc[x]
          /\ idmap'[x] = idmap[x]
      BY <2>2 DEF OnlyMoves
    <3>2. NumOK(pc[x], op[x], step[x], acc[x], idmap[x], nextId)
      BY DEF NumInv
    <3> QED
      BY <1>2, <3>1, <3>2, Zenon DEF NumOK
  <2> QED
    BY <2>1, <2>2
<1>4. \A t \in Given : n[t] \in Nat \ {0}
  BY <1>1 DEF NumInv, n
<1> QED
  BY <1>2, <1>3, <1>4 DEF NumInv, n

\* A request of a is numbered.
Starts(a) == \E o : OpNumbered(o, nextId) /\ \E l \in {"write", "export"} : Begin(a, o, l)

LEMMA SaveStarts ==
  ASSUME NEW a, NEW t, NEW id, NEW name, NEW refs, RefsNumbered(refs, nextId),
         t = "app_settings" => id = "defaults", Save(a, t, id, name, refs)
  PROVE  Starts(a)
<1> DEFINE o == [do |-> "save", table |-> t, id |-> id, name |-> name, refs |-> Clean(cfg, refs)]
<1>1. Begin(a, o, "write")
  BY DEF Save
<1>2. o.do = "save" /\ o.table = t /\ o.id = id /\ o.refs \subseteq refs
  BY DEF Clean
<1> HIDE DEF o
<1>3. OpNumbered(o, nextId)
  BY <1>2 DEF OpNumbered, RefsNumbered, Payloads
<1> QED
  BY <1>1, <1>3 DEF Starts

LEMMA DeleteStarts ==
  ASSUME NEW a, NEW t, t # "app_settings", NEW id, Delete(a, t, id)
  PROVE  Starts(a)
<1> DEFINE o == [do |-> "delete", table |-> t, id |-> id]
<1>1. Begin(a, o, "write")
  BY DEF Delete
<1>2. o.do = "delete" /\ o.table = t
  OBVIOUS
<1> HIDE DEF o
<1>3. OpNumbered(o, nextId)
  BY <1>2 DEF OpNumbered, Payloads
<1> QED
  BY <1>1, <1>3 DEF Starts

\* Edits that save no references and delete no settings.
LEMMA EditStarts ==
  ASSUME NEW a, NEW o, o.do \in {"apply", "approve", "retire"}, Begin(a, o, "write")
  PROVE  Starts(a)
BY DEF Starts, OpNumbered, Payloads

LEMMA FormNumbered ==
  ASSUME NEW S, RefsNumbered(S, nextId), NEW R \in Forms(S)
  PROVE  RefsNumbered(R, nextId)
BY DEF Forms, RefsNumbered

LEMMA RefNumbered ==
  /\ \A via : RefsNumbered(KeyRefs(via), nextId)
  /\ RefsNumbered(TargetRefs, nextId)
  /\ RefsNumbered({}, nextId)
  /\ \A S, T : RefsNumbered(S, nextId) /\ RefsNumbered(T, nextId) => RefsNumbered(S \cup T, nextId)
<1>1. \A to, id, via : Ref(to, id, via).to = to /\ Ref(to, id, via).id = id
  BY DEF Ref
<1>2. \A via : RefsNumbered(KeyRefs(via), nextId)
  BY <1>1 DEF KeyRefs, RefsNumbered, MapTables
<1>3. RefsNumbered(TargetRefs, nextId)
  BY <1>1 DEF TargetRefs, ProfileIds, RefsNumbered, MapTables
<1> QED
  BY <1>2, <1>3 DEF RefsNumbered

LEMMA ProfileStarts ==
  ASSUME NumInv, NEW a, ProfileRoutes(a)
  PROVE  Starts(a)
<1>0. "profiles" # "app_settings" /\ "profiles" \in Tables
  BY DEF Tables
<1>1. CASE ProfileSave(a)
  <2> DEFINE S == {Ref("bandwidth_presets", p, "preset") : p \in Presets}
                    \cup KeyRefs("blocked") \cup KeyRefs("quota")
  <2>1. RefsNumbered(S, nextId)
    <3>1. RefsNumbered({Ref("bandwidth_presets", p, "preset") : p \in Presets}, nextId)
      BY DEF RefsNumbered, MapTables, Ref
    <3> QED
      BY <3>1, RefNumbered
  <2>2. PICK id \in New("profiles"), n \in Names, R \in Forms(S) : Save(a, "profiles", id, n, R)
    BY <1>1 DEF ProfileSave
  <2> HIDE DEF S
  <2>3. RefsNumbered(R, nextId)
    BY <2>1, FormNumbered
  <2> QED
    BY <1>0, <2>2, <2>3, SaveStarts
<1>2. CASE ProfileClone(a)
  <2>1. PICK id \in Ids(cfg, "profiles"), n \in Names : Save(a, "profiles", 0, n, Row(cfg, "profiles", id).refs)
    BY <1>2 DEF ProfileClone
  <2>2. RefsNumbered(Row(cfg, "profiles", id).refs, nextId)
    BY <1>0 DEF NumInv, Numbered
  <2> QED
    BY <1>0, <2>1, <2>2, SaveStarts
<1>3. CASE ProfileDelete(a)
  BY <1>0, <1>3, DeleteStarts DEF ProfileDelete
<1> QED
  BY <1>1, <1>2, <1>3 DEF ProfileRoutes

LEMMA DeviceStarts ==
  ASSUME NumInv, NEW a, DeviceRoutes(a)
  PROVE  Starts(a)
<1>0. "device_policy" # "app_settings" /\ "device_policy" \in Tables
  BY DEF Tables
<1>1. CASE DeviceSave(a)
  <2> DEFINE S == {{}} \cup {{Ref("profiles", p, "profile")} : p \in ProfileIds}
  <2>1. PICK d \in Devices, R \in S : Save(a, "device_policy", d, d, R)
    BY <1>1 DEF DeviceSave
  <2>2. RefsNumbered(R, nextId)
    BY DEF RefsNumbered, Ref, ProfileIds, MapTables
  <2> HIDE DEF S
  <2> QED
    BY <1>0, <2>1, <2>2, SaveStarts
<1>2. CASE DeviceCopy(a)
  <2>1. PICK s \in Ids(cfg, "device_policy") :
          \E d \in Devices \ {s} : Save(a, "device_policy", d, d, Row(cfg, "device_policy", s).refs)
    BY <1>2 DEF DeviceCopy
  <2>2. RefsNumbered(Row(cfg, "device_policy", s).refs, nextId)
    BY <1>0 DEF NumInv, Numbered
  <2> QED
    BY <1>0, <2>1, <2>2, SaveStarts
<1>3. CASE DeviceRetire(a)
  <2>1. PICK d \in Devices : Begin(a, [do |-> "retire", id |-> d], "write")
    BY <1>3 DEF DeviceRetire
  <2> QED
    BY <2>1, EditStarts
<1> QED
  BY <1>1, <1>2, <1>3 DEF DeviceRoutes

LEMMA TemplateStarts ==
  ASSUME NumInv, NEW a, TemplateRoutes(a)
  PROVE  Starts(a)
<1>0. "policy_templates" # "app_settings" /\ "profiles" \in Tables
  BY DEF Tables
<1>1. CASE TemplateSave(a)
  <2>1. PICK id \in Ids(cfg, "profiles"), n \in Names :
          Begin(a, [do |-> "save", table |-> "policy_templates", id |-> 0, name |-> n,
                    refs |-> Row(cfg, "profiles", id).refs], "write")
    BY <1>1 DEF TemplateSave
  <2> DEFINE o == [do |-> "save", table |-> "policy_templates", id |-> 0, name |-> n,
                   refs |-> Row(cfg, "profiles", id).refs]
  <2>2. RefsNumbered(Row(cfg, "profiles", id).refs, nextId)
    BY <1>0 DEF NumInv, Numbered
  <2>3. o.do = "save" /\ o.table # "app_settings" /\ RefsNumbered(o.refs, nextId)
    BY <2>2
  <2>4. Begin(a, o, "write")
    BY <2>1
  <2> HIDE DEF o
  <2>5. OpNumbered(o, nextId)
    BY <2>3 DEF OpNumbered, Payloads
  <2> QED
    BY <2>4, <2>5 DEF Starts
<1>2. CASE TemplateApply(a)
  <2>1. PICK t \in Ids(cfg, "policy_templates"), p \in Ids(cfg, "profiles") :
          Begin(a, [do |-> "apply", template |-> t, id |-> p], "write")
    BY <1>2 DEF TemplateApply
  <2> QED
    BY <2>1, EditStarts
<1>3. CASE TemplateDelete(a)
  BY <1>0, <1>3, DeleteStarts DEF TemplateDelete
<1> QED
  BY <1>1, <1>2, <1>3 DEF TemplateRoutes

LEMMA KeyStarts ==
  ASSUME NEW a, PresetRoutes(a) \/ ServiceRoutes(a) \/ GroupRoutes(a)
  PROVE  Starts(a)
<1>0. "app_settings" \notin {"bandwidth_presets", "services", "aggregate_policy_groups"}
  OBVIOUS
<1>1. CASE PresetSave(a) \/ PresetDelete(a)
  BY <1>0, <1>1, SaveStarts, DeleteStarts, RefNumbered DEF PresetSave, PresetDelete
<1>2. CASE ServiceSave(a) \/ ServiceDelete(a)
  BY <1>0, <1>2, SaveStarts, DeleteStarts, RefNumbered DEF ServiceSave, ServiceDelete
<1>3. CASE ServiceApprove(a)
  <2>1. PICK k \in Ids(cfg, "services"), to \in BOOLEAN :
          Begin(a, [do |-> "approve", table |-> "services", id |-> k, to |-> to], "write")
    BY <1>3 DEF ServiceApprove
  <2> QED
    BY <2>1, EditStarts
<1>4. CASE GroupSave(a)
  <2> DEFINE S == {Ref("services", k, "member") : k \in Services}
  <2>1. RefsNumbered(S, nextId)
    BY DEF RefsNumbered, MapTables, Ref
  <2>2. PICK g \in Groups, R \in Forms(S) : Save(a, "aggregate_policy_groups", g, g, R)
    BY <1>4 DEF GroupSave
  <2> HIDE DEF S
  <2>3. RefsNumbered(R, nextId)
    BY <2>1, FormNumbered
  <2> QED
    BY <1>0, <2>2, <2>3, SaveStarts
<1>5. CASE GroupDelete(a)
  BY <1>0, <1>5, DeleteStarts DEF GroupDelete
<1> QED
  BY <1>1, <1>2, <1>3, <1>4, <1>5 DEF PresetRoutes, ServiceRoutes, GroupRoutes

LEMMA CollectionStarts ==
  ASSUME NumInv, NEW a, CollectionRoutes(a)
  PROVE  Starts(a)
<1>0. /\ "service_groups" # "app_settings" /\ "profiles" # "app_settings"
      /\ "service_groups" \in Tables /\ "profiles" \in Tables
  BY DEF Tables
<1>1. CASE CollectionSave(a)
  <2>1. PICK n \in Names, R \in Forms(KeyRefs("listed")) : Save(a, "service_groups", 0, n, R)
    BY <1>1 DEF CollectionSave
  <2>2. RefsNumbered(R, nextId)
    BY RefNumbered, FormNumbered
  <2> QED
    BY <1>0, <2>1, <2>2, SaveStarts
<1>2. CASE CollectionApply(a)
  <2>1. PICK g \in Ids(cfg, "service_groups"), p \in Ids(cfg, "profiles"), block \in BOOLEAN :
          LET refs == Row(cfg, "profiles", p).refs
              K == CollectionKeys(g)
          IN Save(a, "profiles", p, Row(cfg, "profiles", p).name,
                  IF block
                  THEN refs \cup {Ref(k[1], k[2], "blocked") : k \in K}
                  ELSE {r \in refs : r.via = "blocked" => <<r.to, r.id>> \notin Expanded(K)})
    BY <1>2 DEF CollectionApply
  <2> DEFINE refs == Row(cfg, "profiles", p).refs
             K == CollectionKeys(g)
             more == {Ref(k[1], k[2], "blocked") : k \in K}
             less == {r \in refs : r.via = "blocked" => <<r.to, r.id>> \notin Expanded(K)}
             R == IF block THEN refs \cup more ELSE less
  <2>2. RefsNumbered(refs, nextId) /\ RefsNumbered(Row(cfg, "service_groups", g).refs, nextId)
    BY <1>0 DEF NumInv, Numbered
  <2>3. RefsNumbered(more, nextId)
    BY <2>2 DEF CollectionKeys, RefsNumbered, Ref
  <2>4. RefsNumbered(less, nextId)
    BY <2>2 DEF RefsNumbered
  <2>5. Save(a, "profiles", p, Row(cfg, "profiles", p).name, R)
    BY <2>1
  <2> HIDE DEF refs, more, less
  <2>6. RefsNumbered(R, nextId)
    BY <2>2, <2>3, <2>4, RefNumbered
  <2> HIDE DEF R
  <2> QED
    BY <1>0, <2>5, <2>6, SaveStarts
<1>3. CASE CollectionDelete(a)
  BY <1>0, <1>3, DeleteStarts DEF CollectionDelete
<1> QED
  BY <1>1, <1>2, <1>3 DEF CollectionRoutes

LEMMA ScheduleStarts ==
  ASSUME NEW a, PlanRoutes(a) \/ STemplateRoutes(a) \/ ExceptionRoutes(a)
  PROVE  Starts(a)
<1>0. "app_settings" \notin {"schedule_plans", "schedule_templates", "date_exceptions"}
  OBVIOUS
<1>1. CASE PlanSave(a)
  <2>1. PICK id \in New("schedule_plans"), R \in Forms(TargetRefs \cup KeyRefs("action")) :
          Save(a, "schedule_plans", id, "label", R)
    BY <1>1 DEF PlanSave
  <2>2. RefsNumbered(R, nextId)
    BY RefNumbered, FormNumbered
  <2> QED
    BY <1>0, <2>1, <2>2, SaveStarts
<1>2. CASE PlanDelete(a)
  BY <1>0, <1>2, DeleteStarts DEF PlanDelete
<1>3. CASE STemplateSave(a) \/ STemplateDelete(a)
  BY <1>0, <1>3, SaveStarts, DeleteStarts, RefNumbered DEF STemplateSave, STemplateDelete
<1>4. CASE ExceptionSave(a)
  <2> DEFINE S == {Ref("schedule_templates", i, "template") : i \in 1..(nextId["schedule_templates"] - 1)}
  <2>1. RefsNumbered(S, nextId)
    BY DEF RefsNumbered, MapTables, Ref
  <2>2. PICK R \in Forms(TargetRefs \cup S) : Save(a, "date_exceptions", 0, "label", R)
    BY <1>4 DEF ExceptionSave
  <2> HIDE DEF S
  <2>3. RefsNumbered(R, nextId)
    BY <2>1, RefNumbered, FormNumbered
  <2> QED
    BY <1>0, <2>2, <2>3, SaveStarts
<1>5. CASE ExceptionDelete(a)
  BY <1>0, <1>5, DeleteStarts DEF ExceptionDelete
<1> QED
  BY <1>1, <1>2, <1>3, <1>4, <1>5 DEF PlanRoutes, STemplateRoutes, ExceptionRoutes

LEMMA DefaultsStart ==
  ASSUME NEW a, DefaultsSave(a)
  PROVE  Starts(a)
<1> DEFINE S == {Ref("profiles", p, "default") : p \in ProfileIds}
                  \cup {Ref("bandwidth_presets", p, "default") : p \in Presets}
<1>1. RefsNumbered(S, nextId)
  BY DEF RefsNumbered, MapTables, Ref, ProfileIds
<1>2. PICK R \in Forms(S) : Save(a, "app_settings", "defaults", "defaults", R)
  BY DEF DefaultsSave
<1> HIDE DEF S
<1>3. RefsNumbered(R, nextId)
  BY <1>1, FormNumbered
<1> QED
  BY <1>2, <1>3, SaveStarts

\* An export, and the import or the restore of a snapshot.
LEMMA OperationStarts ==
  ASSUME NumInv, RefInv, NEW a, OperationsRoutes(a)
  PROVE  Starts(a)
<1>1. CASE Snapshot(a)
  <2>1. Begin(a, [do |-> "snapshot"], "export")
    BY <1>1 DEF Snapshot
  <2>2. OpNumbered([do |-> "snapshot"], nextId)
    BY DEF OpNumbered, Payloads
  <2> QED
    BY <2>1, <2>2 DEF Starts
<1>2. CASE Import(a) \/ Restore(a)
  <2>1. PICK s \in 1..Len(snapshots), kind \in {"import", "restore"} :
          Begin(a, [do |-> kind, payload |-> snapshots[s]], "export")
    BY <1>2 DEF Import, Restore
  <2> DEFINE o == [do |-> kind, payload |-> snapshots[s]]
  <2>2. s \in DOMAIN snapshots
    BY LenProperties DEF RefInv, ShapeInv, Stored
  <2>3. Numbered(snapshots[s], nextId) /\ HasSettings(snapshots[s])
    BY <2>2 DEF NumInv
  <2>4. o.do \in {"import", "restore"} /\ o.payload = snapshots[s] /\ Begin(a, o, "export")
    BY <2>1
  <2> HIDE DEF o
  <2>5. OpNumbered(o, nextId)
    BY <2>3, <2>4 DEF OpNumbered
  <2> QED
    BY <2>4, <2>5 DEF Starts
<1> QED
  BY <1>1, <1>2 DEF OperationsRoutes

LEMMA RequestStarts ==
  ASSUME NumInv, RefInv, NEW a, Request(a)
  PROVE  Starts(a)
BY ProfileStarts, DeviceStarts, TemplateStarts, KeyStarts, CollectionStarts, ScheduleStarts, DefaultsStart,
   OperationStarts DEF Request

LEMMA RequestNumbers ==
  ASSUME NumInv, SaveInv, NEW a \in Admins, Request(a)
  PROVE  NumInv'
<1>1. PICK o : OpNumbered(o, nextId) /\ \E l \in {"write", "export"} : Begin(a, o, l)
  BY RequestStarts DEF Starts, SaveInv
<1>2. PICK l \in {"write", "export"} : Begin(a, o, l)
  BY <1>1
<1>3. /\ pc[a] = "idle" /\ pc' = [pc EXCEPT ![a] = l] /\ op' = [op EXCEPT ![a] = o]
      /\ crossed' = [crossed EXCEPT ![a] = FALSE]
      /\ UNCHANGED <<cfg, nextId, snapshots, step, acc, idmap>>
  BY <1>2 DEF Begin, Goto
<1>4. OnlyMoves(a) /\ pc'[a] = l /\ op'[a] = o
  BY <1>3 DEF OnlyMoves, SaveInv, RefInv, ShapeInv
<1>5. NumOK(pc'[a], op'[a], step'[a], acc'[a], idmap'[a], nextId')
  <2>1. Numbered(acc[a], nextId)
    BY DEF NumInv, NumOK
  <2>2. ~(step[a] > Len(ExportOrder))
    BY <1>3 DEF SaveInv, SavedOK, ExportOrder
  <2> QED
    BY <1>1, <1>3, <1>4, <2>1, <2>2 DEF NumOK
<1> QED
  BY <1>3, <1>4, <1>5, NumStep DEF NumInv

LEMMA WriteNumbers ==
  ASSUME NumInv, SaveInv, NEW a \in Admins, Write(a)
  PROVE  NumInv'
<1> DEFINE fresh == op[a].do = "save" /\ op[a].table \notin Keyed /\ op[a].id = 0
<1>1. /\ pc[a] = "write" /\ WriteAccepted(cfg, op[a]) /\ cfg' = Written(cfg, op[a])
      /\ nextId' = IF fresh THEN [nextId EXCEPT ![op[a].table] = @ + 1] ELSE nextId
      /\ UNCHANGED <<snapshots, step, acc, idmap>>
      /\ \/ Goto(a, "publish") /\ op' = op
         \/ Goto(a, "idle") /\ op' = [op EXCEPT ![a] = NoOp]
  BY DEF Write
<1>2. /\ OpShaped(op[a]) /\ op[a].do \in Edits /\ OpNumbered(op[a], nextId) /\ Numbered(acc[a], nextId)
      /\ WellFormed(cfg) /\ Numbered(cfg, nextId) /\ HasSettings(cfg)
  BY <1>1 DEF SaveInv, RefInv, ShapeInv, RequestOK, NumInv, NumOK
<1>3. OnlyMoves(a) /\ pc'[a] \in {"publish", "idle"} /\ op'[a] \in {op[a], NoOp} /\ acc'[a] = acc[a]
  <2>1. DOMAIN crossed' = Admins
    BY DEF Write, Overtake
  <2> QED
    BY <1>1, <2>1 DEF OnlyMoves, Goto, SaveInv, RefInv, ShapeInv
<1>4. op[a].do = "save" => op[a].table \in Tables
  BY <1>2 DEF OpShaped
<1>5. /\ DOMAIN nextId' = Given
      /\ \A t \in Given : nextId[t] \in Nat \ {0} /\ nextId'[t] \in Nat /\ nextId[t] <= nextId'[t]
      /\ fresh => op[a].table \in Given /\ nextId'[op[a].table] = nextId[op[a].table] + 1
  <2>1. DOMAIN nextId = Given /\ \A t \in Given : nextId[t] \in Nat \ {0}
    BY DEF NumInv
  <2>2. fresh => op[a].table \in Given
    BY <1>4 DEF Given
  <2> HIDE DEF fresh
  <2> QED
    BY <1>1, <2>1, <2>2
<1>6. op[a].do = "save" /\ op[a].table \in Given => SaveId(op[a]) \in 1..(nextId'[op[a].table] - 1)
  <2> SUFFICES ASSUME op[a].do = "save", op[a].table \in Given
               PROVE  SaveId(op[a]) \in 1..(nextId'[op[a].table] - 1)
    OBVIOUS
  <2> DEFINE t == op[a].table
  <2>1. t \notin Keyed
    BY DEF Given
  <2>2. CASE op[a].id = 0
    <3>1. SaveId(op[a]) = nextId[t]
      BY <2>1, <2>2 DEF SaveId
    <3> QED
      BY <1>5, <2>1, <2>2, <3>1
  <2>3. CASE op[a].id # 0
    <3>1. SaveId(op[a]) = op[a].id
      BY <2>3 DEF SaveId
    <3>2. SaveAccepted(cfg, op[a])
      BY <1>1, Zenon DEF WriteAccepted
    <3>3. op[a].id \in Ids(cfg, t)
      BY <2>1, <2>3, <3>2 DEF SaveAccepted
    <3>4. op[a].id \in 1..(nextId[t] - 1)
      BY <1>2, <3>3 DEF Numbered
    <3> QED
      BY <1>5, <3>1, <3>4
  <2> QED
    BY <2>2, <2>3
<1>7. op[a].do = "save" /\ op[a].table \notin Given => SaveId(op[a]) = op[a].id
  BY <1>4 DEF SaveId, Given
<1> HIDE DEF fresh
<1> DEFINE n == nextId'
<1>8. \A t \in Given : nextId[t] \in Nat /\ n[t] \in Nat /\ nextId[t] <= n[t]
  BY <1>5
<1>9. \A t : op[a].table = t /\ op[a].do = "save" /\ t \in Given => SaveId(op[a]) \in 1..(n[t] - 1)
  BY <1>6
<1> HIDE DEF n
<1>10. Numbered(cfg, n) /\ OpNumbered(op[a], n) /\ Numbered(acc[a], n)
  BY <1>2, <1>8, NumberedGrows
<1>11. Numbered(Written(cfg, op[a]), n) /\ HasSettings(Written(cfg, op[a]))
  BY <1>1, <1>2, <1>7, <1>9, <1>10, WrittenNumbered
<1>12. OpNumbered(op'[a], n)
  BY <1>3, <1>10 DEF OpNumbered, NoOp, Payloads
<1>13. NumOK(pc'[a], op'[a], step'[a], acc'[a], idmap'[a], n)
  BY <1>3, <1>10, <1>12 DEF NumOK
<1> QED
  BY <1>1, <1>3, <1>5, <1>11, <1>13, NumStep DEF NumInv, n

LEMMA QuietNumbers ==
  ASSUME NumInv, SaveInv, NEW a \in Admins,
         Refused(a) \/ PublishRead(a) \/ PublishReplace(a) \/ Preflight(a) \/ Imported(a) \/ Failed(a) \/ Verify(a)
  PROVE  NumInv'
<1>1. /\ UNCHANGED <<cfg, nextId, snapshots, idmap, crossed>>
      /\ acc' = acc \/ acc' = [acc EXCEPT ![a] = NoConfig]
      /\ \/ op' = op
         \/ op' = [op EXCEPT ![a] = NoOp]
         \/ op' = [op EXCEPT ![a] = [do |-> "replace", listing |-> Published(cfg)]]
      /\ \/ step' = step /\ pc[a] \notin {"export", "section", "reread"}
         \/ step' = [step EXCEPT ![a] = 1]
  BY DEF Refused, PublishRead, PublishReplace, Preflight, Imported, Failed, Verify
<1>2. PICK l : Goto(a, l) /\ l \in {"idle", "replace", "wipe", "reread", "publish", "failed"}
  BY DEF Refused, PublishRead, PublishReplace, Preflight, Imported, Failed, Verify
<1>3. /\ OnlyMoves(a) /\ pc'[a] = l /\ acc'[a] \in {acc[a], NoConfig}
      /\ op'[a] \in {op[a], NoOp, [do |-> "replace", listing |-> Published(cfg)]}
      /\ \/ step'[a] = step[a] /\ pc[a] \notin {"export", "section", "reread"}
         \/ step'[a] = 1
  BY <1>1, <1>2 DEF OnlyMoves, Goto, SaveInv, RefInv, ShapeInv
<1>4. step'[a] = 1
  BY <1>3 DEF SaveInv, SavedOK
<1>5. Numbered(acc[a], nextId) /\ OpNumbered(op[a], nextId) /\ Numbered(NoConfig, nextId)
  BY NothingNumbered DEF NumInv, NumOK
<1>6. OpNumbered(op'[a], nextId)
  BY <1>3, <1>5 DEF OpNumbered, NoOp, Payloads
<1>7. ~(1 > Len(ExportOrder))
  BY DEF ExportOrder
<1>8. NumOK(pc'[a], op'[a], step'[a], acc'[a], idmap'[a], nextId)
  BY <1>2, <1>3, <1>4, <1>5, <1>6, <1>7 DEF NumOK
<1> QED
  BY <1>1, <1>3, <1>8, NumStep DEF NumInv

LEMMA ExportNumbers ==
  ASSUME NumInv, SaveInv, NEW a \in Admins, ExportSection(a)
  PROVE  NumInv'
<1>1. PICK last \in Nat :
           /\ step[a] <= last
           /\ acc' = [acc EXCEPT ![a] = Read(cfg, acc[a], {ExportOrder[i] : i \in step[a]..last})]
           /\ step' = [step EXCEPT ![a] = last + 1]
  BY ExportEffect DEF SaveInv, RefInv, ShapeInv, RequestOK
<1>2. /\ UNCHANGED <<cfg, nextId, idmap, op, pc, snapshots, crossed>>
      /\ pc[a] \in {"export", "reread"} /\ step[a] <= Len(ExportOrder)
  BY DEF ExportSection
<1> DEFINE read == {ExportOrder[i] : i \in step[a]..last}
           new == Read(cfg, acc[a], read)
<1>3. OnlyMoves(a) /\ acc'[a] = new /\ step'[a] = last + 1
  BY <1>1, <1>2 DEF OnlyMoves, SaveInv, RefInv, ShapeInv
<1>4. last + 1 > Len(ExportOrder) => "app_settings" \in read
  <2>1. Len(ExportOrder) = 11 /\ ExportOrder[11] = "app_settings" /\ step[a] \in Nat
    BY DEF ExportOrder, SaveInv, RefInv, ShapeInv, RequestOK
  <2> QED
    BY <1>1, <1>2, <2>1
<1> HIDE DEF read
<1>5. Numbered(acc[a], nextId) /\ OpNumbered(op[a], nextId) /\ Numbered(cfg, nextId) /\ HasSettings(cfg)
  BY DEF NumInv, NumOK
<1>6. /\ \A t \in Tables : \/ Ids(new, t) = Ids(cfg, t) /\ \A i : Row(new, t, i) = Row(cfg, t, i)
                           \/ Ids(new, t) = Ids(acc[a], t) /\ \A i : Row(new, t, i) = Row(acc[a], t, i)
      /\ Ids(new, "services") = Ids(IF "services" \in read THEN cfg ELSE acc[a], "services")
      /\ new.approved = (IF "services" \in read THEN cfg ELSE acc[a]).approved
      /\ "app_settings" \in read => Ids(new, "app_settings") = Ids(cfg, "app_settings")
  BY DEF Read, Ids, Row, Tables
<1> HIDE DEF new
<1>7. Numbered(new, nextId)
  <2>1. \A t \in Given : Ids(new, t) \subseteq 1..(nextId[t] - 1)
    BY <1>5, <1>6, GivenTables DEF Numbered
  <2>2. \A t \in Tables : \A i \in Ids(new, t) : RefsNumbered(Row(new, t, i).refs, nextId)
    BY <1>5, <1>6 DEF Numbered
  <2>3. Ids(new, "app_settings") \subseteq {"defaults"}
    BY <1>5, <1>6, GivenTables DEF Numbered
  <2>4. new.approved \subseteq Ids(new, "services")
    BY <1>5, <1>6 DEF Numbered
  <2> QED
    BY <2>1, <2>2, <2>3, <2>4 DEF Numbered
<1>8. "app_settings" \in read => HasSettings(new)
  BY <1>5, <1>6 DEF HasSettings
<1>9. NumOK(pc'[a], op'[a], step'[a], acc'[a], idmap'[a], nextId)
  BY <1>2, <1>3, <1>4, <1>5, <1>7, <1>8 DEF NumOK
<1> QED
  BY <1>2, <1>3, <1>9, NumStep DEF NumInv

LEMMA SnapshotNumbers ==
  ASSUME NumInv, SaveInv, NEW a \in Admins, SnapshotInsert(a)
  PROVE  NumInv'
<1>1. /\ pc[a] = "export" /\ step[a] > Len(ExportOrder) /\ UNCHANGED <<cfg, nextId, idmap, crossed>>
      /\ snapshots' = LastOf(Append(snapshots, acc[a]), Retention)
      /\ acc' = [acc EXCEPT ![a] = NoConfig] /\ step' = [step EXCEPT ![a] = 1]
      /\ \/ Goto(a, "idle") /\ op' = [op EXCEPT ![a] = NoOp]
         \/ Goto(a, "preflight") /\ op' = op
  BY DEF SnapshotInsert
<1>2. /\ OnlyMoves(a) /\ step'[a] = 1 /\ acc'[a] = NoConfig
      /\ pc'[a] \in {"idle", "preflight"} /\ op'[a] \in {op[a], NoOp}
  BY <1>1 DEF OnlyMoves, Goto, SaveInv, RefInv, ShapeInv
<1>3. \A i \in DOMAIN snapshots' :
        snapshots'[i] = acc[a] \/ \E j \in DOMAIN snapshots : snapshots'[i] = snapshots[j]
  <2>1. Stored(snapshots) /\ WellFormed(acc[a])
    BY DEF SaveInv, RefInv, ShapeInv
  <2> QED
    BY <1>1, <2>1, StoredAppend
<1>4. Numbered(acc[a], nextId) /\ HasSettings(acc[a]) /\ OpNumbered(op[a], nextId) /\ Numbered(NoConfig, nextId)
  BY <1>1, NothingNumbered DEF NumInv, NumOK
<1>5. OpNumbered(op'[a], nextId)
  BY <1>2, <1>4 DEF OpNumbered, NoOp, Payloads
<1>6. NumOK(pc'[a], op'[a], step'[a], acc'[a], idmap'[a], nextId)
  BY <1>2, <1>4, <1>5 DEF NumOK
<1>7. \A i \in DOMAIN snapshots' : Numbered(snapshots'[i], nextId) /\ HasSettings(snapshots'[i])
  BY <1>3, <1>4 DEF NumInv
<1> QED
  BY <1>1, <1>2, <1>6, <1>7, NumStep DEF NumInv

LEMMA WipeNumbers ==
  ASSUME NumInv, SaveInv, NEW a \in Admins, Wipe(a)
  PROVE  NumInv'
<1>1. /\ pc[a] = "wipe" /\ Goto(a, "section")
      /\ idmap' = [idmap EXCEPT ![a] = [t \in MapTables |-> Empty]]
      /\ UNCHANGED <<nextId, snapshots, op, step, acc>>
  BY DEF Wipe, MapTables
<1>2. OnlyMoves(a) /\ pc'[a] = "section" /\ idmap'[a] = [t \in MapTables |-> Empty]
  <2>1. DOMAIN crossed' = Admins
    BY DEF Wipe, Overtake
  <2> QED
    BY <1>1, <2>1 DEF OnlyMoves, Goto, SaveInv, RefInv, ShapeInv, NumInv
<1>3. Numbered(cfg', nextId) /\ HasSettings(cfg')
  <2>1. /\ \A t \in Tables : Ids(cfg', t) \subseteq Ids(cfg, t)
        /\ \A t \in Tables : \A i \in Ids(cfg', t) : Row(cfg', t, i) = Row(cfg, t, i)
        /\ Ids(cfg', "app_settings") = Ids(cfg, "app_settings") /\ cfg'.approved = {}
    BY WipeIs DEF SaveInv
  <2>2. Numbered(cfg, nextId) /\ HasSettings(cfg)
    BY DEF NumInv
  <2>3. \A t \in Given : Ids(cfg', t) \subseteq 1..(nextId[t] - 1)
    BY <2>1, <2>2, GivenTables DEF Numbered
  <2>4. \A t \in Tables : \A i \in Ids(cfg', t) : RefsNumbered(Row(cfg', t, i).refs, nextId)
    BY <2>1, <2>2 DEF Numbered
  <2> QED
    BY <2>1, <2>2, <2>3, <2>4 DEF Numbered, HasSettings
<1>4. MapNumbered(idmap'[a], nextId)
  BY <1>2 DEF MapNumbered, Empty
<1>5. Numbered(acc[a], nextId) /\ OpNumbered(op[a], nextId)
  BY DEF NumInv, NumOK
<1>6. NumOK(pc'[a], op'[a], step'[a], acc'[a], idmap'[a], nextId)
  BY <1>1, <1>2, <1>4, <1>5 DEF NumOK
<1> QED
  BY <1>1, <1>2, <1>3, <1>6, NumStep DEF NumInv

\* The ids that a section gives: those of the payload, or new ones in their order.
LEMMA NewIds ==
  ASSUME NEW t \in Tables, t \in Given => nextId[t] \in Nat \ {0},
         NEW n \in Nat, NEW done, t \in Given => done \subseteq 1..(n - 1)
  PROVE  /\ t \notin Given => \A i \in done : NewId(t, done, i) = i
         /\ t \in Given => /\ Cardinality(done) \in Nat
                           /\ \A i \in done :
                                NewId(t, done, i) \in nextId[t]..(nextId[t] + Cardinality(done) - 1)
         /\ \A i, j \in done : NewId(t, done, i) = NewId(t, done, j) => i = j
<1>1. CASE t \notin Given
  BY <1>1 DEF NewId, Given
<1>2. CASE t \in Given
  <2> DEFINE below(i) == {j \in done : j < i}
  <2>1. \A i : NewId(t, done, i) = nextId[t] + Cardinality(below(i))
    BY <1>2 DEF NewId, Given
  <2>2. IsFiniteSet(done) /\ Cardinality(done) \in Nat
    <3>1. IsFiniteSet(1..(n - 1))
      BY FS_Interval
    <3> QED
      BY <1>2, <3>1, FS_Subset, FS_CardinalityType
  <2>3. ASSUME NEW i \in done
        PROVE  /\ Cardinality(below(i)) \in Nat /\ Cardinality(below(i)) < Cardinality(done)
               /\ IsFiniteSet(below(i))
    <3>1. below(i) \in SUBSET done /\ i \notin below(i)
      BY <1>2
    <3> HIDE DEF below
    <3>2. below(i) # done
      BY <2>3, <3>1
    <3>3. IsFiniteSet(below(i)) /\ Cardinality(below(i)) <= Cardinality(done) /\ Cardinality(below(i)) # Cardinality(done)
      BY <2>2, <3>1, <3>2, FS_Subset
    <3>4. Cardinality(below(i)) \in Nat
      BY <3>3, FS_CardinalityType
    <3> QED
      BY <2>2, <3>3, <3>4
  <2>4. ASSUME NEW i \in done, NEW j \in done, i < j
        PROVE  Cardinality(below(i)) < Cardinality(below(j))
    <3>1. below(i) \in SUBSET below(j) /\ i \in below(j) /\ i \notin below(i)
      <4>1. \A k \in done : k \in Nat
        BY <1>2
      <4>2. \A k \in done : k < i => k < j
        BY <2>4, <4>1
      <4>3. ~(i < i)
        BY <4>1
      <4> QED
        BY <2>4, <4>2, <4>3, Zenon
    <3>2. /\ IsFiniteSet(below(j)) /\ Cardinality(below(i)) \in Nat /\ Cardinality(below(j)) \in Nat
      BY <2>3
    <3> HIDE DEF below
    <3>3. Cardinality(below(i)) <= Cardinality(below(j)) /\ Cardinality(below(i)) # Cardinality(below(j))
      BY <3>1, <3>2, FS_Subset
    <3> QED
      BY <3>2, <3>3
  <2> HIDE DEF below
  <2>5. \A i \in done : NewId(t, done, i) \in nextId[t]..(nextId[t] + Cardinality(done) - 1)
    <3> SUFFICES ASSUME NEW i \in done
                 PROVE  NewId(t, done, i) \in nextId[t]..(nextId[t] + Cardinality(done) - 1)
      OBVIOUS
    <3>1. NewId(t, done, i) = nextId[t] + Cardinality(below(i)) /\ nextId[t] \in Nat
      BY <1>2, <2>1
    <3>2. Cardinality(below(i)) \in Nat /\ Cardinality(below(i)) < Cardinality(done) /\ Cardinality(done) \in Nat
      BY <2>2, <2>3
    <3> QED
      BY <3>1, <3>2
  <2>6. \A i, j \in done : NewId(t, done, i) = NewId(t, done, j) => i = j
    <3> SUFFICES ASSUME NEW i \in done, NEW j \in done, i # j
                 PROVE  NewId(t, done, i) # NewId(t, done, j)
      OBVIOUS
    <3>1. i < j \/ j < i
      <4>1. i \in Nat /\ j \in Nat
        BY <1>2
      <4> QED
        BY <4>1
    <3>2. Cardinality(below(i)) \in Nat /\ Cardinality(below(j)) \in Nat /\ Cardinality(below(i)) # Cardinality(below(j))
      BY <2>3, <2>4, <3>1
    <3>3. /\ NewId(t, done, i) = nextId[t] + Cardinality(below(i)) /\ nextId[t] \in Nat
          /\ NewId(t, done, j) = nextId[t] + Cardinality(below(j))
      BY <1>2, <2>1
    <3> QED
      BY <3>2, <3>3
  <2> QED
    BY <1>2, <2>2, <2>5, <2>6
<1> QED
  BY <1>1, <1>2

\* A row of the payload as a section writes it.
NewRow(a, t, row) == [name |-> row.name, refs |-> Clean(cfg, Mapped(a, t, row.refs))]

\* The rows f written of those of p that are done, with these approvals.
RowsOf(a, t, p, done, approvals, f) ==
  /\ DOMAIN f = {NewId(t, done, i) : i \in done}
  /\ \A i \in done : f[NewId(t, done, i)] = NewRow(a, t, Row(p, t, i))
  /\ \A i \in done : RowFits(a, t, Row(p, t, i))
  /\ cfg'.rows = Put(cfg, t, f).rows
  /\ cfg'.approved = IF t = "services" THEN cfg.approved \cup approvals ELSE cfg.approved
  /\ nextId' = IF t \in Given THEN [nextId EXCEPT ![t] = @ + Cardinality(done)] ELSE nextId

\* The rows f that a section writes of done, and what else it does.
SectionOf(a, t, p, done, f) ==
  /\ RowsOf(a, t, p, done, p.approved \cap done, f)
  /\ (\A i \in Ids(p, t) : RowFits(a, t, Row(p, t, i))) => done = Ids(p, t)
  /\ idmap' = IF t \in MapTables THEN [idmap EXCEPT ![a][t] = [i \in done |-> NewId(t, done, i)]] ELSE idmap
  /\ done = Ids(p, t) => step' = [step EXCEPT ![a] = @ + 1] /\ pc' = pc
  /\ done # Ids(p, t) => step' = [step EXCEPT ![a] = 1] /\ Goto(a, "failed")

LEMMA RecreateIs ==
  ASSUME NumInv, SaveInv, NEW a \in Admins, pc[a] = "section", NEW t \in Tables,
         NEW p, p = op[a].payload, NEW done \in SUBSET Fitting(a, t), NEW approvals,
         Recreate(a, t, done, approvals)
  PROVE  done \subseteq Ids(p, t) /\ \E f : RowsOf(a, t, p, done, approvals, f)
<1> DEFINE rows == op[a].payload.rows[t]
           f == [j \in {NewId(t, done, i) : i \in done} |->
                   LET i == CHOOSE i \in done : NewId(t, done, i) = j
                   IN [name |-> rows[i].name, refs |-> Clean(cfg, Mapped(a, t, rows[i].refs))]]
<1>1. /\ cfg' = [Put(cfg, t, f) EXCEPT !.approved = IF t = "services" THEN @ \cup approvals ELSE @]
      /\ nextId' = IF t \in Keyed THEN nextId ELSE [nextId EXCEPT ![t] = @ + Cardinality(done)]
  BY Zenon DEF Recreate
<1>2. t \in Keyed <=> t \notin Given
  BY DEF Given
<1>3. DOMAIN rows = Ids(p, t) /\ \A i : rows[i] = Row(p, t, i)
  BY DEF Ids, Row
<1>4. done \in SUBSET Ids(p, t) /\ \A i \in done : RowFits(a, t, Row(p, t, i))
  BY <1>3 DEF Fitting
<1>5. DOMAIN f = {NewId(t, done, i) : i \in done}
  OBVIOUS
<1>6. /\ WellFormed(cfg)
      /\ t \in Given => nextId[t] \in Nat \ {0} /\ Ids(p, t) \subseteq 1..(nextId[t] - 1)
  <2>1. WellFormed(cfg) /\ op[a].do \in Payloads
    BY DEF SaveInv, RefInv, ShapeInv, RequestOK
  <2>2. Numbered(p, nextId)
    BY <2>1 DEF NumInv, NumOK, OpNumbered
  <2>3. t \in Given => nextId[t] \in Nat \ {0}
    BY DEF NumInv
  <2> QED
    BY <2>1, <2>2, <2>3 DEF Numbered
<1> HIDE DEF rows
<1>7. \A i, j \in done : NewId(t, done, i) = NewId(t, done, j) => i = j
  <2>1. CASE t \in Given
    <3>1. nextId[t] \in Nat \ {0} /\ done \subseteq 1..(nextId[t] - 1)
      BY <1>4, <1>6, <2>1
    <3>2. nextId[t] \in Nat
      BY <3>1
    <3> QED
      BY <2>1, <3>1, <3>2, NewIds
  <2>2. CASE t \notin Given
    <3>1. 0 \in Nat
      OBVIOUS
    <3> QED
      BY <2>2, <3>1, NewIds
  <2> QED
    BY <2>1, <2>2
<1>8. ASSUME NEW i \in done
      PROVE  f[NewId(t, done, i)] = NewRow(a, t, Row(p, t, i))
  <2> DEFINE x == NewId(t, done, i)
             k == CHOOSE k \in done : NewId(t, done, k) = x
  <2>1. x \in {NewId(t, done, j) : j \in done}
    OBVIOUS
  <2>2. f[x] = [name |-> rows[k].name, refs |-> Clean(cfg, Mapped(a, t, rows[k].refs))]
    BY <2>1
  <2>3. k \in done /\ NewId(t, done, k) = x
    OBVIOUS
  <2>4. k = i
    BY <1>7, <2>3
  <2> HIDE DEF k, f
  <2> QED
    BY <1>3, <2>2, <2>4 DEF NewRow
<1> HIDE DEF f
<1>9. /\ cfg'.rows = Put(cfg, t, f).rows
      /\ cfg'.approved = IF t = "services" THEN cfg.approved \cup approvals ELSE cfg.approved
  <2>1. \E g : Put(cfg, t, f) = With(cfg, t, g)
    BY <1>6, PutIsWith
  <2>2. PICK g : Put(cfg, t, f) = With(cfg, t, g)
    BY <2>1
  <2>3. With(cfg, t, g) = [rows |-> With(cfg, t, g).rows, approved |-> cfg.approved]
    BY DEF With
  <2> DEFINE d == Put(cfg, t, f)
             w == With(cfg, t, g).rows
             new == IF t = "services" THEN cfg.approved \cup approvals ELSE cfg.approved
  <2>4. d = [rows |-> w, approved |-> cfg.approved]
    BY <2>2, <2>3
  <2>5. cfg' = [d EXCEPT !.approved = IF t = "services" THEN @ \cup approvals ELSE @]
    BY <1>1
  <2> HIDE DEF d, w
  <2>6. [d EXCEPT !.approved = IF t = "services" THEN @ \cup approvals ELSE @] = [rows |-> w, approved |-> new]
    <3>1. [d EXCEPT !.approved = IF t = "services" THEN @ \cup approvals ELSE @]
            = [d EXCEPT !.approved = IF t = "services" THEN d.approved \cup approvals ELSE d.approved]
      OBVIOUS
    <3>2. d.approved = cfg.approved
      BY <2>4
    <3>3. [d EXCEPT !.approved = IF t = "services" THEN @ \cup approvals ELSE @] = [d EXCEPT !.approved = new]
      BY <3>1, <3>2
    <3> HIDE DEF new
    <3>4. [d EXCEPT !.approved = new] = [rows |-> w, approved |-> new]
      BY <2>4
    <3> QED
      BY <3>3, <3>4
  <2>7. cfg' = [rows |-> w, approved |-> new] /\ d.rows = w
    BY <2>4, <2>5, <2>6
  <2> QED
    BY <2>7 DEF d
<1>10. nextId' = IF t \in Given THEN [nextId EXCEPT ![t] = @ + Cardinality(done)] ELSE nextId
  BY <1>1, <1>2
<1>11. RowsOf(a, t, p, done, approvals, f)
  BY <1>4, <1>5, <1>8, <1>9, <1>10, Zenon DEF RowsOf
<1> QED
  BY <1>4, <1>11

LEMMA SectionIs ==
  ASSUME NumInv, SaveInv, NEW a \in Admins, Section(a)
  PROVE  LET t == SectionOrder[step[a]]
             p == op[a].payload
         IN \E done \in SUBSET Ids(p, t) : \E f : SectionOf(a, t, p, done, f)
<1> DEFINE t == SectionOrder[step[a]]
           p == op[a].payload
           all == DOMAIN p.rows[t]
<1>1. pc[a] = "section" /\ step[a] <= Len(SectionOrder)
  BY Zenon DEF Section
<1>2. t \in Tables
  BY <1>1, SectionTable DEF SaveInv
<1>3. PICK done \in SUBSET Fitting(a, t) :
              /\ Recreate(a, t, done, p.approved \cap done)
              /\ Fitting(a, t) = all => done = all
              /\ idmap' = IF t \in {"profiles", "schedule_templates"}
                          THEN [idmap EXCEPT ![a][t] = [i \in done |-> NewId(t, done, i)]]
                          ELSE idmap
              /\ done = all => step' = [step EXCEPT ![a] = @ + 1] /\ pc' = pc
              /\ done # all => step' = [step EXCEPT ![a] = 1] /\ Goto(a, "failed")
  BY SectionParts, Zenon
<1>4. all = Ids(p, t)
  BY DEF Ids
<1>5. (\A i \in Ids(p, t) : RowFits(a, t, Row(p, t, i))) => Fitting(a, t) = all
  BY DEF Fitting, Ids, Row
<1> HIDE DEF t, all
<1> DEFINE approvals == p.approved \cap done
<1>6. done \subseteq Ids(p, t) /\ \E f : RowsOf(a, t, p, done, approvals, f)
  <2>1. Recreate(a, t, done, approvals)
    BY <1>3
  <2> HIDE DEF approvals, p
  <2> QED
    BY <1>1, <1>2, <2>1, RecreateIs DEF p
<1>7. PICK f : RowsOf(a, t, p, done, approvals, f)
  BY <1>6
<1>8. SectionOf(a, t, p, done, f)
  BY <1>3, <1>4, <1>5, <1>7, Zenon DEF SectionOf, MapTables
<1> QED
  BY <1>6, <1>8 DEF t

\* What a section does to the configuration: table t is f over what it was, and
\* empty before, f.
LEMMA RowsWritten ==
  ASSUME RefInv, NEW t \in Tables, NEW a, NEW p, NEW done, NEW approvals, NEW f,
         RowsOf(a, t, p, done, approvals, f)
  PROVE  /\ \A u \in Tables \ {t} : Ids(cfg', u) = Ids(cfg, u) /\ \A i : Row(cfg', u, i) = Row(cfg, u, i)
         /\ Ids(cfg', t) = DOMAIN f \cup Ids(cfg, t)
         /\ \A i \in Ids(cfg', t) : Row(cfg', t, i) = IF i \in DOMAIN f THEN f[i] ELSE Row(cfg, t, i)
<1> DEFINE g == [i \in DOMAIN f \cup Ids(cfg, t) |-> IF i \in DOMAIN f THEN f[i] ELSE Row(cfg, t, i)]
<1>1. cfg'.rows = With(cfg, t, g).rows
  <2>1. cfg'.rows = Put(cfg, t, f).rows
    BY Zenon DEF RowsOf
  <2>2. WellFormed(cfg)
    BY DEF RefInv, ShapeInv
  <2>3. Put(cfg, t, f) = With(cfg, t, g)
    BY <2>2, PutIsWith
  <2> QED
    BY <2>1, <2>3
<1>2. DOMAIN g = DOMAIN f \cup Ids(cfg, t) /\ \A i \in DOMAIN g : g[i] = IF i \in DOMAIN f THEN f[i] ELSE Row(cfg, t, i)
  OBVIOUS
<1> HIDE DEF g
<1>3. \A u \in Tables : cfg'.rows[u] = IF u = t THEN g ELSE cfg.rows[u]
  BY <1>1 DEF With
<1> QED
  BY <1>2, <1>3 DEF Ids, Row

LEMMA MappedNumbered ==
  ASSUME NEW a, NEW t, NEW refs, NEW n, RefsNumbered(refs, n), MapNumbered(idmap[a], n),
         \A r \in refs : r = Ref(r.to, r.id, r.via)
  PROVE  RefsNumbered(Mapped(a, t, refs), n) /\ RefsNumbered(Clean(cfg, Mapped(a, t, refs)), n)
<1>1. ASSUME NEW r \in refs,
             NEW q, q = IF r.to \in {"profiles", "schedule_templates"} /\ r.id \in DOMAIN idmap[a][r.to]
                        THEN [r EXCEPT !.id = idmap[a][r.to][@]] ELSE r,
             q.to \in MapTables
      PROVE  q.id \in 1..(n[q.to] - 1)
  <2>1. CASE r.to \in MapTables /\ r.id \in DOMAIN idmap[a][r.to]
    <3>1. q = [r EXCEPT !.id = idmap[a][r.to][r.id]]
      BY <1>1, <2>1 DEF MapTables
    <3>2. q.to = r.to /\ q.id = idmap[a][r.to][r.id]
      BY <3>1, <1>1 DEF Ref
    <3> QED
      BY <2>1, <3>2 DEF MapNumbered
  <2>2. CASE ~(r.to \in MapTables /\ r.id \in DOMAIN idmap[a][r.to])
    <3>1. q = r
      BY <1>1, <2>2, Zenon DEF MapTables
    <3> QED
      BY <1>1, <3>1 DEF RefsNumbered
  <2> QED
    BY <2>1, <2>2
<1>2. RefsNumbered(Mapped(a, t, refs), n)
  BY <1>1, Zenon DEF Mapped, RefsNumbered
<1> QED
  BY <1>2 DEF Clean, RefsNumbered

\* What is written keeps to the ids that have been given, and has them from then on.
LEMMA RowsNumber ==
  ASSUME NumInv, SaveInv, NEW a \in Admins, pc[a] = "section", NEW t \in Tables,
         NEW p, p = op[a].payload, NEW done \in SUBSET Ids(p, t),
         NEW approvals \in SUBSET done, NEW f, RowsOf(a, t, p, done, approvals, f)
  PROVE  /\ DOMAIN nextId' = Given
         /\ \A u \in Given : nextId[u] \in Nat \ {0} /\ nextId'[u] \in Nat \ {0} /\ nextId[u] <= nextId'[u]
         /\ Numbered(cfg', nextId') /\ HasSettings(cfg')
         /\ OpNumbered(op[a], nextId') /\ Numbered(acc[a], nextId') /\ MapNumbered(idmap[a], nextId')
         /\ t \in Given => \A i \in done : NewId(t, done, i) \in 1..(nextId'[t] - 1)
<1>1. RowsOf(a, t, p, done, approvals, f)
  OBVIOUS
<1>2. /\ WellFormed(cfg) /\ WellFormed(p) /\ op[a].do \in Payloads
      /\ Numbered(p, nextId) /\ HasSettings(p) /\ Numbered(acc[a], nextId) /\ OpNumbered(op[a], nextId)
      /\ MapNumbered(idmap[a], nextId) /\ DOMAIN idmap = Admins
  <2>1. WellFormed(cfg) /\ op[a].do \in Payloads /\ OpShaped(op[a])
    BY DEF SaveInv, RefInv, ShapeInv, RequestOK
  <2>2. NumOK(pc[a], op[a], step[a], acc[a], idmap[a], nextId) /\ DOMAIN idmap = Admins
    BY DEF NumInv
  <2> QED
    BY <2>1, <2>2 DEF NumOK, OpNumbered, OpShaped
<1>3. t \in Given => /\ nextId[t] \in Nat \ {0} /\ Cardinality(done) \in Nat /\ done \subseteq 1..(nextId[t] - 1)
                     /\ \A i \in done : NewId(t, done, i) \in nextId[t]..(nextId[t] + Cardinality(done) - 1)
  <2> SUFFICES ASSUME t \in Given
               PROVE  /\ nextId[t] \in Nat \ {0} /\ Cardinality(done) \in Nat /\ done \subseteq 1..(nextId[t] - 1)
                      /\ \A i \in done : NewId(t, done, i) \in nextId[t]..(nextId[t] + Cardinality(done) - 1)
    OBVIOUS
  <2>1. nextId[t] \in Nat \ {0} /\ nextId[t] \in Nat /\ done \subseteq 1..(nextId[t] - 1)
    BY <1>2 DEF NumInv, Numbered
  <2> QED
    BY <2>1, NewIds
<1>4. t \notin Given => \A i \in done : NewId(t, done, i) = i
  <2>1. 0 \in Nat
    OBVIOUS
  <2> QED
    BY <2>1, NewIds
<1>5. /\ DOMAIN nextId' = Given
      /\ \A u \in Given : nextId[u] \in Nat /\ nextId'[u] \in Nat /\ nextId[u] <= nextId'[u]
      /\ t \in Given => nextId'[t] = nextId[t] + Cardinality(done)
  <2>1. DOMAIN nextId = Given /\ \A u \in Given : nextId[u] \in Nat \ {0}
    BY DEF NumInv
  <2>2. nextId' = IF t \in Given THEN [nextId EXCEPT ![t] = @ + Cardinality(done)] ELSE nextId
    BY <1>1 DEF RowsOf
  <2> QED
    BY <1>3, <2>1, <2>2
<1> DEFINE n == nextId'
<1>6. \A u \in Given : nextId[u] \in Nat /\ n[u] \in Nat /\ nextId[u] <= n[u]
  BY <1>5
<1>7. t \in Given => \A i \in done : NewId(t, done, i) \in 1..(n[t] - 1)
  <2> SUFFICES ASSUME t \in Given, NEW i \in done
               PROVE  NewId(t, done, i) \in 1..(n[t] - 1)
    OBVIOUS
  <2>1. nextId[t] \in Nat \ {0} /\ Cardinality(done) \in Nat /\ n[t] = nextId[t] + Cardinality(done)
    BY <1>3, <1>5
  <2>2. NewId(t, done, i) \in nextId[t]..(nextId[t] + Cardinality(done) - 1)
    BY <1>3
  <2> HIDE DEF n
  <2> QED
    BY <2>1, <2>2
<1> HIDE DEF n
<1>8. /\ Numbered(cfg, n) /\ Numbered(p, n) /\ OpNumbered(op[a], n) /\ Numbered(acc[a], n)
       /\ MapNumbered(idmap[a], n)
  <2>1. /\ \A c : Numbered(c, nextId) => Numbered(c, n)
        /\ \A o : OpNumbered(o, nextId) => OpNumbered(o, n)
        /\ \A m : MapNumbered(m, nextId) => MapNumbered(m, n)
    BY <1>6, NumberedGrows
  <2>2. Numbered(cfg, nextId)
    BY DEF NumInv
  <2> QED
    BY <1>2, <2>1, <2>2
<1>9. /\ DOMAIN f = {NewId(t, done, i) : i \in done}
       /\ \A i \in done : f[NewId(t, done, i)] = NewRow(a, t, Row(p, t, i))
  BY <1>1 DEF RowsOf
<1>10. \A j \in DOMAIN f : RefsNumbered(f[j].refs, n)
  <2> SUFFICES ASSUME NEW i \in done
               PROVE  RefsNumbered(f[NewId(t, done, i)].refs, n)
    BY <1>9
  <2>1. f[NewId(t, done, i)].refs = Clean(cfg, Mapped(a, t, Row(p, t, i).refs))
    <3>1. f[NewId(t, done, i)] = NewRow(a, t, Row(p, t, i))
      BY <1>9
    <3>2. NewRow(a, t, Row(p, t, i)).refs = Clean(cfg, Mapped(a, t, Row(p, t, i).refs))
      BY DEF NewRow
    <3> QED
      BY <3>1, <3>2
  <2>2. RefsNumbered(Row(p, t, i).refs, n)
    BY <1>8 DEF Numbered
  <2>3. \A r \in Row(p, t, i).refs : r = Ref(r.to, r.id, r.via)
    BY <1>2 DEF WellFormed, RowFormed
  <2> QED
    BY <1>8, <2>1, <2>2, <2>3, MappedNumbered
<1>11. /\ t \in Given => DOMAIN f \subseteq 1..(n[t] - 1)
       /\ t = "app_settings" => DOMAIN f \subseteq {"defaults"}
       /\ t = "services" => DOMAIN f = done
  <2>1. t \in Given => DOMAIN f \subseteq 1..(n[t] - 1)
    BY <1>7, <1>9
  <2>2. t \notin Given => DOMAIN f = done
    BY <1>4, <1>9
  <2>3. t = "app_settings" => done \subseteq {"defaults"}
    BY <1>2 DEF HasSettings
  <2> QED
    BY <2>1, <2>2, <2>3, GivenTables
<1> DEFINE e == Put(cfg, t, f)
<1>12. Numbered(e, n) /\ HasSettings(e)
  <2>1. HasSettings(cfg)
    BY DEF NumInv
  <2> QED
    BY <1>2, <1>8, <1>10, <1>11, <2>1, PutNumbered
<1>13. /\ cfg'.rows = e.rows
       /\ cfg'.approved = IF t = "services" THEN cfg.approved \cup approvals ELSE cfg.approved
       /\ Ids(cfg', "services") = IF t = "services" THEN DOMAIN f \cup Ids(cfg, t) ELSE Ids(cfg, "services")
  <2>1. /\ cfg'.rows = e.rows
        /\ cfg'.approved = IF t = "services" THEN cfg.approved \cup approvals ELSE cfg.approved
    BY <1>1, Zenon DEF RowsOf
  <2>2. RefInv
    BY DEF SaveInv
  <2> HIDE DEF e
  <2>3. /\ \A u \in Tables \ {t} : Ids(cfg', u) = Ids(cfg, u)
        /\ Ids(cfg', t) = DOMAIN f \cup Ids(cfg, t)
    BY <1>1, <2>2, RowsWritten
  <2>4. "services" \in Tables
    BY DEF Tables
  <2> QED
    BY <2>1, <2>3, <2>4
<1> HIDE DEF e
<1>14. cfg'.approved \subseteq Ids(cfg', "services") /\ Ids(cfg', "services") = Ids(e, "services")
  <2>1. cfg.approved \subseteq Ids(cfg, "services")
    BY <1>8 DEF Numbered
  <2>2. Ids(cfg', "services") = Ids(e, "services")
    BY <1>13 DEF Ids
  <2> QED
    BY <1>11, <1>13, <2>1, <2>2
<1>15. Numbered(cfg', n) /\ HasSettings(cfg')
  BY <1>12, <1>13, <1>14, ApprovedNumbered
<1>16. \A u \in Given : nextId[u] \in Nat \ {0} /\ n[u] \in Nat \ {0} /\ nextId[u] <= n[u]
  <2>1. \A u \in Given : nextId[u] \in Nat \ {0}
    BY DEF NumInv
  <2> QED
    BY <1>6, <2>1
<1> QED
  BY <1>5, <1>7, <1>8, <1>15, <1>16 DEF n

LEMMA SectionNumbers ==
  ASSUME NumInv, SaveInv, NEW a \in Admins, Section(a)
  PROVE  NumInv'
<1> DEFINE t == SectionOrder[step[a]]
           p == op[a].payload
           n == nextId'
<1>1. PICK done \in SUBSET Ids(p, t) : \E f : SectionOf(a, t, p, done, f)
  BY SectionIs
<1>2. PICK f : SectionOf(a, t, p, done, f)
  BY <1>1
<1>3. /\ pc[a] = "section" /\ step[a] <= Len(SectionOrder) /\ UNCHANGED <<snapshots, acc>> /\ op' = op
  BY Zenon DEF Section
<1>4. t \in Tables
  BY <1>3, SectionTable DEF SaveInv
<1> HIDE DEF t
<1>5. /\ OnlyMoves(a) /\ pc'[a] \in {"section", "failed"} /\ acc'[a] = acc[a] /\ op'[a] = op[a]
  <2>1. DOMAIN crossed' = Admins
    BY Zenon DEF Section, Overtake
  <2>2. \/ step' = [step EXCEPT ![a] = @ + 1] /\ pc' = pc
        \/ step' = [step EXCEPT ![a] = 1] /\ Goto(a, "failed")
    BY <1>2, Zenon DEF SectionOf
  <2> QED
    BY <1>3, <2>1, <2>2 DEF OnlyMoves, Goto, SaveInv, RefInv, ShapeInv
<1> DEFINE approvals == p.approved \cap done
<1>6. /\ DOMAIN n = Given
      /\ \A u \in Given : nextId[u] \in Nat \ {0} /\ n[u] \in Nat \ {0} /\ nextId[u] <= n[u]
      /\ Numbered(cfg', n) /\ HasSettings(cfg')
      /\ OpNumbered(op[a], n) /\ Numbered(acc[a], n) /\ MapNumbered(idmap[a], n)
      /\ t \in Given => \A i \in done : NewId(t, done, i) \in 1..(n[t] - 1)
  <2>1. RowsOf(a, t, p, done, approvals, f) /\ approvals \in SUBSET done
    BY <1>2 DEF SectionOf
  <2> HIDE DEF approvals, p
  <2> QED
    BY <1>3, <1>4, <2>1, RowsNumber DEF p
<1> HIDE DEF p, n
<1>7. MapNumbered(idmap'[a], n) /\ DOMAIN idmap' = Admins /\ \A x \in Admins \ {a} : idmap'[x] = idmap[x]
  <2>1. /\ idmap' = IF t \in MapTables THEN [idmap EXCEPT ![a][t] = [i \in done |-> NewId(t, done, i)]] ELSE idmap
        /\ DOMAIN idmap = Admins
    BY <1>2 DEF SectionOf, NumInv
  <2>2. CASE t \notin MapTables
    BY <1>6, <2>1, <2>2
  <2>3. CASE t \in MapTables
    <3> DEFINE g == [i \in done |-> NewId(t, done, i)]
    <3>1. DOMAIN g = done /\ \A i \in DOMAIN g : g[i] \in 1..(n[t] - 1)
      BY <1>6, <2>3, GivenTables
    <3>2. idmap' = [idmap EXCEPT ![a][t] = g]
      BY <2>1, <2>3
    <3> HIDE DEF g
    <3>3. /\ idmap'[a] = [idmap[a] EXCEPT ![t] = g] /\ DOMAIN idmap' = Admins
          /\ \A x \in Admins \ {a} : idmap'[x] = idmap[x]
      BY <2>1, <3>2
    <3>4. /\ DOMAIN idmap'[a] = MapTables
          /\ \A u \in MapTables : idmap'[a][u] = IF u = t THEN g ELSE idmap[a][u]
      BY <1>6, <3>3 DEF MapNumbered
    <3>5. MapNumbered(idmap'[a], n)
      BY <1>6, <3>1, <3>4 DEF MapNumbered
    <3> QED
      BY <3>3, <3>5
  <2> QED
    BY <2>2, <2>3
<1>8. NumOK(pc'[a], op'[a], step'[a], acc'[a], idmap'[a], n)
  BY <1>5, <1>6, <1>7 DEF NumOK
<1> QED
  BY <1>3, <1>5, <1>6, <1>7, <1>8, NumStep DEF NumInv, n

\* The process starts again with the rows it has committed.
LEMMA RestartNumbers ==
  ASSUME NumInv, Restarted, UNCHANGED snapshots, DOMAIN nextId' = Given,
         \A u \in Given : nextId[u] \in Nat \ {0} /\ nextId'[u] \in Nat \ {0} /\ nextId[u] <= nextId'[u],
         Numbered(cfg', nextId'), HasSettings(cfg')
  PROVE  NumInv'
<1> DEFINE n == nextId'
<1>1. /\ DOMAIN idmap' = Admins
      /\ \A a \in Admins : pc'[a] = "idle" /\ op'[a] = NoOp /\ acc'[a] = NoConfig
  BY DEF Restarted
<1>2. Numbered(NoConfig, n) /\ OpNumbered(NoOp, n)
  BY NothingNumbered DEF OpNumbered, NoOp, Payloads
<1>3. \A a \in Admins : NumOK(pc'[a], op'[a], step'[a], acc'[a], idmap'[a], n)
  BY <1>1, <1>2 DEF NumOK
<1>4. \A u \in Given : nextId[u] \in Nat /\ n[u] \in Nat /\ nextId[u] <= n[u]
  OBVIOUS
<1> HIDE DEF n
<1>5. \A i \in DOMAIN snapshots : Numbered(snapshots[i], n) /\ HasSettings(snapshots[i])
  <2>1. \A c : Numbered(c, nextId) => Numbered(c, n)
    BY <1>4, NumberedGrows
  <2> QED
    BY <2>1 DEF NumInv
<1> QED
  BY <1>1, <1>3, <1>5 DEF NumInv, n

LEMMA InterruptedNumbers ==
  ASSUME NumInv, SaveInv, NEW a \in Admins, Interrupted(a)
  PROVE  NumInv'
<1> DEFINE t == SectionOrder[step[a]]
           p == op[a].payload
           n == nextId'
<1>1. /\ pc[a] = "section" /\ step[a] <= Len(SectionOrder) /\ UNCHANGED snapshots
      /\ \E done \in SUBSET Fitting(a, t) : \E approvals \in SUBSET done : Recreate(a, t, done, approvals)
  BY InterruptedParts
<1>2. t \in Tables
  BY <1>1, SectionTable DEF SaveInv
<1> HIDE DEF t, p
<1>3. PICK done \in SUBSET Fitting(a, t) : \E approvals \in SUBSET done : Recreate(a, t, done, approvals)
  BY <1>1
<1>4. PICK approvals \in SUBSET done : Recreate(a, t, done, approvals)
  BY <1>3
<1>5. done \in SUBSET Ids(p, t) /\ \E f : RowsOf(a, t, p, done, approvals, f)
  BY <1>1, <1>2, <1>4, RecreateIs DEF p
<1>6. PICK f : RowsOf(a, t, p, done, approvals, f)
  BY <1>5
<1>7. /\ DOMAIN n = Given
      /\ \A u \in Given : nextId[u] \in Nat \ {0} /\ n[u] \in Nat \ {0} /\ nextId[u] <= n[u]
      /\ Numbered(cfg', n) /\ HasSettings(cfg')
      /\ OpNumbered(op[a], n) /\ Numbered(acc[a], n) /\ MapNumbered(idmap[a], n)
  BY <1>1, <1>2, <1>5, <1>6, RowsNumber DEF p
<1>8. CASE /\ Overtake(a) /\ step' = [step EXCEPT ![a] = 1] /\ Goto(a, "raised")
           /\ UNCHANGED <<op, acc, idmap>>
  <2>1. /\ OnlyMoves(a) /\ pc'[a] = "raised" /\ op'[a] = op[a] /\ acc'[a] = acc[a] /\ DOMAIN idmap' = Admins
        /\ \A x \in Admins \ {a} : idmap'[x] = idmap[x]
    BY <1>8 DEF OnlyMoves, Overtake, Goto, NumInv, SaveInv, RefInv, ShapeInv
  <2> HIDE DEF n
  <2>2. NumOK(pc'[a], op'[a], step'[a], acc'[a], idmap'[a], n)
    BY <1>7, <2>1 DEF NumOK
  <2> QED
    BY <1>1, <1>7, <2>1, <2>2, NumStep DEF NumInv, n
<1>9. CASE Restarted
  BY <1>1, <1>7, <1>9, RestartNumbers
<1> QED
  BY <1>8, <1>9, InterruptedParts

LEMMA CrashNumbers ==
  ASSUME NumInv, Crash
  PROVE  NumInv'
<1>1. UNCHANGED <<cfg, nextId, snapshots>> /\ Restarted
  BY DEF Crash
<1>2. \A u \in Given : nextId[u] \in Nat \ {0} /\ nextId[u] <= nextId[u]
  BY DEF NumInv
<1> QED
  BY <1>1, <1>2, RestartNumbers DEF NumInv

LEMMA NumNext == NumInv /\ SaveInv /\ [Next]_vars => NumInv'
<1> SUFFICES ASSUME NumInv, SaveInv, [Next]_vars PROVE NumInv'
  OBVIOUS
<1>1. CASE Crash
  BY <1>1, CrashNumbers
<1>2. ASSUME NEW a \in Admins, Request(a)
      PROVE  NumInv'
  BY <1>2, RequestNumbers
<1>3. ASSUME NEW a \in Admins, Advance(a)
      PROVE  NumInv'
  BY <1>3, WriteNumbers, QuietNumbers, ExportNumbers, SnapshotNumbers, WipeNumbers, SectionNumbers, InterruptedNumbers DEF Advance
<1>4. CASE UNCHANGED vars
  BY <1>4 DEF vars, local, NumInv
<1> QED
  BY <1>1, <1>2, <1>3, <1>4 DEF Next

LEMMA NumInit == Init => NumInv
<1> SUFFICES ASSUME Init PROVE NumInv
  OBVIOUS
<1> DEFINE last(t) == Cardinality(Ids(cfg, t))
<1>1. /\ \A t \in Given : IsFiniteSet(Ids(cfg, t)) /\ Ids(cfg, t) = 1..last(t)
      /\ \A r \in Refs(cfg) : r.to \in Given => r.id \in 1..last(r.to)
      /\ HasSettings(cfg) /\ cfg.approved \subseteq Ids(cfg, "services")
  BY ConfigsAssumption DEF Init, Seeded, Given, HasSettings
<1>2. \A t \in Given : last(t) \in Nat
  BY <1>1, FS_CardinalityType
<1>3. DOMAIN nextId = Given /\ \A t \in Given : nextId[t] = last(t) + 1
  BY DEF Init, Given
<1> HIDE DEF last
<1>4. \A t \in Given : nextId[t] \in Nat \ {0} /\ last(t) = nextId[t] - 1
  BY <1>2, <1>3
<1>5. \A t \in Given : Ids(cfg, t) \subseteq 1..(nextId[t] - 1)
  BY <1>1, <1>4
<1>6. \A t \in Tables : \A i \in Ids(cfg, t) : RefsNumbered(Row(cfg, t, i).refs, nextId)
  <2> SUFFICES ASSUME NEW t \in Tables, NEW i \in Ids(cfg, t), NEW r \in Row(cfg, t, i).refs, r.to \in MapTables
               PROVE  r.id \in 1..(nextId[r.to] - 1)
    BY DEF RefsNumbered
  <2>1. r \in Refs(cfg) /\ r.to \in Given
    BY GivenTables DEF Refs
  <2> QED
    BY <1>1, <1>4, <2>1
<1>7. Numbered(cfg, nextId)
  BY <1>1, <1>5, <1>6 DEF Numbered, HasSettings
<1>8. \A i \in DOMAIN snapshots : snapshots[i] = cfg
  <2>1. snapshots = <<cfg>>
    BY DEF Init
  <2> QED
    BY <2>1
<1>9. Numbered(NoConfig, nextId) /\ OpNumbered(NoOp, nextId)
  BY NothingNumbered DEF OpNumbered, NoOp, Payloads
<1>10. DOMAIN idmap = Admins /\ \A a \in Admins : pc[a] = "idle" /\ op[a] = NoOp /\ acc[a] = NoConfig
  BY DEF Init
<1>11. \A a \in Admins : NumOK(pc[a], op[a], step[a], acc[a], idmap[a], nextId)
  BY <1>9, <1>10 DEF NumOK
<1> QED
  BY <1>1, <1>3, <1>4, <1>7, <1>8, <1>10, <1>11 DEF NumInv

-----------------------------------------------------------------------------
(* What an import that nobody overtakes recreates.                         *)

LEMMA Sections ==
  /\ Len(SectionOrder) = 11
  /\ SectionOrder[1] = "bandwidth_presets" /\ SectionOrder[2] = "services"
  /\ SectionOrder[3] = "aggregate_policy_groups" /\ SectionOrder[4] = "profiles"
  /\ SectionOrder[5] = "policy_templates" /\ SectionOrder[6] = "device_policy"
  /\ SectionOrder[7] = "service_groups" /\ SectionOrder[8] = "schedule_plans"
  /\ SectionOrder[9] = "schedule_templates" /\ SectionOrder[10] = "date_exceptions"
  /\ SectionOrder[11] = "app_settings"
BY DEF SectionOrder

\* The place of a table in the order.
LEMMA Places ==
  \E f : /\ \A s \in 1..11 : SectionOrder[s] \in Tables /\ f[SectionOrder[s]] = s
         /\ \A t \in Tables : f[t] \in 1..11 /\ SectionOrder[f[t]] = t
         /\ \A t, r : t \in Tables /\ Holds(t, r) => r.to \in Tables /\ f[r.to] < f[t]
         /\ f["app_settings"] = 11
<1> DEFINE f == [t \in Tables |->
                   CASE t = "bandwidth_presets" -> 1 [] t = "services" -> 2
                     [] t = "aggregate_policy_groups" -> 3 [] t = "profiles" -> 4
                     [] t = "policy_templates" -> 5 [] t = "device_policy" -> 6
                     [] t = "service_groups" -> 7 [] t = "schedule_plans" -> 8
                     [] t = "schedule_templates" -> 9 [] t = "date_exceptions" -> 10
                     [] t = "app_settings" -> 11]
<1>1. /\ f["bandwidth_presets"] = 1 /\ f["services"] = 2 /\ f["aggregate_policy_groups"] = 3
      /\ f["profiles"] = 4 /\ f["policy_templates"] = 5 /\ f["device_policy"] = 6
      /\ f["service_groups"] = 7 /\ f["schedule_plans"] = 8 /\ f["schedule_templates"] = 9
      /\ f["date_exceptions"] = 10 /\ f["app_settings"] = 11
  BY DEF Tables
<1> HIDE DEF f
<1>2. \A s \in 1..11 : s = 1 \/ s = 2 \/ s = 3 \/ s = 4 \/ s = 5 \/ s = 6 \/ s = 7 \/ s = 8 \/ s = 9 \/ s = 10 \/ s = 11
  OBVIOUS
<1>3. \A s \in 1..11 : SectionOrder[s] \in Tables /\ f[SectionOrder[s]] = s
  BY <1>1, <1>2, Sections DEF Tables
<1>4. \A t \in Tables : f[t] \in 1..11 /\ SectionOrder[f[t]] = t
  BY <1>1, Sections DEF Tables
<1>5. \A t, r : t \in Tables /\ Holds(t, r) => r.to \in Tables /\ f[r.to] < f[t]
  BY <1>1 DEF Holds, PolicyKeys, Tables
<1> QED
  BY <1>1, <1>3, <1>4, <1>5

\* A section is not recreated before what its rows refer to.
LEMMA SectionFacts ==
  ASSUME NEW s \in 1..11, NEW t, t = SectionOrder[s]
  PROVE  /\ t \in Tables /\ t \notin Before(s) /\ Before(s) \subseteq Tables
         /\ Before(s + 1) = Before(s) \cup {t}
         /\ \A r : Holds(t, r) => r.to \in Before(s)
         /\ \A u \in Before(s) : \A r : Holds(u, r) => r.to \in Before(s)
         /\ "app_settings" \notin Before(s)
<1>1. PICK f : /\ \A i \in 1..11 : SectionOrder[i] \in Tables /\ f[SectionOrder[i]] = i
               /\ \A u \in Tables : f[u] \in 1..11 /\ SectionOrder[f[u]] = u
               /\ \A u, r : u \in Tables /\ Holds(u, r) => r.to \in Tables /\ f[r.to] < f[u]
               /\ f["app_settings"] = 11
  BY Places
<1>2. \A n \in 1..12 : Before(n) = {u \in Tables : f[u] < n}
  <2> SUFFICES ASSUME NEW n \in 1..12
               PROVE  Before(n) = {u \in Tables : f[u] < n}
    OBVIOUS
  <2>1. Before(n) = {SectionOrder[i] : i \in {i \in 1..11 : i < n}}
    BY Sections DEF Before
  <2> QED
    BY <1>1, <2>1
<1>3. s \in 1..12 /\ s + 1 \in 1..12
  OBVIOUS
<1>4. t \in Tables /\ f[t] = s
  BY <1>1
<1>5. \A u \in Tables : f[u] \in 1..11
  BY <1>1
<1>6. Before(s) = {u \in Tables : f[u] < s} /\ Before(s + 1) = {u \in Tables : f[u] < s + 1}
  BY <1>2, <1>3
<1>7. \A u \in Tables : f[u] < s + 1 <=> f[u] < s \/ u = t
  <2>1. \A u \in Tables : f[u] = s => u = t
    BY <1>1
  <2>2. \A u \in Tables : f[u] < s + 1 <=> f[u] < s \/ f[u] = s
    BY <1>5
  <2> QED
    BY <1>4, <2>1, <2>2
<1>8. Before(s + 1) = Before(s) \cup {t}
  BY <1>4, <1>6, <1>7
<1>9. t \notin Before(s)
  BY <1>4, <1>6
<1>10. \A r : Holds(t, r) => r.to \in Before(s)
  BY <1>1, <1>4, <1>6
<1>11. \A u \in Before(s) : \A r : Holds(u, r) => r.to \in Before(s)
  <2> SUFFICES ASSUME NEW u \in Before(s), NEW r, Holds(u, r)
               PROVE  r.to \in Before(s)
    OBVIOUS
  <2>1. u \in Tables /\ f[u] < s
    BY <1>6
  <2>2. r.to \in Tables /\ f[r.to] < f[u]
    BY <1>1, <2>1
  <2>3. f[r.to] < s
    BY <1>5, <2>1, <2>2
  <2> QED
    BY <1>6, <2>2, <2>3
<1>12. "app_settings" \notin Before(s)
  BY <1>1, <1>6
<1> QED
  BY <1>4, <1>6, <1>8, <1>9, <1>10, <1>11, <1>12

LEMMA AllSections ==
  /\ Before(1) = {}
  /\ \A s \in Nat : s > Len(SectionOrder) => Before(s) = Tables
<1>1. PICK f : \A u \in Tables : f[u] \in 1..11 /\ SectionOrder[f[u]] = u
  BY Places
<1>2. Before(1) = {}
  BY Sections DEF Before
<1>3. ASSUME NEW s \in Nat, s > Len(SectionOrder)
      PROVE  Before(s) = Tables
  <2>1. Before(s) = {SectionOrder[i] : i \in 1..11}
    BY <1>3, Sections DEF Before
  <2>2. \A i \in 1..11 : SectionOrder[i] \in Tables
    BY Places
  <2> QED
    BY <1>1, <2>1, <2>2
<1> QED
  BY <1>2, <1>3

\* A reference under the maps of an import.
Move(m, r) ==
  IF r.to \in MapTables /\ r.id \in DOMAIN m[r.to] THEN [r EXCEPT !.id = m[r.to][@]] ELSE r

LEMMA MappedIs ==
  ASSUME NEW a, NEW t, NEW refs
  PROVE  Mapped(a, t, refs) =
           {Move(idmap[a], r) : r \in {r \in refs : t = "device_policy" => r.id \in DOMAIN idmap[a]["profiles"]}}
BY Zenon DEF Mapped, Move, MapTables

LEMMA MoveFacts ==
  ASSUME NEW m, NEW r, r = Ref(r.to, r.id, r.via)
  PROVE  /\ Move(m, r) = Ref(r.to, Move(m, r).id, r.via) /\ Move(m, r).to = r.to /\ Move(m, r).via = r.via
         /\ Move(m, r).id = IF r.to \in MapTables /\ r.id \in DOMAIN m[r.to] THEN m[r.to][r.id] ELSE r.id
         /\ r.to \notin MapTables => Move(m, r) = r
<1>1. CASE r.to \in MapTables /\ r.id \in DOMAIN m[r.to]
  <2>1. Move(m, r) = [r EXCEPT !.id = m[r.to][r.id]]
    BY <1>1 DEF Move
  <2>2. Move(m, r) = Ref(r.to, m[r.to][r.id], r.via)
    BY <2>1 DEF Ref
  <2>3. \A to, id, via : Ref(to, id, via).to = to /\ Ref(to, id, via).id = id /\ Ref(to, id, via).via = via
    BY DEF Ref
  <2> QED
    BY <1>1, <2>2, <2>3
<1>2. CASE ~(r.to \in MapTables /\ r.id \in DOMAIN m[r.to])
  <2>1. Move(m, r) = r
    BY <1>2, Zenon DEF Move
  <2> QED
    BY <1>2, <2>1
<1> QED
  BY <1>1, <1>2

\* c and d are the same in the tables B.
Agree(c, d, B) ==
  \A u \in B : Ids(d, u) = Ids(c, u) /\ \A i \in Ids(c, u) : Row(d, u, i) = Row(c, u, i)

\* A reference names in p what it names, moved, in what has been recreated of p.
LEMMA MovedName ==
  ASSUME NEW c, NEW p, NEW m, NEW s, Recreated(c, p, m, s), NEW d, Agree(c, d, Before(s)),
         NEW r \in Refs(p), r = Ref(r.to, r.id, r.via), r.to \in Before(s)
  PROVE  /\ NameOf(d, Move(m, r)) = NameOf(p, r)
         /\ r.to \in MapTables /\ Known(p, r) => Known(d, Move(m, r))
<1> DEFINE q == Move(m, r)
<1>1. /\ q.to = r.to /\ (r.to \notin MapTables => q = r)
      /\ q.id = IF r.to \in MapTables /\ r.id \in DOMAIN m[r.to] THEN m[r.to][r.id] ELSE r.id
  BY MoveFacts
<1> HIDE DEF q
<1>2. CASE r.to \notin MapTables
  <2>1. NameOf(d, q) = q.id /\ NameOf(p, r) = r.id
    BY <1>1, <1>2 DEF NameOf, MapTables
  <2> QED
    BY <1>1, <1>2, <2>1 DEF q
<1>3. CASE r.to \in MapTables
  <2> DEFINE t == r.to
  <2>1. Leads(m, t, p, c) /\ Ids(d, t) = Ids(c, t) /\ \A i \in Ids(c, t) : Row(d, t, i) = Row(c, t, i)
    BY <1>3 DEF Recreated, Agree
  <2>2. CASE r.id \in Ids(p, t)
    <3>1. q.id = m[t][r.id] /\ m[t][r.id] \in Ids(c, t) /\ Row(c, t, m[t][r.id]).name = Row(p, t, r.id).name
      BY <1>1, <1>3, <2>1, <2>2 DEF Leads
    <3>2. Known(d, q) /\ Known(p, r)
      BY <1>1, <2>1, <2>2, <3>1 DEF Known
    <3>3. NameOf(d, q) = Row(d, t, q.id).name /\ NameOf(p, r) = Row(p, t, r.id).name
      BY <1>1, <1>3, <3>2 DEF NameOf, MapTables
    <3> QED
      BY <2>1, <3>1, <3>2, <3>3 DEF q
  <2>3. CASE r.id \notin Ids(p, t)
    <3>1. q.id = r.id /\ r.id \notin Ids(c, t)
      BY <1>1, <2>1, <2>3 DEF Leads
    <3>2. ~Known(d, q) /\ ~Known(p, r)
      BY <1>1, <2>1, <2>3, <3>1 DEF Known
    <3>3. NameOf(d, q) = q.id /\ NameOf(p, r) = r.id
      BY <3>2 DEF NameOf
    <3> QED
      BY <3>1, <3>2, <3>3 DEF q
  <2> QED
    BY <2>2, <2>3
<1> QED
  BY <1>2, <1>3

\* What references mean depends on the tables they refer to.
LEMMA SameMeaning ==
  ASSUME NEW c, NEW d, NEW B, Agree(c, d, B), NEW t, NEW refs, \A r \in refs : r.to \in B
  PROVE  SemanticRefs(d, t, refs) = SemanticRefs(c, t, refs)
<1>1. \A r \in refs : (Known(d, r) <=> Known(c, r)) /\ NameOf(d, r) = NameOf(c, r)
  <2> SUFFICES ASSUME NEW r \in refs
               PROVE  (Known(d, r) <=> Known(c, r)) /\ NameOf(d, r) = NameOf(c, r)
    OBVIOUS
  <2>1. Ids(d, r.to) = Ids(c, r.to) /\ \A i \in Ids(c, r.to) : Row(d, r.to, i) = Row(c, r.to, i)
    BY DEF Agree
  <2>2. Known(d, r) <=> Known(c, r)
    BY <2>1 DEF Known
  <2>3. Known(c, r) => Row(d, r.to, r.id) = Row(c, r.to, r.id)
    BY <2>1 DEF Known
  <2> QED
    BY <2>2, <2>3 DEF NameOf
<1> QED
  BY <1>1 DEF SemanticRefs

\* References of p in a row of table t mean in d, moved, what they mean in p.
MeansTheSame(a, p, t, d) ==
  \A refs : refs \subseteq Refs(p) /\ (\A r \in refs : r = Ref(r.to, r.id, r.via) /\ Holds(t, r)) =>
    SemanticRefs(d, t, Clean(cfg, Mapped(a, t, refs))) = SemanticRefs(p, t, refs)

\* The references of a row of the payload mean, in what a section makes of them,
\* what they meant.
LEMMA MovedMeaning ==
  ASSUME NEW a, NEW p, PolicyReferences(p), NEW s \in 1..11, NEW t, t = SectionOrder[s],
         Recreated(cfg, p, idmap[a], s), NEW d, Agree(cfg, d, Before(s))
  PROVE  MeansTheSame(a, p, t, d)
<1> SUFFICES ASSUME NEW refs, refs \subseteq Refs(p), \A r \in refs : r = Ref(r.to, r.id, r.via) /\ Holds(t, r)
             PROVE  SemanticRefs(d, t, Clean(cfg, Mapped(a, t, refs))) = SemanticRefs(p, t, refs)
  BY DEF MeansTheSame
<1> DEFINE m == idmap[a]
           new == Clean(cfg, Mapped(a, t, refs))
           here == {r \in refs : t = "device_policy" => Known(p, r)}
           there == {q \in new : t = "device_policy" => Known(d, q)}
           Sem(c, r) == [to |-> r.to, name |-> NameOf(c, r), via |-> r.via]
<1>1. \A r \in refs : r.to \in Before(s) /\ r \in Refs(p) /\ r = Ref(r.to, r.id, r.via)
  BY SectionFacts
<1> HIDE DEF m
<1>2. \A r \in refs : Sem(d, Move(m, r)) = Sem(p, r)
  <2> SUFFICES ASSUME NEW r \in refs
               PROVE  Sem(d, Move(m, r)) = Sem(p, r)
    OBVIOUS
  <2>1. NameOf(d, Move(m, r)) = NameOf(p, r)
    BY <1>1, MovedName DEF m
  <2>2. Move(m, r).to = r.to /\ Move(m, r).via = r.via
    BY <1>1, MoveFacts
  <2> QED
    BY <2>1, <2>2
<1>3. \A r \in refs : t = "device_policy" => r.to = "profiles" /\ "profiles" \in Before(s)
  BY <1>1 DEF Holds
<1>4. \A r \in refs : t = "device_policy" => (r.id \in DOMAIN m["profiles"] <=> Known(p, r))
  <2> SUFFICES ASSUME NEW r \in refs, t = "device_policy"
               PROVE  r.id \in DOMAIN m["profiles"] <=> Known(p, r)
    OBVIOUS
  <2>1. DOMAIN m["profiles"] = Ids(p, "profiles")
    BY <1>3 DEF Recreated, Leads, MapTables, m
  <2> QED
    BY <1>3, <2>1 DEF Known
<1>5. \A r \in here : Move(m, r) \in there
  <2> SUFFICES ASSUME NEW r \in here
               PROVE  Move(m, r) \in there
    OBVIOUS
  <2>1. Move(m, r) \in Mapped(a, t, refs)
    BY <1>4, MappedIs DEF m
  <2>2. /\ Move(m, r).to = r.to /\ Move(m, r).via = r.via
        /\ r.to \notin MapTables => Move(m, r) = r
    BY <1>1, MoveFacts
  <2>3. Move(m, r).via \in {"blocked", "listed"} => Known(cfg, Move(m, r))
    <3> SUFFICES ASSUME r.via \in {"blocked", "listed"}
                 PROVE  Known(cfg, Move(m, r))
      BY <2>2
    <3>1. r.to \in PolicyKeys
      BY DEF Holds
    <3>2. Known(p, r)
      BY <3>1 DEF PolicyReferences
    <3>3. r.to \notin MapTables /\ r.to \in Keyed /\ r.to \in Before(s)
      BY <1>1, <3>1 DEF PolicyKeys, MapTables, Keyed
    <3>4. Ids(cfg, r.to) = Ids(p, r.to)
      BY <3>3 DEF Recreated
    <3> QED
      BY <2>2, <3>2, <3>3, <3>4 DEF Known
  <2>4. Move(m, r) \in new
    BY <2>1, <2>3 DEF Clean
  <2>5. t = "device_policy" => Known(d, Move(m, r))
    BY <1>1, <1>3, MovedName DEF m, MapTables
  <2> QED
    BY <2>4, <2>5
<1>6. \A q \in there : \E r \in here : q = Move(m, r)
  <2> SUFFICES ASSUME NEW q \in there
               PROVE  \E r \in here : q = Move(m, r)
    OBVIOUS
  <2>1. q \in Mapped(a, t, refs)
    BY DEF Clean
  <2>2. PICK r \in refs : q = Move(m, r) /\ (t = "device_policy" => r.id \in DOMAIN m["profiles"])
    BY <2>1, MappedIs DEF m
  <2> QED
    BY <1>4, <2>2
<1>7. SemanticRefs(d, t, new) = {Sem(d, q) : q \in there} /\ SemanticRefs(p, t, refs) = {Sem(p, r) : r \in here}
  BY DEF SemanticRefs
<1>8. here \subseteq refs
  OBVIOUS
<1> HIDE DEF here, there, Sem, new
<1>9. SemanticRefs(d, t, new) = SemanticRefs(p, t, refs)
  BY <1>2, <1>5, <1>6, <1>7, <1>8
<1> QED
  BY <1>9 DEF new

LEMMA BackedIs ==
  ASSUME NEW c, NEW r
  PROVE  /\ r.to = "device_policy" => Backed(c, r)
         /\ r.to = "services" /\ r.via = "quota" => (Backed(c, r) <=> Known(c, r) /\ r.id \in c.approved)
         /\ r.to # "device_policy" /\ ~(r.to = "services" /\ r.via = "quota") => (Backed(c, r) <=> Known(c, r))
<1>1. "services" # "device_policy"
  OBVIOUS
<1> QED
  BY <1>1, Zenon DEF Backed

\* A row of a payload in which every reference is one that a save would accept fits.
LEMMA RowsFit ==
  ASSUME NEW a, NEW p, WellFormed(p), Restorable(p), NEW s \in 1..11, NEW t, t = SectionOrder[s],
         Recreated(cfg, p, idmap[a], s), NEW i \in Ids(p, t)
  PROVE  RowFits(a, t, Row(p, t, i))
<1> DEFINE refs == Row(p, t, i).refs
           m == idmap[a]
<1>1. /\ t \in Tables /\ t \notin Before(s) /\ Before(s) \subseteq Tables
      /\ \A r : Holds(t, r) => r.to \in Before(s)
  BY SectionFacts
<1>2. \A r \in refs : r = Ref(r.to, r.id, r.via) /\ Holds(t, r) /\ r \in Refs(p) /\ r.to \in Before(s)
  <2>1. RowFormed(t, Row(p, t, i))
    BY <1>1 DEF WellFormed
  <2>2. \A r \in refs : r = Ref(r.to, r.id, r.via) /\ Holds(t, r)
    BY <2>1 DEF RowFormed
  <2>3. refs \subseteq Refs(p)
    BY <1>1 DEF Refs
  <2> QED
    BY <1>1, <2>2, <2>3
<1> HIDE DEF refs, m
<1>3. ASSUME NEW r \in refs, r.via \notin {"blocked", "listed"}
      PROVE  Backed(cfg, Move(m, r))
  <2> DEFINE q == Move(m, r)
  <2>1. q.to = r.to /\ q.via = r.via /\ (r.to \notin MapTables => q = r)
    BY <1>2, MoveFacts
  <2>2. Backed(p, r)
    BY <1>2, <1>3 DEF Restorable, Valid
  <2>3. r.to \in MapTables /\ Known(p, r) => Known(cfg, q)
    <3>1. Agree(cfg, cfg, Before(s))
      BY DEF Agree
    <3> QED
      BY <1>2, <3>1, MovedName DEF m
  <2> HIDE DEF q
  <2>4. CASE r.to = "device_policy"
    BY <2>1, <2>4, BackedIs DEF q
  <2>5. CASE r.to \in MapTables
    <3>1. Known(p, r)
      BY <2>2, <2>5, BackedIs DEF MapTables
    <3> QED
      BY <2>1, <2>3, <2>5, <3>1, BackedIs DEF q, MapTables
  <2>6. CASE r.to \in {"bandwidth_presets", "services", "aggregate_policy_groups"}
    <3>1. q = r /\ r.to \in Keyed
      BY <2>1, <2>6 DEF MapTables, Keyed
    <3>2. Ids(cfg, r.to) = Ids(p, r.to) /\ (r.to = "services" => cfg.approved = p.approved)
      BY <1>2, <3>1 DEF Recreated
    <3>3. Known(p, r) <=> Known(cfg, r)
      BY <3>2 DEF Known
    <3>4. Backed(cfg, r)
      BY <2>2, <2>6, <3>2, <3>3, BackedIs
    <3> QED
      BY <3>1, <3>4 DEF q
  <2>7. r.to \in {"bandwidth_presets", "services", "aggregate_policy_groups", "device_policy"} \cup MapTables
    BY <1>2 DEF Holds, PolicyKeys, MapTables
  <2> QED
    BY <2>4, <2>5, <2>6, <2>7
<1>4. Valid(cfg, Mapped(a, t, refs))
  <2> SUFFICES ASSUME NEW q \in Mapped(a, t, refs), q.via \notin {"blocked", "listed"}
               PROVE  Backed(cfg, q)
    BY DEF Valid
  <2>1. PICK r \in refs : q = Move(m, r)
    BY MappedIs DEF m
  <2>2. q.via = r.via
    BY <1>2, <2>1, MoveFacts
  <2> QED
    BY <1>3, <2>1, <2>2
<1>5. t \in UniqueName => RowNames(cfg, t) = {}
  <2> SUFFICES ASSUME t \in UniqueName
               PROVE  RowNames(cfg, t) = {}
    OBVIOUS
  <2>1. t \notin {"app_settings", "aggregate_policy_groups"}
    BY DEF UniqueName
  <2>2. Ids(cfg, t) = {}
    BY <1>1, <2>1 DEF Recreated
  <2> QED
    BY <2>2 DEF RowNames
<1> QED
  BY <1>4, <1>5 DEF RowFits, refs

\* A section that writes every row recreates its table.
LEMMA SectionRecreates ==
  ASSUME NumInv, SaveInv, NEW a \in Admins, Section(a),
         NEW s, s = step[a], NEW t, t = SectionOrder[s], NEW p, p = op[a].payload,
         PolicyReferences(p), Recreated(cfg, p, idmap[a], s),
         NEW f, SectionOf(a, t, p, Ids(p, t), f)
  PROVE  Recreated(cfg', p, idmap'[a], s + 1)
<1> DEFINE done == Ids(p, t)
<1>0. step[a] <= Len(SectionOrder) /\ pc[a] = "section"
  BY Zenon DEF Section
<1>1. s \in 1..11 /\ t \in Tables
  BY <1>0, SectionTable DEF SaveInv
<1>2. /\ t \notin Before(s) /\ Before(s) \subseteq Tables /\ Before(s + 1) = Before(s) \cup {t}
      /\ \A u \in Before(s) : \A r : Holds(u, r) => r.to \in Before(s)
      /\ "app_settings" \notin Before(s)
  BY <1>1, SectionFacts
<1>3. RowsOf(a, t, p, done, p.approved \cap done, f)
  BY Zenon DEF SectionOf
<1>4. /\ WellFormed(cfg) /\ WellFormed(p) /\ Numbered(p, nextId) /\ HasSettings(p) /\ HasSettings(cfg)
      /\ DOMAIN idmap = Admins /\ DOMAIN idmap[a] = MapTables
  <2>1. WellFormed(cfg) /\ op[a].do \in Payloads /\ OpShaped(op[a])
    BY <1>0 DEF SaveInv, RefInv, ShapeInv, RequestOK
  <2>2. NumOK(pc[a], op[a], step[a], acc[a], idmap[a], nextId) /\ DOMAIN idmap = Admins /\ HasSettings(cfg)
    BY DEF NumInv
  <2> QED
    BY <1>0, <2>1, <2>2 DEF NumOK, OpNumbered, OpShaped, MapNumbered
<1>5. /\ \A u \in Tables \ {t} : Ids(cfg', u) = Ids(cfg, u) /\ \A i : Row(cfg', u, i) = Row(cfg, u, i)
      /\ Ids(cfg', t) = DOMAIN f \cup Ids(cfg, t)
      /\ \A i \in Ids(cfg', t) : Row(cfg', t, i) = IF i \in DOMAIN f THEN f[i] ELSE Row(cfg, t, i)
  <2>1. RefInv
    BY DEF SaveInv
  <2> QED
    BY <1>1, <1>3, <2>1, RowsWritten
<1>6. /\ DOMAIN f = {NewId(t, done, i) : i \in done}
      /\ \A i \in done : f[NewId(t, done, i)] = NewRow(a, t, Row(p, t, i))
      /\ cfg'.approved = IF t = "services" THEN cfg.approved \cup (p.approved \cap done) ELSE cfg.approved
      /\ idmap' = IF t \in MapTables THEN [idmap EXCEPT ![a][t] = [i \in done |-> NewId(t, done, i)]] ELSE idmap
  <2>1. idmap' = IF t \in MapTables THEN [idmap EXCEPT ![a][t] = [i \in done |-> NewId(t, done, i)]] ELSE idmap
    BY Zenon DEF SectionOf
  <2> QED
    BY <1>3, <2>1, Zenon DEF RowsOf
<1> HIDE DEF done
<1>7. t \notin Given => \A i \in done : NewId(t, done, i) = i
  <2>1. 0 \in Nat
    OBVIOUS
  <2> QED
    BY <1>1, <2>1, NewIds
<1>8. t \in Given => /\ nextId[t] \in Nat \ {0} /\ Cardinality(done) \in Nat
                     /\ \A i \in done : NewId(t, done, i) \in nextId[t]..(nextId[t] + Cardinality(done) - 1)
  <2> SUFFICES ASSUME t \in Given
               PROVE  /\ nextId[t] \in Nat \ {0} /\ Cardinality(done) \in Nat
                      /\ \A i \in done : NewId(t, done, i) \in nextId[t]..(nextId[t] + Cardinality(done) - 1)
    OBVIOUS
  <2>1. nextId[t] \in Nat \ {0} /\ nextId[t] \in Nat /\ done \subseteq 1..(nextId[t] - 1)
    BY <1>4 DEF NumInv, Numbered, done
  <2> QED
    BY <1>1, <2>1, NewIds
<1>9. /\ Ids(cfg', t) = {NewId(t, done, i) : i \in done}
      /\ \A i \in done : Row(cfg', t, NewId(t, done, i)) = NewRow(a, t, Row(p, t, i))
  <2>1. Ids(cfg, t) \subseteq DOMAIN f
    <3>1. CASE t = "app_settings"
      <4>1. done = {"defaults"} /\ Ids(cfg, t) = {"defaults"}
        BY <1>4, <3>1 DEF HasSettings, done
      <4>2. NewId(t, done, "defaults") = "defaults"
        BY <1>7, <3>1, <4>1, GivenTables
      <4> QED
        BY <1>6, <4>1, <4>2
    <3>2. CASE t = "aggregate_policy_groups"
      <4>1. Ids(cfg, t) \subseteq done /\ t \notin Given
        BY <3>2 DEF Recreated, Given, Keyed, done
      <4>2. \A i \in done : i \in DOMAIN f
        BY <1>6, <1>7, <4>1
      <4> QED
        BY <4>1, <4>2
    <3>3. CASE t \notin {"app_settings", "aggregate_policy_groups"}
      BY <1>1, <1>2, <3>3 DEF Recreated
    <3> QED
      BY <3>1, <3>2, <3>3
  <2> QED
    BY <1>5, <1>6, <2>1
<1>10. Agree(cfg, cfg', Before(s))
  BY <1>2, <1>5 DEF Agree
<1>11. ASSUME NEW u \in Before(s)
       PROVE  Meaning(cfg', u) = Meaning(p, u)
  <2>1. Meaning(cfg, u) = Meaning(p, u)
    BY DEF Recreated
  <2>2. Ids(cfg', u) = Ids(cfg, u) /\ \A i \in Ids(cfg, u) : Row(cfg', u, i) = Row(cfg, u, i)
    BY <1>10 DEF Agree
  <2>3. ASSUME NEW i \in Ids(cfg, u)
        PROVE  SemanticRefs(cfg', u, Row(cfg, u, i).refs) = SemanticRefs(cfg, u, Row(cfg, u, i).refs)
    <3>1. \A r \in Row(cfg, u, i).refs : r.to \in Before(s)
      BY <1>2, <1>4 DEF WellFormed, RowFormed
    <3> QED
      BY <1>10, <3>1, SameMeaning
  <2>4. Meaning(cfg', u) = Meaning(cfg, u)
    BY <2>2, <2>3 DEF Meaning
  <2> QED
    BY <2>1, <2>4
<1>12. Meaning(cfg', t) = Meaning(p, t)
  <2>0. MeansTheSame(a, p, t, cfg')
    BY <1>1, <1>10, MovedMeaning
  <2>1. ASSUME NEW i \in done
        PROVE  /\ Row(cfg', t, NewId(t, done, i)).name = Row(p, t, i).name
               /\ SemanticRefs(cfg', t, Row(cfg', t, NewId(t, done, i)).refs) = SemanticRefs(p, t, Row(p, t, i).refs)
    <3> DEFINE refs == Row(p, t, i).refs
    <3>1. refs \subseteq Refs(p) /\ \A r \in refs : r = Ref(r.to, r.id, r.via) /\ Holds(t, r)
      <4>1. RowFormed(t, Row(p, t, i))
        BY <1>1, <1>4 DEF WellFormed, done
      <4>2. \A r \in refs : r = Ref(r.to, r.id, r.via) /\ Holds(t, r)
        BY <4>1 DEF RowFormed
      <4>3. refs \subseteq Refs(p)
        BY <1>1 DEF Refs, done
      <4> QED
        BY <4>2, <4>3
    <3> HIDE DEF refs
    <3>2. SemanticRefs(cfg', t, Clean(cfg, Mapped(a, t, refs))) = SemanticRefs(p, t, refs)
      BY <2>0, <3>1 DEF MeansTheSame
    <3>3. /\ NewRow(a, t, Row(p, t, i)).name = Row(p, t, i).name
          /\ NewRow(a, t, Row(p, t, i)).refs = Clean(cfg, Mapped(a, t, refs))
      BY DEF NewRow, refs
    <3> QED
      BY <1>9, <3>2, <3>3 DEF refs
  <2>2. Meaning(cfg', t) = {[name |-> Row(cfg', t, NewId(t, done, i)).name,
                             refs |-> SemanticRefs(cfg', t, Row(cfg', t, NewId(t, done, i)).refs)] : i \in done}
    BY <1>9 DEF Meaning
  <2>3. Meaning(p, t) = {[name |-> Row(p, t, i).name, refs |-> SemanticRefs(p, t, Row(p, t, i).refs)] : i \in done}
    BY DEF Meaning, done
  <2> QED
    BY <2>1, <2>2, <2>3
<1>13. /\ \A u \in Tables \ Before(s + 1) : u \notin {"app_settings", "aggregate_policy_groups"} => Ids(cfg', u) = {}
       /\ Ids(cfg', "aggregate_policy_groups") \subseteq Ids(p, "aggregate_policy_groups")
  <2>1. \A u \in Tables \ Before(s + 1) : u \notin {"app_settings", "aggregate_policy_groups"} => Ids(cfg', u) = {}
    BY <1>2, <1>5 DEF Recreated
  <2>2. CASE t = "aggregate_policy_groups"
    <3>1. t \notin Given
      BY <2>2 DEF Given, Keyed
    <3>2. Ids(cfg', t) = done
      BY <1>7, <1>9, <3>1
    <3> QED
      BY <2>1, <2>2, <3>2 DEF done
  <2>3. CASE t # "aggregate_policy_groups"
    <3>1. "aggregate_policy_groups" \in Tables
      BY DEF Tables
    <3> QED
      BY <1>5, <2>1, <2>3, <3>1 DEF Recreated
  <2> QED
    BY <2>2, <2>3
<1>14. \A u \in Before(s + 1) \cap Keyed : Ids(cfg', u) = Ids(p, u)
  <2>1. t \in Keyed => Ids(cfg', t) = done
    BY <1>7, <1>9 DEF Given
  <2> QED
    BY <1>2, <1>5, <2>1 DEF Recreated, done
<1>15. cfg'.approved = IF "services" \in Before(s + 1) THEN p.approved ELSE {}
  <2>1. CASE t = "services"
    <3>1. cfg.approved = {} /\ p.approved \subseteq done
      BY <1>2, <1>4, <2>1 DEF Recreated, Numbered, done
    <3> QED
      BY <1>2, <1>6, <2>1, <3>1
  <2>2. CASE t # "services"
    BY <1>2, <1>6, <2>2 DEF Recreated
  <2> QED
    BY <2>1, <2>2
<1>16. ASSUME NEW u \in Before(s + 1) \cap MapTables
       PROVE  Leads(idmap'[a], u, p, cfg')
  <2>1. CASE u = t
    <3> DEFINE g == [i \in done |-> NewId(t, done, i)]
    <3>1. idmap'[a][t] = g
      <4> HIDE DEF g
      <4>1. idmap' = [idmap EXCEPT ![a][t] = g]
        BY <1>6, <2>1 DEF g
      <4> QED
        BY <1>4, <2>1, <4>1
    <3>2. DOMAIN g = done /\ \A i \in done : g[i] = NewId(t, done, i)
      OBVIOUS
    <3> HIDE DEF g
    <3>3. \A i \in done : g[i] \in Ids(cfg', t) /\ Row(cfg', t, g[i]).name = Row(p, t, i).name
      <4>1. \A i \in done : NewRow(a, t, Row(p, t, i)).name = Row(p, t, i).name
        BY DEF NewRow
      <4> QED
        BY <1>9, <3>2, <4>1
    <3>4. t \in Given
      BY <2>1, GivenTables
    <3>5. \A r \in Refs(p) : r.to = t => r.id \in 1..(nextId[t] - 1)
      BY <1>4, <2>1 DEF Refs, Numbered, RefsNumbered
    <3>6. \A j \in Ids(cfg', t) : j \in nextId[t]..(nextId[t] + Cardinality(done) - 1)
      BY <1>8, <1>9, <3>4
    <3>7. \A r \in Refs(p) : r.to = t => r.id \notin Ids(cfg', t)
      <4>1. nextId[t] \in Nat /\ Cardinality(done) \in Nat
        BY <1>8, <3>4
      <4>2. \A j : ~(j \in 1..(nextId[t] - 1) /\ j \in nextId[t]..(nextId[t] + Cardinality(done) - 1))
        BY <4>1
      <4> QED
        BY <3>5, <3>6, <4>2
    <3> QED
      BY <2>1, <3>1, <3>2, <3>3, <3>7 DEF Leads, done
  <2>2. CASE u # t
    <3>1. Leads(idmap[a], u, p, cfg) /\ u \in Tables
      BY <1>2, <2>2 DEF Recreated
    <3>2. idmap'[a][u] = idmap[a][u]
      BY <1>4, <1>6, <2>2
    <3>3. Ids(cfg', u) = Ids(cfg, u) /\ \A i : Row(cfg', u, i) = Row(cfg, u, i)
      BY <1>5, <2>2, <3>1
    <3> QED
      BY <3>1, <3>2, <3>3 DEF Leads
  <2> QED
    BY <2>1, <2>2
<1>17. \A u \in Before(s + 1) : Meaning(cfg', u) = Meaning(p, u)
  BY <1>2, <1>11, <1>12
<1> QED
  BY <1>13, <1>14, <1>15, <1>16, <1>17 DEF Recreated

-----------------------------------------------------------------------------
(* Every step keeps what an import has done.                               *)

LEMMA ImportStep ==
  ASSUME ImportInv, SaveInv', NumInv', NEW a \in Admins, OnlyMoves(a),
         \A x \in Admins \ {a} : idmap'[x] = idmap[x],
         \/ UNCHANGED cfg /\ \A x \in Admins \ {a} : crossed'[x] = crossed[x]
         \/ Overtake(a),
         ImportOK(pc'[a], crossed'[a], op'[a], step'[a], acc'[a], idmap'[a], cfg')
  PROVE  ImportInv'
<1>1. ASSUME NEW x \in Admins \ {a}
      PROVE  ImportOK(pc'[x], crossed'[x], op'[x], step'[x], acc'[x], idmap'[x], cfg')
  <2>1. /\ pc'[x] = pc[x] /\ op'[x] = op[x] /\ step'[x] = step[x] /\ acc'[x] = acc[x]
        /\ idmap'[x] = idmap[x]
    BY DEF OnlyMoves
  <2>2. ImportOK(pc[x], crossed[x], op[x], step[x], acc[x], idmap[x], cfg)
    BY DEF ImportInv
  <2>3. CASE UNCHANGED cfg /\ crossed'[x] = crossed[x]
    BY <2>1, <2>2, <2>3, Zenon
  <2>4. CASE Overtake(a)
    <3>1. pc[x] # "idle" => crossed'[x]
      BY <2>4, Zenon DEF Overtake
    <3> QED
      BY <2>1, <2>2, <3>1 DEF ImportOK
  <2> QED
    BY <2>3, <2>4
<1> QED
  BY <1>1 DEF ImportInv

LEMMA RequestImports ==
  ASSUME ImportInv, SaveInv', NumInv', NEW a \in Admins, Request(a)
  PROVE  ImportInv'
<1>1. PICK o : \E l \in {"write", "export"} : Begin(a, o, l)
  BY RequestBegins
<1>2. PICK l \in {"write", "export"} : Begin(a, o, l)
  BY <1>1
<1>3. /\ pc' = [pc EXCEPT ![a] = l] /\ op' = [op EXCEPT ![a] = o]
      /\ crossed' = [crossed EXCEPT ![a] = FALSE]
      /\ UNCHANGED <<cfg, step, acc, idmap>>
  BY <1>2 DEF Begin, Goto
<1>4. /\ OnlyMoves(a) /\ pc'[a] = l
      /\ \A x \in Admins \ {a} : crossed'[x] = crossed[x]
  BY <1>3 DEF OnlyMoves, ImportInv, SaveInv, RefInv, ShapeInv
<1>5. ImportOK(pc'[a], crossed'[a], op'[a], step'[a], acc'[a], idmap'[a], cfg')
  BY <1>4 DEF ImportOK
<1> QED
  BY <1>3, <1>4, <1>5, ImportStep

LEMMA WriteImports ==
  ASSUME ImportInv, SaveInv', NumInv', NEW a \in Admins, Write(a)
  PROVE  ImportInv'
<1>1. /\ Overtake(a) /\ UNCHANGED <<step, acc, idmap>>
      /\ \/ Goto(a, "publish") /\ op' = op
         \/ Goto(a, "idle") /\ op' = [op EXCEPT ![a] = NoOp]
  BY DEF Write
<1>2. OnlyMoves(a) /\ pc'[a] \in {"publish", "idle"}
  BY <1>1 DEF OnlyMoves, Overtake, Goto, ImportInv, SaveInv, RefInv, ShapeInv
<1>3. ImportOK(pc'[a], crossed'[a], op'[a], step'[a], acc'[a], idmap'[a], cfg')
  BY <1>2 DEF ImportOK
<1> QED
  BY <1>1, <1>2, <1>3, ImportStep

\* Two configurations whose tables have the same meaning have the same digest.
LEMMA SameDigest ==
  ASSUME NEW c, NEW p, \A t \in Tables : Meaning(c, t) = Meaning(p, t), c.approved = p.approved
  PROVE  Digest(c) = Digest(p)
<1>1. Semantic(c) = [t \in Tables |-> Meaning(c, t)] /\ Semantic(p) = [t \in Tables |-> Meaning(p, t)]
  BY DEF Semantic, Meaning
<1>2. Semantic(c) = Semantic(p)
  BY <1>1
<1> QED
  BY <1>2 DEF Digest

\* Where a quiet step leads: to a digest that has been recreated, or on from one.
LEMMA QuietImports ==
  ASSUME ImportInv, SaveInv', NumInv', NEW a \in Admins,
         Refused(a) \/ PublishRead(a) \/ PublishReplace(a) \/ Preflight(a) \/ Imported(a) \/ Failed(a) \/ Verify(a)
  PROVE  ImportInv'
<1>1. /\ UNCHANGED <<cfg, crossed, idmap>>
      /\ acc' = acc \/ acc' = [acc EXCEPT ![a] = NoConfig]
      /\ \/ op' = op
         \/ op' = [op EXCEPT ![a] = NoOp]
         \/ op' = [op EXCEPT ![a] = [do |-> "replace", listing |-> Published(cfg)]]
      /\ step' = step \/ step' = [step EXCEPT ![a] = 1]
  BY DEF Refused, PublishRead, PublishReplace, Preflight, Imported, Failed, Verify
<1>2. PICK l : Goto(a, l) /\ l \in {"idle", "replace", "wipe", "reread", "publish", "failed"}
  BY DEF Refused, PublishRead, PublishReplace, Preflight, Imported, Failed, Verify
<1>3. OnlyMoves(a) /\ pc'[a] = l
  BY <1>1, <1>2 DEF OnlyMoves, Goto, ImportInv, SaveInv, RefInv, ShapeInv
<1>4. l = "wipe" => Preflight(a)
  BY <1>2, <1>3 DEF Refused, PublishRead, PublishReplace, Imported, Failed, Verify, Goto,
                    ImportInv, SaveInv, RefInv, ShapeInv
<1>5. l = "reread" => Imported(a)
  BY <1>2, <1>3 DEF Refused, PublishRead, PublishReplace, Preflight, Failed, Verify, Goto,
                    ImportInv, SaveInv, RefInv, ShapeInv
<1>6. l = "failed" => Verify(a)
  BY <1>2, <1>3 DEF Refused, PublishRead, PublishReplace, Preflight, Failed, Imported, Goto,
                    ImportInv, SaveInv, RefInv, ShapeInv
<1>7. ImportOK(pc[a], crossed[a], op[a], step[a], acc[a], idmap[a], cfg)
  BY DEF ImportInv
<1>8. ImportOK(pc'[a], crossed'[a], op'[a], step'[a], acc'[a], idmap'[a], cfg')
  <2>1. CASE l = "wipe"
    <3>1. op'[a] = op[a] /\ PolicyReferences(op[a].payload)
      BY <1>3, <1>4, <2>1 DEF Preflight, Goto, ImportInv, SaveInv, RefInv, ShapeInv
    <3> QED
      BY <1>3, <2>1, <3>1 DEF ImportOK
  <2>2. CASE l = "reread"
    <3>1. pc[a] = "section" /\ step[a] > Len(SectionOrder) /\ op' = op /\ step' = [step EXCEPT ![a] = 1] /\ acc' = acc
      BY <1>5, <2>2 DEF Imported
    <3>2. /\ step[a] \in Nat /\ DOMAIN step = Admins /\ step'[a] = 1
      BY <3>1 DEF ImportInv, SaveInv, RefInv, ShapeInv, RequestOK
    <3>3. ~crossed[a] => Digest(cfg) = Digest(op[a].payload)
      <4>1. Before(step[a]) = Tables
        BY <3>1, <3>2, AllSections
      <4>2. "services" \in Tables
        BY DEF Tables
      <4> QED
        BY <1>7, <3>1, <4>1, <4>2, SameDigest DEF ImportOK, Recreated
    <3>4. ReadSoFar(acc[a], cfg, 1)
      BY DEF ReadSoFar
    <3> QED
      BY <1>1, <1>3, <1>7, <2>2, <3>1, <3>2, <3>3, <3>4 DEF ImportOK
  <2>3. CASE l = "failed"
    <3>1. /\ pc[a] = "reread" /\ step[a] > Len(ExportOrder)
          /\ Goto(a, IF Digest(acc[a]) = Digest(op[a].payload) THEN "publish" ELSE "failed")
      BY <1>6, <2>3 DEF Verify
    <3>2. Digest(acc[a]) # Digest(op[a].payload)
      BY <1>3, <2>3, <3>1 DEF Goto, ImportInv, SaveInv, RefInv, ShapeInv
    <3>3. crossed[a]
      <4>1. ASSUME ~crossed[a]
            PROVE  FALSE
        <5>1. Digest(cfg) = Digest(op[a].payload) /\ ReadSoFar(acc[a], cfg, step[a])
          BY <1>7, <3>1, <4>1 DEF ImportOK
        <5>2. acc[a] = cfg
          BY <3>1, <5>1, ReadAll DEF ImportInv, SaveInv, RefInv, ShapeInv, RequestOK
        <5> QED
          BY <3>2, <5>1, <5>2
      <4> QED
        BY <4>1
    <3> QED
      BY <1>1, <1>3, <2>3, <3>3 DEF ImportOK
  <2>4. CASE l \in {"idle", "replace", "publish"}
    BY <1>3, <2>4 DEF ImportOK
  <2> QED
    BY <1>2, <2>1, <2>2, <2>3, <2>4
<1> QED
  BY <1>1, <1>3, <1>8, ImportStep

LEMMA ExportImports ==
  ASSUME ImportInv, SaveInv', NumInv', NEW a \in Admins, ExportSection(a)
  PROVE  ImportInv'
<1>1. PICK last \in Nat :
           /\ step[a] <= last
           /\ acc' = [acc EXCEPT ![a] = Read(cfg, acc[a], {ExportOrder[i] : i \in step[a]..last})]
           /\ step' = [step EXCEPT ![a] = last + 1]
  BY ExportEffect DEF ImportInv, SaveInv, RefInv, ShapeInv, RequestOK
<1>2. UNCHANGED <<cfg, op, pc, idmap, crossed>> /\ pc[a] \in {"export", "reread"}
  BY DEF ExportSection
<1> DEFINE new == Read(cfg, acc[a], {ExportOrder[i] : i \in step[a]..last})
<1>3. ReadSoFar(acc[a], cfg, step[a]) => ReadSoFar(new, cfg, last + 1)
  BY <1>1, ReadOn DEF ImportInv, SaveInv, RefInv, ShapeInv, RequestOK
<1>4. OnlyMoves(a) /\ acc'[a] = new /\ step'[a] = last + 1
  BY <1>1, <1>2 DEF OnlyMoves, ImportInv, SaveInv, RefInv, ShapeInv
<1> HIDE DEF new
<1>5. ImportOK(pc'[a], crossed'[a], op'[a], step'[a], acc'[a], idmap'[a], cfg')
  <2>1. ImportOK(pc[a], crossed[a], op[a], step[a], acc[a], idmap[a], cfg)
    BY DEF ImportInv
  <2> QED
    BY <1>2, <1>3, <1>4, <2>1 DEF ImportOK
<1> QED
  BY <1>2, <1>4, <1>5, ImportStep

LEMMA SnapshotImports ==
  ASSUME ImportInv, SaveInv', NumInv', NEW a \in Admins, SnapshotInsert(a)
  PROVE  ImportInv'
<1>1. /\ UNCHANGED <<cfg, crossed, idmap>>
      /\ acc' = [acc EXCEPT ![a] = NoConfig] /\ step' = [step EXCEPT ![a] = 1]
      /\ \/ Goto(a, "idle") /\ op' = [op EXCEPT ![a] = NoOp]
         \/ Goto(a, "preflight") /\ op' = op
  BY DEF SnapshotInsert
<1>2. OnlyMoves(a) /\ pc'[a] \in {"idle", "preflight"}
  BY <1>1 DEF OnlyMoves, Goto, ImportInv, SaveInv, RefInv, ShapeInv
<1>3. ImportOK(pc'[a], crossed'[a], op'[a], step'[a], acc'[a], idmap'[a], cfg')
  BY <1>2 DEF ImportOK
<1> QED
  BY <1>1, <1>2, <1>3, ImportStep

LEMMA WipeImports ==
  ASSUME ImportInv, SaveInv', NumInv', NEW a \in Admins, Wipe(a)
  PROVE  ImportInv'
<1>1. /\ pc[a] = "wipe" /\ Overtake(a) /\ Goto(a, "section") /\ UNCHANGED <<op, step, acc>>
      /\ \E m : idmap' = [idmap EXCEPT ![a] = m]
  BY DEF Wipe
<1>2. OnlyMoves(a) /\ pc'[a] = "section" /\ op'[a] = op[a] /\ step'[a] = step[a]
  BY <1>1 DEF OnlyMoves, Overtake, Goto, ImportInv, SaveInv, RefInv, ShapeInv
<1>3. \A x \in Admins \ {a} : idmap'[x] = idmap[x]
  BY <1>1 DEF ImportInv, NumInv
<1>4. step[a] = 1 /\ PolicyReferences(op[a].payload)
  BY <1>1 DEF ImportInv, ImportOK, SaveInv, SavedOK
<1>5. Recreated(cfg', op[a].payload, idmap'[a], 1)
  <2>1. /\ cfg'.approved = {}
        /\ \A t \in Tables \ {"app_settings", "aggregate_policy_groups"} : Ids(cfg', t) = {}
        /\ Ids(cfg', "aggregate_policy_groups") \subseteq BuiltinGroups
    BY WipeIs DEF ImportInv, SaveInv
  <2>2. BuiltinGroups \subseteq Ids(op[a].payload, "aggregate_policy_groups")
    BY <1>1 DEF ImportInv, SaveInv, RefInv, ShapeInv, RequestOK
  <2> QED
    BY <2>1, <2>2, AllSections DEF Recreated
<1>6. ImportOK(pc'[a], crossed'[a], op'[a], step'[a], acc'[a], idmap'[a], cfg')
  BY <1>2, <1>4, <1>5 DEF ImportOK
<1> QED
  BY <1>1, <1>2, <1>3, <1>6, ImportStep

\* A section that stops has met a row that does not fit, and in a payload whose
\* references resolve there is none.
LEMMA SectionImports ==
  ASSUME ImportInv, SaveInv', NumInv', NEW a \in Admins, Section(a)
  PROVE  ImportInv'
<1> DEFINE t == SectionOrder[step[a]]
           p == op[a].payload
<1>1. /\ pc[a] = "section" /\ step[a] <= Len(SectionOrder) /\ Overtake(a) /\ acc' = acc /\ op' = op
  BY Zenon DEF Section
<1>2. step[a] \in 1..11 /\ t \in Tables
  BY <1>1, SectionTable DEF ImportInv, SaveInv
<1>3. \E done \in SUBSET Ids(p, t) : \E f : SectionOf(a, t, p, done, f)
  BY SectionIs DEF ImportInv
<1>4. PICK done \in SUBSET Ids(p, t) : \E f : SectionOf(a, t, p, done, f)
  BY <1>3
<1>5. PICK f : SectionOf(a, t, p, done, f)
  BY <1>4
<1>6. \A x \in Admins \ {a} : idmap'[x] = idmap[x]
  <2>1. idmap' = IF t \in MapTables THEN [idmap EXCEPT ![a][t] = [i \in done |-> NewId(t, done, i)]] ELSE idmap
    BY <1>5, Zenon DEF SectionOf
  <2> HIDE DEF t
  <2> QED
    BY <2>1 DEF ImportInv, NumInv
<1>7. ~crossed'[a] => ~crossed[a]
  BY <1>1 DEF Overtake
<1>8. PolicyReferences(p) /\ (~crossed[a] => Recreated(cfg, p, idmap[a], step[a])) /\ WellFormed(p)
  <2>1. ImportOK(pc[a], crossed[a], op[a], step[a], acc[a], idmap[a], cfg) /\ RequestOK(pc[a], op[a], step[a])
    BY DEF ImportInv, SaveInv, RefInv, ShapeInv
  <2> QED
    BY <1>1, <2>1 DEF ImportOK, RequestOK, OpShaped
<1>9. op'[a] = op[a]
  BY <1>1
<1> HIDE DEF t, p
<1>10. CASE done = Ids(p, t)
  <2>1. step' = [step EXCEPT ![a] = @ + 1] /\ pc' = pc
    BY <1>5, <1>10, Zenon DEF SectionOf
  <2>2. OnlyMoves(a) /\ pc'[a] = "section" /\ step'[a] = step[a] + 1
    BY <1>1, <2>1 DEF OnlyMoves, Overtake, ImportInv, SaveInv, RefInv, ShapeInv
  <2>3. ~crossed[a] => Recreated(cfg', p, idmap'[a], step[a] + 1)
    <3>1. SectionOf(a, t, p, Ids(p, t), f)
      BY <1>5, <1>10
    <3> QED
      BY <1>8, <3>1, SectionRecreates DEF ImportInv, t, p
  <2>4. ImportOK(pc'[a], crossed'[a], op'[a], step'[a], acc'[a], idmap'[a], cfg')
    BY <1>7, <1>8, <1>9, <2>2, <2>3 DEF ImportOK, p
  <2> QED
    BY <1>1, <1>6, <2>2, <2>4, ImportStep
<1>11. CASE done # Ids(p, t)
  <2>1. step' = [step EXCEPT ![a] = 1] /\ Goto(a, "failed")
    BY <1>5, <1>11, Zenon DEF SectionOf
  <2>2. OnlyMoves(a) /\ pc'[a] = "failed"
    BY <1>1, <2>1 DEF OnlyMoves, Overtake, Goto, ImportInv, SaveInv, RefInv, ShapeInv
  <2>3. ~(\A i \in Ids(p, t) : RowFits(a, t, Row(p, t, i)))
    BY <1>5, <1>11, Zenon DEF SectionOf
  <2>4. ~crossed[a] => ~Restorable(p)
    BY <1>2, <1>8, <2>3, RowsFit DEF t
  <2>5. ImportOK(pc'[a], crossed'[a], op'[a], step'[a], acc'[a], idmap'[a], cfg')
    BY <1>7, <1>9, <2>2, <2>4 DEF ImportOK, p
  <2> QED
    BY <1>1, <1>6, <2>2, <2>5, ImportStep
<1> QED
  BY <1>10, <1>11

LEMMA InterruptedImports ==
  ASSUME ImportInv, SaveInv', NumInv', NEW a \in Admins, Interrupted(a)
  PROVE  ImportInv'
<1>1. CASE /\ Overtake(a) /\ step' = [step EXCEPT ![a] = 1] /\ Goto(a, "raised")
           /\ UNCHANGED <<op, acc, idmap>>
  <2>1. OnlyMoves(a) /\ pc'[a] = "raised"
    BY <1>1 DEF OnlyMoves, Overtake, Goto, ImportInv, SaveInv, RefInv, ShapeInv
  <2>2. ImportOK(pc'[a], crossed'[a], op'[a], step'[a], acc'[a], idmap'[a], cfg')
    BY <2>1 DEF ImportOK
  <2> QED
    BY <1>1, <2>1, <2>2, ImportStep
<1>2. CASE Restarted
  <2>1. \A x \in Admins : pc'[x] = "idle"
    BY <1>2 DEF Restarted
  <2> QED
    BY <2>1 DEF ImportInv, ImportOK
<1> QED
  BY <1>1, <1>2, InterruptedParts

LEMMA ImportNext == ImportInv /\ [Next]_vars => ImportInv'
<1> SUFFICES ASSUME ImportInv, [Next]_vars PROVE ImportInv'
  OBVIOUS
<1>1. SaveInv' /\ NumInv'
  BY SaveNext, NumNext DEF ImportInv
<1>2. CASE Crash
  BY <1>1, <1>2 DEF Crash, Restarted, ImportInv, ImportOK
<1>3. ASSUME NEW a \in Admins, Request(a)
      PROVE  ImportInv'
  BY <1>1, <1>3, RequestImports
<1>4. ASSUME NEW a \in Admins, Advance(a)
      PROVE  ImportInv'
  BY <1>1, <1>4, WriteImports, QuietImports, ExportImports, SnapshotImports, WipeImports, SectionImports, InterruptedImports DEF Advance
<1>5. CASE UNCHANGED vars
  BY <1>1, <1>5 DEF vars, local, ImportInv
<1> QED
  BY <1>2, <1>3, <1>4, <1>5 DEF Next

LEMMA ImportInit == Init => ImportInv
<1> SUFFICES ASSUME Init PROVE ImportInv
  OBVIOUS
<1>1. SaveInv /\ NumInv
  BY SaveInit, NumInit
<1>2. \A a \in Admins : pc[a] = "idle"
  BY DEF Init
<1> QED
  BY <1>1, <1>2 DEF ImportInv, ImportOK

\* restore_config_snapshot: when import_config has recreated every section and no
\* other thread has committed since the request, the rows, their names and what
\* they refer to are those of the snapshot, although profiles and templates have
\* new ids, so the digest of the configuration is the digest of the snapshot.
THEOREM RestoresAreFaithful == Spec => []RestoreIsFaithful
<1>1. ImportInv => RestoreIsFaithful
  BY DEF ImportInv, ImportOK, RestoreIsFaithful
<1> QED
  BY <1>1, ImportInit, ImportNext, PTL DEF Spec

\* import_config deletes the configuration first and recreates it row by row: a
\* backup in which every reference is one that the forms accept is recreated to
\* the end, since no section names a table that a later section recreates.
THEOREM ConsistentBackupsRestore == Spec => []ConsistentBackupRestores
<1>1. ImportInv => ConsistentBackupRestores
  BY DEF ImportInv, ImportOK, ConsistentBackupRestores
<1> QED
  BY <1>1, ImportInit, ImportNext, PTL DEF Spec
=============================================================================

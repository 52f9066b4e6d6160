--------------------------- MODULE MCPolicyConfig ---------------------------
(* A household configuration that uses every table, for TLC.               *)
EXTENDS PolicyConfig, TLC

CONSTANTS p1, s1, g1, b1, d1, d2, n1, n2

R(name, refs) == [name |-> name, refs |-> refs]

\* A profile with a preset and a quota on an approved service, a device that has
\* it, a group of the service and a collection of the group, a built-in group to
\* which the service was added, a bedtime plan for the profile and an exception
\* that uses a schedule template.
Household ==
  [rows |->
     ("bandwidth_presets" :> (p1 :> R(p1, {})))
     @@ ("services" :> (s1 :> R(s1, {})))
     @@ ("aggregate_policy_groups" :> (g1 :> R(g1, {Ref("services", s1, "member")})
                                       @@ b1 :> R(b1, {Ref("services", s1, "member")})))
     @@ ("profiles" :> (1 :> R(n1, {Ref("bandwidth_presets", p1, "preset"),
                                    Ref("services", s1, "quota")})))
     @@ ("policy_templates" :> Empty)
     @@ ("device_policy" :> (d1 :> R(d1, {Ref("profiles", 1, "profile")})))
     @@ ("service_groups" :> (1 :> R(n1, {Ref("aggregate_policy_groups", g1, "listed")})))
     @@ ("schedule_plans" :> (1 :> R("label", {Ref("profiles", 1, "target")})))
     @@ ("schedule_templates" :> (1 :> R(n1, {})))
     @@ ("date_exceptions" :> (1 :> R("label", {Ref("schedule_templates", 1, "template")})))
     @@ ("app_settings" :> ("defaults" :> R("defaults", {Ref("profiles", 1, "default")}))),
   approved |-> {s1}]

\* A household that has just entered a service, not approved and not used.
NewHousehold ==
  [rows |-> [t \in Tables |->
               CASE t = "services" -> s1 :> R(s1, {})
                 [] t = "aggregate_policy_groups" -> b1 :> R(b1, {})
                 [] t = "app_settings" -> "defaults" :> R("defaults", {})
                 [] OTHER -> Empty],
   approved |-> {}]

Households == {Household, NewHousehold}
\* Nothing is claimed once a write was decided on a stale state.
UntilRaced == ~raced
Symmetry == Permutations(Admins)
=============================================================================

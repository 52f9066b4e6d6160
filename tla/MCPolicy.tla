------------------------------ MODULE MCPolicy ------------------------------
EXTENDS Policy, TLC

Symmetry == Permutations(Observers)

All     == [type |-> "all", value |-> None]
Mine    == [type |-> "device", value |-> Device]
Prof(p) == [type |-> "profile", value |-> p]

Daily == 0 .. 6

ModePlan(id, target, days, slot, value) ==
  [id |-> id, enabled |-> TRUE, target |-> target, days |-> days, slot |-> slot,
   kind |-> "mode", key |-> None, value |-> value]

ServicePlan(id, target, days, slot, key, state) ==
  [ModePlan(id, target, days, slot, state) EXCEPT !.kind = "service", !.key = key]

Bedtime  == ModePlan(1, All, Daily, 3, "blocked")
Wake     == ModePlan(2, All, Daily, 1, "normal")
Homework == ModePlan(3, Prof(1), {1, 2}, 2, "slow")
MyWake   == ModePlan(4, Mine, {1}, 1, "slow")
MyRest   == ModePlan(5, Mine, {1, 3}, 1, "blocked")
Midnight == ModePlan(6, All, {1, 2}, 0, "slow")
NoGames  == ServicePlan(7, All, {0, 1}, 2, "gaming", "block")
Play     == ServicePlan(8, Prof(1), {1}, 1, "roblox", "allow")
Stop     == ServicePlan(9, All, {1}, 3, "roblox", "block")
Pause    == ServicePlan(10, All, {2}, 3, "roblox", "allow")
Skipped  == [Stop EXCEPT !.enabled = FALSE, !.id = 11]

PlanSets == { {}, {Wake, MyWake}, {Bedtime, Wake, Homework}, {Wake, MyWake, MyRest},
              {Wake, Homework, Midnight}, {NoGames, Play}, {NoGames, Stop, Pause},
              {Bedtime, Wake, NoGames, Play}, {Skipped, Play} }

Exc(id, target, from, to, mode) ==
  [id |-> id, target |-> target, start |-> from, end |-> to, mode |-> mode]

ExceptionSets == { {}, {Exc(1, All, 1, 1, "slow")}, {Exc(2, Prof(1), 1, 2, "blocked")},
                   {Exc(1, All, 0, 2, "slow"), Exc(3, Mine, 1, 1, "template")},
                   {Exc(4, All, 0, 1, "blocked"), Exc(5, All, 1, 2, "slow")},
                   {Exc(6, Mine, 0, 1, "template"), Exc(7, Mine, 1, 2, "template")} }

Entry(id, days, slot, mode) ==
  [id |-> id, days |-> days, slot |-> slot, kind |-> "mode", key |-> None, value |-> mode]

Templates == { {Entry(0, {1}, 1, "normal"), Entry(1, {1, 2}, 2, "blocked")},
               {Entry(0, {1}, 2, "normal"), Entry(1, {1}, 2, "blocked")} }

Family(mode, blocked, daily, action, quotas) ==
  [mode |-> mode, preset |-> "normal", blocked |-> blocked, daily |-> daily,
   action |-> action, quotas |-> quotas]

Profiles == [p \in 1 .. 2 |->
               IF p = 1 THEN Family("normal", {"gaming", "custom"}, 0, "blocked", <<>>)
               ELSE [Family("blocked", {"roblox"}, 2, "slow",
                            [k \in {"gaming"} |-> 1]) EXCEPT !.preset = "limited"]]

Candidates == { [id |-> 1, profile |-> Family("slow", {"roblox"}, 1, "blocked", <<>>)],
                [id |-> 2, profile |-> Family("normal", {"gaming"}, 1, "slow",
                                              [k \in {"roblox"} |-> 1])] }

Summer   == [forward |-> 5, back |-> 9]   \* a gap in day 1, a fold in day 2
Midnights == [forward |-> 4, back |-> 8]  \* day 1 has no midnight, day 2 has two
NoChange == [forward |-> 99, back |-> 99]

House(plans, exceptions, template, zone, dev, ticks, edits, uses, observations) ==
  [plans |-> plans, exceptions |-> exceptions, template |-> template, zone |-> zone,
   profiles |-> Profiles, candidates |-> Candidates, device |-> dev,
   services |-> {"roblox", "steam", "custom"}, supported |-> {"roblox", "steam"},
   groups |-> [g \in {"gaming"} |-> {"roblox", "steam"}], engine |-> TRUE,
   budget |-> [ticks |-> ticks, edits |-> edits, uses |-> uses, observations |-> observations]]

Dev(p, override) == [profile |-> p, override |-> override]

MCHouseholds ==
  {House(p, e, t, z, Dev(1, "inherit"), 12, 1, 0, 0) :
     p \in PlanSets, e \in ExceptionSets, t \in Templates, z \in {Summer, Midnights}}
  \cup {House(p, {}, {}, NoChange, Dev(d, "inherit"), 9, 1, 2, 0) :
          p \in {{}, {NoGames, Play}, {Stop, Pause, Bedtime}}, d \in {1, 2}}
  \cup {[House({Stop}, {}, {}, Summer, Dev(2, "slow"), 9, 0, 2, 0) EXCEPT !.engine = FALSE]}
  \cup {[h EXCEPT !.candidates = {}, !.profiles = [p \in {1} |-> Profiles[p]]] : h \in
          { House({MyWake}, {Exc(2, Prof(1), 1, 2, "blocked")}, {}, Midnights,
                  Dev(1, "inherit"), 6, 2, 0, 3),
            House({MyWake, MyRest}, {}, {}, Summer, None, 7, 1, 0, 3) }}
=============================================================================

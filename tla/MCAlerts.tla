------------------------------ MODULE MCAlerts ------------------------------
EXTENDS Alerts

CONSTANTS p1, h1

MCMaxAttempts == [push |-> 2, external |-> 1, summary |-> 2]

Loud  == [enabled |-> TRUE, min_severity |-> "info", muted |-> {}, cooldown |-> FALSE,
          quiet_hours |-> FALSE, critical_bypass |-> TRUE]
Quiet == [Loud EXCEPT !.min_severity = "warning", !.cooldown = TRUE, !.quiet_hours = TRUE]

MCPreferences == {Loud, Quiet}

D(order, preference, push, hook, daily, scans, acts, upsets) ==
  [sources |-> order, prefs |-> preference, subs |-> [s \in {p1} |-> push], webhook |-> hook,
   summary |-> daily, budget |-> [scans |-> scans, acts |-> acts, upsets |-> upsets]]

MCDeployments ==
  { D(<<"bypass">>, Loud, FALSE, Off, {}, 2, 1, 0),
    D(<<"bypass">>, Loud, TRUE, Off, {}, 1, 1, 1),
    D(<<"bypass">>, Quiet, TRUE, Off, {}, 3, 0, 0),
    D(<<"bypass">>, Loud, TRUE, h1, {}, 1, 0, 1),
    D(<<"security">>, Loud, FALSE, h1, {}, 2, 0, 1),
    D(<<"operations">>, Loud, TRUE, Off, {}, 3, 1, 0),
    D(<<"reconciler">>, Quiet, FALSE, h1, {}, 1, 0, 0),
    D(<<"quota">>, Quiet, TRUE, Off, {}, 1, 0, 0),
    D(<<>>, Loud, TRUE, h1, {}, 0, 2, 1),
    D(<<>>, Loud, FALSE, Off, {"summary:email"}, 0, 2, 1) }
=============================================================================

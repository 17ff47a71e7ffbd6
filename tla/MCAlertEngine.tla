---------------------------- MODULE MCAlertEngine ----------------------------
(* A small instance of AlertEngine: a dish alert, the obstruction average   *)
(* and the failover event, switched between two rule tables.  The clock     *)
(* counts units of 30 s, so that path_degraded clears after two.  The       *)
(* outage alerts and their suppression are MCEvaluation's.                  *)
EXTENDS AlertEngine, TLC

SmallCatalog == <<"path_degraded", "obstruction_high">>
SmallAlerts  == {"path_degraded", "obstruction_high"}

R(enabled, clearHold) == [enabled |-> enabled, hold |-> 0, clearHold |-> clearHold]
PathOnly   == [n \in SmallAlerts \cup {"failover_event"} |->
                 R(n = "path_degraded", IF n = "path_degraded" THEN 2 ELSE 0)]
AllButPath == [n \in SmallAlerts \cup {"failover_event"} |-> R(n # "path_degraded", 0)]
SmallTables == {PathOnly, AllButPath}

SmallSignals == {[n \in SmallAlerts |-> IF n = "path_degraded" THEN level ELSE "unknown"] :
                   level \in {"clear", "raised"}}
NoOutages == [t \in 0 .. MaxTime |-> {{}}]

Symmetry == Permutations(MwanSets)
=============================================================================

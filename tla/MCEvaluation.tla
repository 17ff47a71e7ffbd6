---------------------------- MODULE MCEvaluation ----------------------------
(* Small instances of Evaluation.  The clock counts units of 30 s or more;  *)
(* outage alerts hold one of them and clear at once.                        *)
EXTENDS Evaluation

Table == [n \in Alerts \cup {"failover_event"} |->
  [enabled |-> n # "failover_event", hold |-> 1, clearHold |-> 0]]
OneTable == {Table}
DishCatalog == <<"dish_unreachable">>
OutageCatalog == <<"outage_started">>
BothCatalog == <<"outage_started", "dish_unreachable">>
=============================================================================

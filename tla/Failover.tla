------------------------------ MODULE Failover ------------------------------
(***************************************************************************)
(* The failover assist: the WAN monitor's idea of the Starlink interface   *)
(* (internal/wan/monitor.go, discovery.go), the mwan3 manager that reports *)
(* the state of the WANs and writes a failover plan into the configuration *)
(* (internal/mwan/manager.go), and the request that asks for it            *)
(* (internal/api/failover.go).  UCI, mwan3 and the user are outside.       *)
(***************************************************************************)
EXTENDS Naturals, FiniteSets

CONSTANTS
  Devices,     \* the network devices the dish can be reached by
  Interfaces,  \* the WAN interfaces mwan3 knows, by their own names
  None,        \* no interface
  Requests,    \* the requests for a plan that can be in progress at once
  Override,    \* cfg.WANInterface, or None
  MaxChanges,  \* bound on the changes outside the daemon
  MaxFailures  \* bound on the failing commands

ASSUME FailoverAssumption ==
  /\ None \notin Devices \cup Interfaces \cup Requests /\ Override \in Devices \cup {None}
  /\ MaxChanges \in Nat /\ MaxFailures \in Nat

VARIABLES
  route,      \* the device the dish is reached by, as the kernel has it
  online,     \* the interfaces that are online, as mwan3 has it
  managed,    \* whether GL.iNet's own multi-WAN is in charge
  custom,     \* whether the user has a configuration of his own
  plans,      \* the primaries of the plans in mwan3's configuration
  loaded,     \* the primaries of the plans mwan3 runs
  interface,  \* Monitor.snapshot.Interface
  available,  \* Monitor.snapshot.Available
  status,     \* Manager.status: what is active, and the last switch
  lastActive, \* Manager.lastActive, None before the first answer
  answer,     \* what mwan3 answered each caller that has not stored it
  request,    \* what each request is doing
  applying,   \* who holds Manager.applyMu
  changes, failed,
  told,       \* history: the plans whose caller was told of an error
  blind       \* history: whether a check went on without the configuration

world == <<route, online, managed, custom>>
monitor == <<interface, available>>
manager == <<status, lastActive>>
vars == <<world, plans, loaded, monitor, manager, answer, request, applying, changes, failed, told, blind>>

Loop == "loop"
Callers == {Loop} \cup Requests
NoStatus == [active |-> {}, from |-> None, to |-> None]
Unheard == [heard |-> FALSE, online |-> {}]
Idle == [at |-> "idle", primary |-> None, answer |-> "none"]

Init ==
  /\ route \in Devices \cup {None} /\ online \in SUBSET Interfaces
  /\ managed \in BOOLEAN /\ custom \in BOOLEAN
  /\ plans = {} /\ loaded = {}
  /\ interface = None /\ available = FALSE
  /\ status = None /\ lastActive = None
  /\ answer = [c \in Callers |-> Unheard]
  /\ request = [r \in Requests |-> Idle] /\ applying = None
  /\ changes = 0 /\ failed = 0 /\ told = {} /\ blind = FALSE

-----------------------------------------------------------------------------
(* Outside the daemon. *)
Changes ==
  /\ changes < MaxChanges /\ changes' = changes + 1
  /\ UNCHANGED <<monitor, manager, answer, request, applying, failed, blind>>
RouteMoves ==
  /\ Changes /\ (\E i \in Devices \cup {None} : i # route /\ route' = i)
  /\ UNCHANGED <<online, managed, custom, plans, loaded, told>>
LinkMoves ==
  /\ Changes /\ (\E o \in SUBSET Interfaces : o # online /\ online' = o)
  /\ UNCHANGED <<route, managed, custom, plans, loaded, told>>
UserConfigures ==
  /\ Changes /\ ~custom /\ custom' = TRUE
  /\ UNCHANGED <<route, online, managed, plans, loaded, told>>
(* The user goes back to the configuration mwan3 comes with. *)
UserResets ==
  /\ Changes /\ applying = None /\ plans # {}
  /\ plans' = {} /\ loaded' = {} /\ told' = {} /\ custom' = FALSE
  /\ UNCHANGED <<route, online, managed>>

-----------------------------------------------------------------------------
(* The configured interface, or the one found: the device of the most       *)
(* specific route to the dish, without a route the one called wan if there *)
(* is one.  Route is the outcome of that search: where it is wan, either    *)
(* may have found it.                                                      *)
Found == IF Override # None THEN Override ELSE route

(* Monitor.discover: when nothing is found the old interface stays, not     *)
(* available.                                                              *)
Discover ==
  /\ available' = (Found # None)
  /\ interface' = IF Found = None THEN interface ELSE Found
  /\ UNCHANGED <<world, plans, loaded, manager, answer, request, applying, changes, failed, told, blind>>

(* Refresh asks before it locks, and stores under the lock; an answer that  *)
(* cannot be had leaves the old status.                                    *)
Asks(c) == answer' = [answer EXCEPT ![c] = [heard |-> TRUE, online |-> online]]
Switched(active) == lastActive # None /\ active # lastActive
Stores(c) ==
  IF answer[c].heard
  THEN LET active == answer[c].online IN
       /\ status' = IF Switched(active) THEN [active |-> active, from |-> lastActive, to |-> active]
                    ELSE [NoStatus EXCEPT !.active = active]
       /\ lastActive' = active
       /\ answer' = [answer EXCEPT ![c] = Unheard]
  ELSE UNCHANGED <<manager, answer>>
Fails == failed < MaxFailures /\ failed' = failed + 1

RunAsks ==
  /\ ~answer[Loop].heard /\ Asks(Loop)
  /\ UNCHANGED <<world, plans, loaded, monitor, manager, request, applying, changes, failed, told, blind>>
RunStores ==
  /\ answer[Loop].heard /\ Stores(Loop)
  /\ UNCHANGED <<world, plans, loaded, monitor, request, applying, changes, failed, told, blind>>

-----------------------------------------------------------------------------
(* Assist: a refresh, then the configuration; any option of a WAN's own     *)
(* section that is not mwan3's example counts as the user's, and a plan of  *)
(* ours writes such options.                                               *)
HasCustomConfig == custom \/ plans # {}
Backup(primary) == {i \in Interfaces : i # primary}
Refuses(primary, shown) ==
  \/ status' = None
  \/ shown /\ HasCustomConfig
  \/ Cardinality(Interfaces) < 2
  \/ managed
  \/ primary = None \/ Backup(primary) = {}

Goes(r, at) == request' = [request EXCEPT ![r].at = at]
Answers(r, text) == request' = [request EXCEPT ![r] = [@ EXCEPT !.at = "idle", !.answer = text]]
Reports(r, text) == request' = [request EXCEPT ![r] = [@ EXCEPT !.at = "report", !.answer = text]]
Releases == applying' = None

(* The handler asks for itself first, and then again under applyMu; each    *)
(* time it reads the monitor's interface of that moment.                   *)
Post(r) ==
  /\ request[r].at = "idle"
  /\ request' = [request EXCEPT ![r] = [Idle EXCEPT !.at = "ask", !.primary = interface]]
  /\ UNCHANGED <<world, plans, loaded, monitor, manager, answer, applying, changes, failed, told, blind>>

Get(r) ==
  /\ request[r].at = "idle"
  /\ request' = [request EXCEPT ![r] = [Idle EXCEPT !.at = "report", !.answer = "shown"]]
  /\ UNCHANGED <<world, plans, loaded, monitor, manager, answer, applying, changes, failed, told, blind>>

AssistAsks(r) ==
  /\ request[r].at \in {"ask", "ask_locked", "report"}
  /\ \/ Asks(r) /\ UNCHANGED failed
     \/ Fails /\ UNCHANGED answer
  /\ Goes(r, CASE request[r].at = "ask" -> "show" [] request[r].at = "ask_locked" -> "show_locked"
                 [] OTHER -> "reported")
  /\ UNCHANGED <<world, plans, loaded, monitor, manager, applying, changes, told, blind>>

(* What uci show fails to show counts as not there. *)
AssistShows(r) ==
  /\ request[r].at \in {"show", "show_locked"}
  /\ Stores(r)
  /\ \E shown \in BOOLEAN :
       /\ IF shown THEN UNCHANGED failed ELSE Fails
       /\ blind' = (blind \/ (~shown /\ ~Refuses(request[r].primary, shown)))
       /\ IF Refuses(request[r].primary, shown)
          THEN IF request[r].at = "show" THEN Answers(r, "conflict") /\ UNCHANGED applying
               ELSE Reports(r, "conflict") /\ Releases
          ELSE Goes(r, IF request[r].at = "show" THEN "lock" ELSE "batch") /\ UNCHANGED applying
  /\ UNCHANGED <<world, plans, loaded, monitor, changes, told>>

LocksNothing(r) ==
  /\ request[r].at = "lock"
  /\ request' = [request EXCEPT ![r].at = "ask_locked", ![r].primary = interface]
  /\ UNCHANGED <<world, plans, loaded, monitor, manager, answer, applying, changes, failed, told, blind>>
Locks(r) ==
  /\ request[r].at = "lock" /\ applying = None
  /\ applying' = r
  /\ request' = [request EXCEPT ![r].at = "ask_locked", ![r].primary = interface]
  /\ UNCHANGED <<world, plans, loaded, monitor, manager, answer, changes, failed, told, blind>>

(* uci batch, the reload, a last refresh.  A batch that fails may have left *)
(* its lines staged, where uci show sees them; after a failing reload the   *)
(* configuration stays.                                                    *)
Batch(r) ==
  LET primary == request[r].primary IN
  /\ request[r].at = "batch"
  /\ \/ plans' = plans \cup {primary} /\ Goes(r, "reload") /\ UNCHANGED <<applying, failed, told>>
     \/ /\ Fails /\ Answers(r, "error") /\ Releases
        /\ told' = told \cup {primary}
        /\ plans' \in {plans, plans \cup {primary}}
  /\ UNCHANGED <<world, loaded, monitor, manager, answer, changes, blind>>

ReloadUnchecked(r) ==
  /\ request[r].at = "reload"
  /\ \/ loaded' = plans /\ UNCHANGED failed
     \/ Fails /\ UNCHANGED loaded
  /\ Goes(r, "refresh")
  /\ UNCHANGED <<world, plans, monitor, manager, answer, applying, changes, told, blind>>
Reload(r) ==
  /\ request[r].at = "reload"
  /\ \/ loaded' = plans /\ Goes(r, "refresh") /\ UNCHANGED <<applying, failed, told>>
     \/ /\ Fails /\ Answers(r, "error") /\ Releases /\ UNCHANGED loaded
        /\ told' = told \cup {request[r].primary}
  /\ UNCHANGED <<world, plans, monitor, manager, answer, changes, blind>>

ApplyRefreshes(r) ==
  /\ request[r].at = "refresh"
  /\ \/ Asks(r) /\ UNCHANGED failed
     \/ Fails /\ UNCHANGED answer
  /\ Goes(r, "finish")
  /\ UNCHANGED <<world, plans, loaded, monitor, manager, applying, changes, told, blind>>
ApplyReturns(r) ==
  /\ request[r].at = "finish"
  /\ Stores(r) /\ Releases /\ Reports(r, "ok")
  /\ UNCHANGED <<world, plans, loaded, monitor, changes, failed, told, blind>>

(* The answer of a GET, and of a POST that came so far, is another Assist. *)
ReportReturns(r) ==
  /\ request[r].at = "reported"
  /\ Stores(r) /\ Goes(r, "idle")
  /\ UNCHANGED <<world, plans, loaded, monitor, applying, changes, failed, told, blind>>

Handles(r) ==
  \/ Get(r) \/ ReportReturns(r) \/ Post(r) \/ AssistAsks(r) \/ AssistShows(r) \/ Locks(r)
  \/ Batch(r) \/ Reload(r) \/ ApplyRefreshes(r) \/ ApplyReturns(r)
Next ==
  \/ RouteMoves \/ LinkMoves \/ UserConfigures \/ UserResets
  \/ Discover \/ RunAsks \/ RunStores
  \/ \E r \in Requests : Handles(r)

Spec == Init /\ [][Next]_vars

-----------------------------------------------------------------------------
Stages == {"idle", "ask", "show", "lock", "ask_locked", "show_locked", "batch", "reload",
           "refresh", "finish", "report", "reported"}
Names == Devices \cup {None}
TypeOK ==
  /\ route \in Names /\ online \subseteq Interfaces /\ managed \in BOOLEAN /\ custom \in BOOLEAN
  /\ plans \subseteq Devices /\ loaded \subseteq Devices /\ told \subseteq Devices
  /\ interface \in Names /\ available \in BOOLEAN /\ applying \in Requests \cup {None}
  /\ answer \in [Callers -> [heard : BOOLEAN, online : SUBSET Interfaces]]
  /\ request \in [Requests -> [at : Stages, primary : Names,
                               answer : {"none", "shown", "ok", "conflict", "error"}]]
  /\ blind \in BOOLEAN /\ changes \in 0 .. MaxChanges /\ failed \in 0 .. MaxFailures

(* Two requests never write two plans into one configuration, although the  *)
(* primary can change between them and the check is not part of the write;  *)
(* only a check whose uci show failed lets a second plan in.               *)
OnePlan == Cardinality(plans) > 1 => blind

(* A plan in the configuration that mwan3 does not run is being applied, or *)
(* the caller was told of an error: a request answered with success has its *)
(* plan running until the user takes it away.                              *)
AppliedIsLoaded ==
  \A p \in plans \ loaded :
    \/ p \in told
    \/ \E r \in Requests : request[r].at = "reload" /\ request[r].primary = p
=============================================================================

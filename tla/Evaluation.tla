----------------------------- MODULE Evaluation -----------------------------
(***************************************************************************)
(* The running daemon's alarm path (cmd/starwatchd/main.go): the poller's  *)
(* view of the dish, the merged outage timeline and the alert engine, in   *)
(* the one evaluation loop that drives them, with the reboot command of    *)
(* the API, a history database that may not have opened, and restarts.     *)
(*                                                                         *)
(* T is the timeline and E the engine; both work on the variables declared *)
(* here.  The engine's tick begins as the timeline's ends: the loop passes *)
(* timeline.Active() to engine.Tick.                                       *)
(***************************************************************************)
EXTENDS Integers, Sequences, FiniteSets

CONSTANTS
  Causes, PathHold, SeenRetention, MaxReports,  \* as in OutageTimeline
  Alerts, Catalog, RuleTables,                  \* as in AlertEngine
  RebootWindow,   \* both the expected window and the suppression last this long
  Reboots,        \* TRUE if the API is asked to reboot the dish
  StoreStates,    \* whether OpenSQLite succeeds: a subset of BOOLEAN
  MaxTime,        \* bound of the clock
  MaxRestarts     \* bound on the restarts of the daemon

VARIABLES
  now,
  dishLog, reports, reachable, failingSince,              \* the poller
  entries, seen, pathPending, expectedUntil,              \* the timeline
  phase, ticked, todo, snap, after, store, live, query, lossSince,
  average, rules, suppressUntil, states, failover, obstruction,  \* the engine
  tick, dirty, saved, restarts, last, told, saveFailed, torn, raisedAt, highAt,
  storeUp,      \* OpenSQLite succeeded
  alive,        \* the process has not panicked
  accepted,     \* the dish accepted a reboot; its window is not yet computed
  rebooting,    \* the window's end, until the timeline was told of it too
  rebootedAt,   \* history: when the last reboot was accepted
  warned,       \* history: the engine knew of the window when its tick began
  alarms        \* history: clock values whose tick ended with outage_started active

timelineVars == <<dishLog, reports, reachable, failingSince, entries, seen,
                  pathPending, expectedUntil, phase, ticked, todo, snap, after,
                  store, live, query, lossSince>>
engineVars   == <<average, rules, suppressUntil, states, failover, obstruction,
                  tick, dirty, saved, restarts, last, told, saveFailed, torn,
                  raisedAt, highAt>>
processVars  == <<storeUp, alive>>
rebootVars   == <<accepted, rebooting, rebootedAt>>
evaluationVars ==
  <<now, timelineVars, engineVars, processVars, rebootVars, warned, alarms>>

T == INSTANCE OutageTimeline WITH Queries <- FALSE
E == INSTANCE AlertEngine WITH
       ticked     <- (ticked /\ phase = "idle"),
       Signals    <- {[n \in Alerts |-> "unknown"]},
       Averages   <- {},
       OutageSets <- [t \in 0 .. MaxTime |-> {{}}],
       MwanSets   <- {},
       CacheFor   <- 0

(* The catalogue lists every alert, and of all rules only path_degraded's   *)
(* can be given a clear hold (holdOption, manager.go).                     *)
ASSUME EvaluationAssumption ==
  /\ Alerts \subseteq E!OutageAlerts
  /\ Catalog \in Seq(Alerts)
  /\ \A n \in Alerts : \E i \in 1 .. Len(Catalog) : Catalog[i] = n
  /\ RuleTables \subseteq E!RuleTable
  /\ \A table \in RuleTables, n \in Alerts : table[n].clearHold = 0
  /\ RebootWindow \in Nat
  /\ Reboots \in BOOLEAN
  /\ StoreStates \subseteq BOOLEAN /\ StoreStates # {}

NoTime == T!NoTime

EvaluationInit ==
  /\ T!Init /\ E!Init
  /\ storeUp \in StoreStates
  /\ alive = TRUE
  /\ accepted = FALSE /\ rebooting = NoTime /\ rebootedAt = NoTime
  /\ warned = FALSE /\ alarms = {}

-----------------------------------------------------------------------------
(* The loop's ticker is far finer than a unit of the clock, so every clock *)
(* value is evaluated; the reboot handler does not wait between its calls. *)
ClockTick ==
  /\ ticked /\ ~accepted /\ rebooting = NoTime
  /\ T!ClockTick /\ E!ClockTick
  /\ UNCHANGED <<processVars, rebootVars, warned, alarms>>

(* The dish and the poller. *)
Poll ==
  /\ ~E!Ticking
  /\ T!Environment
  /\ UNCHANGED <<engineVars, processVars, rebootVars, warned, alarms>>

(* The reboot handler: the dish accepts the command, then the window is     *)
(* computed and the engine told of it, then the timeline.  The loop may run *)
(* between any two of these steps.                                          *)
RebootAccepted ==
  /\ Reboots /\ rebootedAt = NoTime
  /\ accepted' = TRUE
  /\ rebootedAt' = now
  /\ UNCHANGED <<now, timelineVars, engineVars, processVars, rebooting, warned, alarms>>

RebootWithoutSuppression ==
  /\ accepted
  /\ accepted' = FALSE
  /\ rebooting' = now + RebootWindow
  /\ UNCHANGED <<now, timelineVars, engineVars, processVars, rebootedAt, warned, alarms>>

RebootSuppresses ==
  /\ accepted
  /\ accepted' = FALSE
  /\ rebooting' = now + RebootWindow
  /\ UNCHANGED <<timelineVars, processVars, rebootedAt, warned, alarms>>
  /\ E!SetDishUnreachableSuppressUntil(now + RebootWindow)

RebootExpects ==
  /\ rebooting # NoTime
  /\ T!ExpectDishUnreachableUntil(rebooting)
  /\ rebooting' = NoTime
  /\ UNCHANGED <<now, dishLog, reports, reachable, failingSince, phase, ticked,
                 todo, snap, after, store, live, query, lossSince,
                 engineVars, processVars, accepted, rebootedAt, warned, alarms>>

-----------------------------------------------------------------------------
(* A tick of the loop: the timeline first, then the engine. *)
BeginTick ==
  /\ ~E!Ticking
  /\ \E loss \in BOOLEAN : T!BeginTick(loss)
  /\ UNCHANGED <<engineVars, processVars, rebootVars, warned, alarms>>

Observe ==
  /\ after.save => storeUp
  /\ T!Loop
  /\ UNCHANGED <<engineVars, processVars, rebootVars, warned, alarms>>

(* The store did not open: the timeline holds a nil *SQLiteStore in a      *)
(* non-nil interface, and its first save dereferences it.                  *)
SavePanics ==
  /\ after.save /\ ~storeUp
  /\ alive' = FALSE
  /\ UNCHANGED <<now, timelineVars, engineVars, storeUp, rebootVars, warned, alarms>>

ActiveOutagesAndRecent == T!Ids(entries \cup seen)

ActiveUnreachable == T!Ids(T!Active(T!Unreachable))

(* timeline.Active(). *)
ActiveOutages == T!Ids({e \in entries : e.ongoing})

RunRules ==
  /\ T!EndTick
  /\ \E signal \in {[n \in Alerts |-> "unknown"]} :
       E!BeginTick(ActiveOutages, signal, E!NoMwan)
  /\ warned' = (suppressUntil # NoTime)
  /\ UNCHANGED <<processVars, rebootVars, alarms>>

DishAlarm == "dish_unreachable" \in Alerts /\ states["dish_unreachable"].active

EngineStep ==
  /\ UNCHANGED <<timelineVars, processVars, rebootVars, warned, alarms>>
  /\ \/ E!EvaluateFailover
     \/ E!ReadSuppression
     \/ E!EvaluateRule
     \/ storeUp /\ E!PersistState
     \/ E!PersistFails

OutageAlarm == "outage_started" \in Alerts /\ states["outage_started"].active

EndTick ==
  /\ UNCHANGED <<timelineVars, processVars, rebootVars, warned>>
  /\ E!EndTick
  /\ alarms' = IF OutageAlarm THEN alarms \cup {now} ELSE alarms

-----------------------------------------------------------------------------
(* The process stops at any point and is started again; the history        *)
(* database opens or not.  The timeline and the poller start empty, the    *)
(* engine from its row, if there is a database and it can be read; outages *)
(* not yet flushed are lost.                                               *)
Restart ==
  /\ reports' = {} /\ reachable' = FALSE /\ failingSince' = NoTime
  /\ entries' = {} /\ seen' = {}
  /\ pathPending' = NoTime /\ expectedUntil' = NoTime
  /\ phase' = "idle" /\ ticked' = FALSE /\ todo' = {}
  /\ snap' = T!NoSnapshot /\ after' = T!Nothing
  /\ store' \in SUBSET store
  /\ lossSince' = NoTime
  /\ storeUp' \in StoreStates
  /\ alive' = TRUE /\ accepted' = FALSE /\ rebooting' = NoTime
  /\ E!Restart
  /\ ~storeUp' => E!RestoreFails
  /\ UNCHANGED <<dishLog, live, query, rebootedAt, warned, alarms>>

Running ==
  \/ ClockTick
  \/ Poll
  \/ RebootAccepted
  \/ RebootSuppresses
  \/ RebootExpects
  \/ BeginTick
  \/ Observe
  \/ SavePanics
  \/ RunRules
  \/ EngineStep
  \/ EndTick

EvaluationNext ==
  \/ alive /\ Running
  \/ Restart

EvaluationSpec == EvaluationInit /\ [][EvaluationNext]_evaluationVars

-----------------------------------------------------------------------------
(* The tick of this clock value is over. *)
Evaluated == alive /\ phase = "idle" /\ ticked /\ ~E!Ticking

(* A dish whose failure the tick has seen and that has not answered for the *)
(* hold of dish_unreachable has its alarm active once the tick is over,     *)
(* unless a reboot was asked for: the poller's count of the failure, the    *)
(* timeline's entry and the engine's latch agree, also after a restart.     *)
UnreachableAlarmed ==
  (/\ Evaluated /\ "dish_unreachable" \in Alerts
   /\ rules["dish_unreachable"].enabled
   /\ rebootedAt = NoTime /\ failingSince # NoTime /\ failingSince < now
   /\ now - failingSince >= rules["dish_unreachable"].hold)
  => DishAlarm

(* An active alarm is about an outage the timeline holds open, the one it   *)
(* fired for; it never outlives the outage by a tick.  Without a hold, a    *)
(* restored latch goes on for the outage that the restart begins.           *)
AlarmTracksOutage ==
  (/\ Evaluated /\ DishAlarm
   /\ rules["dish_unreachable"].enabled /\ rules["dish_unreachable"].hold > 0)
  => \E e \in T!Active(T!Unreachable) :
       /\ e.start = states["dish_unreachable"].subjectStart
       /\ now - e.start >= rules["dish_unreachable"].hold

(* Once a reboot is accepted, dish_unreachable fires within the window only *)
(* if the engine's tick had begun before the window reached it, and then at *)
(* the time of the command itself: for an outage that had lasted its hold   *)
(* before, never for the one the reboot causes.  The window is in memory    *)
(* only: a restart ends it.                                                 *)
NoAlarmInWindow ==
  [][(/\ ~DishAlarm /\ DishAlarm' /\ restarts' = 0
      /\ rebootedAt # NoTime /\ now < rebootedAt + RebootWindow)
     => ~warned /\ now = rebootedAt]_evaluationVars

(* An outage of the daemon's own that outlasted the hold, whichever rule    *)
(* table was in force, and is not a reboot's had outage_started active at   *)
(* the end of a tick while it was open.                                     *)
Fired(e) ==
  (/\ "outage_started" \in Alerts /\ e.cause # "expected_reboot"
   /\ \A table \in RuleTables :
        table["outage_started"].enabled /\ e.dur > table["outage_started"].hold)
  => \E t \in alarms : e.start <= t /\ t < e.start + e.dur

OwnOutagesFire == \A e \in store : e.source # T!Dish => Fired(e)

(* main.go: without SQLite the daemon continues with its history in RAM.    *)
ContinuesWithoutStore == alive
=============================================================================

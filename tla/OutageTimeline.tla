--------------------------- MODULE OutageTimeline ---------------------------
(***************************************************************************)
(* The merged outage timeline (internal/outage/timeline.go) together with  *)
(* the part of the evaluation loop that drives it (cmd/starwatchd/main.go, *)
(* runEvaluationLoop) and with the poller state the loop reads             *)
(* (internal/dish/poller.go).                                              *)
(*                                                                         *)
(* Three goroutines meet here.  The poller marks the dish reachable or     *)
(* failing and replaces the retained list of dish outage reports.  The     *)
(* evaluation loop, once per clock value, ingests the reports, then the    *)
(* reachability, then the path condition; each handler changes the maps    *)
(* under the mutex and only after unlocking saves the closed outage and    *)
(* publishes an event.  An API request reads the maps first and the        *)
(* outage table second.                                                    *)
(***************************************************************************)
EXTENDS Integers, FiniteSets

CONSTANTS
  Causes,         \* the causes a dish report can carry
  PathHold,       \* total loss lasts this long before it is a path outage
  SeenRetention,  \* a closed outage is remembered this long after its end
  RebootWindow,   \* a requested reboot explains this much unreachability
  MaxReports,     \* bound: length of the list the dish keeps
  MaxTime,        \* bound of the clock
  Queries         \* TRUE if API requests are explored

ASSUME TimelineAssumption ==
  /\ Causes \cap {"grpc_unreachable", "expected_reboot", "probe_loss"} = {}
  /\ PathHold \in Nat
  /\ SeenRetention \in Nat
  /\ RebootWindow \in Nat
  /\ MaxReports \in Nat
  /\ MaxTime \in Nat
  /\ Queries \in BOOLEAN

Dish        == "dish"
Unreachable == "dish_unreachable"
Path        == "path"
Sources     == {Dish, Unreachable, Path}

NoTime == -1      \* Go's zero time.Time
Time   == Nat
Moment == Time \cup {NoTime}

AllCauses == Causes \cup {"grpc_unreachable", "expected_reboot", "probe_loss"}
Outage    == [source : Sources, cause : AllCauses, start : Time]
Entry     == [source : Sources, cause : AllCauses, start : Time,
              dur : Nat, ongoing : BOOLEAN]
Report    == [cause : Causes, start : Time, dur : Nat]
Kinds     == {"outage_started", "outage_ended"}

VARIABLES
  now,            \* the clock
  dishLog,        \* the outages the dish itself lists (external)
  reports,        \* Snapshot.HistoryOutages
  reachable,      \* Snapshot.DishReachable
  failingSince,   \* Snapshot.DishFailureSince
  entries,        \* Timeline.entries
  seen,           \* Timeline.seen
  pathPending,    \* Timeline.pathPending
  expectedUntil,  \* Timeline.expectedUntil
  phase,          \* where the evaluation loop is in its tick
  ticked,         \* the loop has evaluated at this clock value
  todo,           \* the reports of the batch still to ingest
  snap,           \* the snapshots the tick took
  after,          \* what the loop still has to do outside the mutex
  store,          \* the outages of the history store
  live,           \* the outage events published
  query,          \* one API query in progress
  lossSince       \* history variable: first tick of the present run of loss

pollerVars   == <<dishLog, reports, reachable, failingSince>>
timelineVars == <<entries, seen, pathPending, expectedUntil>>
loopVars     == <<phase, ticked, todo, snap, after>>
vars == <<now, pollerVars, timelineVars, loopVars, store, live, query, lossSince>>

-----------------------------------------------------------------------------
(* Identity of an outage: entryKey(source, cause, start). *)
Id(e)      == [source |-> e.source, cause |-> e.cause, start |-> e.start]
Ids(E)     == {Id(e) : e \in E}
SameAs(e, E) == {x \in E : Id(x) = Id(e)}

(* The key activeKey(source) holds at most one entry. *)
Active(source) == {e \in entries : e.source = source /\ e.ongoing}

Elapsed(since, at) == IF at < since THEN 0 ELSE at - since
Closed(e, at) == [e EXCEPT !.dur = Elapsed(e.start, at), !.ongoing = FALSE]

(* A dish report as an entry: a duration of zero means still ongoing. *)
FromReport(r) == [source |-> Dish, cause |-> r.cause, start |-> r.start,
                  dur |-> r.dur, ongoing |-> (r.dur = 0)]

(* Work left for after the unlock: save first, then publish. *)
Nothing == [save |-> FALSE, event |-> "none",
            entry |-> [source |-> Dish, cause |-> "probe_loss", start |-> 0,
                       dur |-> 0, ongoing |-> FALSE]]
Starts(e)     == [save |-> FALSE, event |-> "outage_started", entry |-> e]
Ends(e)       == [save |-> TRUE, event |-> "outage_ended", entry |-> e]
SavesOnly(e)  == [save |-> TRUE, event |-> "none", entry |-> e]

NoSnapshot == [reachable |-> FALSE, failing |-> NoTime, reports |-> {}, loss |-> FALSE]

Init ==
  /\ now = 0
  /\ dishLog = {} /\ reports = {}
  /\ reachable = FALSE /\ failingSince = NoTime
  /\ entries = {} /\ seen = {}
  /\ pathPending = NoTime /\ expectedUntil = NoTime
  /\ phase = "idle" /\ ticked = FALSE /\ todo = {}
  /\ snap = NoSnapshot
  /\ after = Nothing
  /\ store = {} /\ live = {}
  /\ query = [at |-> "idle", memory |-> {}, due |-> {}, result |-> {}]
  /\ lossSince = NoTime

-----------------------------------------------------------------------------
(* The clock.  A tick of the loop takes far less than one unit. *)
ClockTick ==
  /\ phase = "idle"
  /\ now < MaxTime
  /\ now' = now + 1
  /\ ticked' = FALSE
  /\ UNCHANGED <<pollerVars, timelineVars, phase, todo, snap, after, store,
                 live, query, lossSince>>

(* The dish (external).  Its outages start, their reported duration grows, *)
(* and the list is lost when the dish restarts.                            *)
DishOutage(c) ==
  /\ Cardinality(dishLog) < MaxReports
  /\ \A r \in dishLog \cup reports : <<r.cause, r.start>> # <<c, now>>
  /\ dishLog' = dishLog \cup {[cause |-> c, start |-> now, dur |-> 0]}
  /\ UNCHANGED <<now, reports, reachable, failingSince, timelineVars,
                 loopVars, store, live, query, lossSince>>

DishOutageGrows(r) ==
  /\ r \in dishLog
  /\ r.start + r.dur < now
  /\ dishLog' = (dishLog \ {r}) \cup {[r EXCEPT !.dur = now - r.start]}
  /\ UNCHANGED <<now, reports, reachable, failingSince, timelineVars,
                 loopVars, store, live, query, lossSince>>

DishForgets ==
  /\ dishLog # {}
  /\ \A r \in dishLog : r.start < now
  /\ dishLog' = {}
  /\ UNCHANGED <<now, reports, reachable, failingSince, timelineVars,
                 loopVars, store, live, query, lossSince>>

(* The poller: setHistoryOutages replaces the retained list.  The history  *)
(* may be read although the last status request failed.                    *)
SetHistoryOutages ==
  /\ reports' = dishLog
  /\ UNCHANGED <<now, dishLog, reachable, failingSince, timelineVars,
                 loopVars, store, live, query, lossSince>>

(* Two streaks of failures never start at the same clock value. *)
MarkDishFailure ==
  /\ reachable \/ failingSince = NoTime
  /\ \A e \in entries \cup seen : e.source = Unreachable => e.start # now
  /\ reachable' = FALSE
  /\ failingSince' = IF failingSince = NoTime THEN now ELSE failingSince
  /\ UNCHANGED <<now, dishLog, reports, timelineVars, loopVars, store, live,
                 query, lossSince>>

MarkDishReachable ==
  /\ ~reachable
  /\ reachable' = TRUE
  /\ failingSince' = NoTime
  /\ UNCHANGED <<now, dishLog, reports, timelineVars, loopVars, store, live,
                 query, lossSince>>

(* A reboot asked for through the API opens the expected window. *)
ExpectDishUnreachableUntil(until) ==
  /\ expectedUntil' = IF until > expectedUntil THEN until ELSE expectedUntil
  /\ UNCHANGED <<entries, seen, pathPending>>

Reboot ==
  /\ ExpectDishUnreachableUntil(now + RebootWindow)
  /\ UNCHANGED <<now, pollerVars, loopVars, store, live, query, lossSince>>

-----------------------------------------------------------------------------
(* The evaluation loop. *)
Free == after = Nothing

Pruned == {c \in seen : c.start + c.dur >= now - SeenRetention}

(* The tick takes its snapshots and IngestDish prunes its memory. *)
BeginTick(loss) ==
  /\ phase = "idle"
  /\ ~ticked
  /\ ticked' = TRUE
  /\ phase' = "ingest"
  /\ snap' = [reachable |-> reachable, failing |-> failingSince,
              reports |-> reports, loss |-> loss]
  /\ todo' = reports
  /\ seen' = Pruned
  /\ UNCHANGED <<now, pollerVars, entries, pathPending, expectedUntil, after,
                 store, live, query, lossSince>>

AddsNothingIfClosed(e) == \E c \in SameAs(e, seen) : e.ongoing \/ e.dur <= c.dur

(* A report that adds nothing: no longer than what was seen closed, or     *)
(* still ongoing for an outage already known to be.                        *)
AddsNothing(e) ==
  \/ \E c \in SameAs(e, seen) : e.ongoing \/ e.dur <= c.dur
  \/ SameAs(e, entries) # {} /\ e.ongoing

IngestKeeps(e) ==
  /\ entries' = entries \cup {e}
  /\ seen' = seen
  /\ after' = Starts(e)

IngestCloses(e) ==
  /\ entries' = entries \ SameAs(e, entries)
  /\ seen' = (seen \ SameAs(e, seen)) \cup {e}
  /\ after' = IF SameAs(e, entries) # {} THEN Ends(e) ELSE SavesOnly(e)

IngestReport(r) ==
  /\ phase = "ingest" /\ Free
  /\ r \in todo
  /\ todo' = todo \ {r}
  /\ LET e == FromReport(r) IN
       IF AddsNothing(e) THEN UNCHANGED <<entries, seen, after>>
       ELSE \/ e.ongoing /\ IngestKeeps(e)
            \/ ~e.ongoing /\ IngestCloses(e)
  /\ UNCHANGED <<now, pollerVars, pathPending, expectedUntil, phase, ticked,
                 snap, store, live, query, lossSince>>

IngestDone ==
  /\ phase = "ingest" /\ Free
  /\ todo = {}
  /\ phase' = "dish"
  /\ UNCHANGED <<now, pollerVars, timelineVars, ticked, todo, snap, after,
                 store, live, query, lossSince>>

(* An ongoing entry leaves the map, is remembered, saved and announced. *)
Close(source) ==
  \E e \in Active(source) :
    /\ entries' = entries \ {e}
    /\ seen' = (seen \ SameAs(e, seen)) \cup {Closed(e, now)}
    /\ after' = Ends(Closed(e, now))

Open(source, cause, start) ==
  LET e == [source |-> source, cause |-> cause, start |-> start,
            dur |-> 0, ongoing |-> TRUE]
  IN /\ entries' = entries \cup {e}
     /\ after' = Starts(e)
     /\ UNCHANGED seen

UnreachableCause ==
  IF now < expectedUntil THEN "expected_reboot" ELSE "grpc_unreachable"

FailureSinceNow == now

(* The outage starts with the poller's first failure, not with the tick;   *)
(* with no failure on record it starts now.                                *)
FailureSince == IF snap.failing = NoTime THEN now ELSE snap.failing

(* The loop calls ObserveDish only after the poller's first answer or      *)
(* failure; before that DishFailureSince is nil.                           *)
ObserveCalled == snap.reachable \/ snap.failing # NoTime

ObserveDish ==
  /\ phase = "dish" /\ Free
  /\ phase' = "path"
  /\ \/ /\ ObserveCalled /\ ~snap.reachable /\ Active(Unreachable) = {}
        /\ Open(Unreachable, UnreachableCause, FailureSince)
     \/ /\ ObserveCalled /\ snap.reachable /\ Active(Unreachable) # {}
        /\ Close(Unreachable)
     \/ /\ ObserveCalled => (snap.reachable <=> Active(Unreachable) = {})
        /\ UNCHANGED <<entries, seen, after>>
  /\ UNCHANGED <<now, pollerVars, pathPending, expectedUntil, ticked, todo,
                 snap, store, live, query, lossSince>>

(* The dish claims connectivity and every probe is lost. *)
PathLost == snap.reachable /\ snap.loss

ObservePathLost ==
  IF Active(Path) # {} THEN UNCHANGED <<entries, seen, pathPending, after>>
  ELSE IF pathPending = NoTime
    THEN pathPending' = now /\ UNCHANGED <<entries, seen, after>>
  ELSE IF now - pathPending < PathHold
    THEN UNCHANGED <<entries, seen, pathPending, after>>
  ELSE Open(Path, "probe_loss", pathPending) /\ UNCHANGED pathPending

ObservePathClearKeepingPending ==
  /\ UNCHANGED pathPending
  /\ IF Active(Path) = {} THEN UNCHANGED <<entries, seen, after>> ELSE Close(Path)

ObservePathClear ==
  /\ pathPending' = NoTime
  /\ IF Active(Path) = {} THEN UNCHANGED <<entries, seen, after>> ELSE Close(Path)

ObservePath ==
  /\ phase = "path" /\ Free
  /\ phase' = "rules"
  /\ \/ PathLost /\ ObservePathLost
     \/ ~PathLost /\ ObservePathClear
  /\ lossSince' = IF ~PathLost THEN NoTime
                  ELSE IF lossSince = NoTime THEN now ELSE lossSince
  /\ UNCHANGED <<now, pollerVars, expectedUntil, ticked, todo, snap, store,
                 live, query>>

(* SaveOutage: one row per outage, keeping the longest duration. *)
Merge(e) ==
  LET rows == SameAs(e, store) IN
  IF \E x \in rows : x.dur >= e.dur THEN store ELSE (store \ rows) \cup {e}

Save ==
  /\ after.save
  /\ store' = Merge(after.entry)
  /\ after' = IF after.event = "none" THEN Nothing
              ELSE [after EXCEPT !.save = FALSE]
  /\ UNCHANGED <<now, pollerVars, timelineVars, phase, ticked, todo, snap,
                 live, query, lossSince>>

PublishBeforeSave ==
  /\ after.event # "none"
  /\ live' = live \cup {[kind |-> after.event, of |-> Id(after.entry)]}
  /\ after' = IF after.save THEN SavesOnly(after.entry) ELSE Nothing
  /\ UNCHANGED <<now, pollerVars, timelineVars, phase, ticked, todo, snap,
                 store, query, lossSince>>

Publish ==
  /\ ~after.save
  /\ after.event # "none"
  /\ live' = live \cup {[kind |-> after.event, of |-> Id(after.entry)]}
  /\ after' = Nothing
  /\ UNCHANGED <<now, pollerVars, timelineVars, phase, ticked, todo, snap,
                 store, query, lossSince>>

(* In the running daemon the alert engine's Tick stands here (Evaluation). *)
EndTick ==
  /\ phase = "rules" /\ Free
  /\ phase' = "idle"
  /\ snap' = NoSnapshot
  /\ UNCHANGED <<now, pollerVars, timelineVars, ticked, todo, after,
                 store, live, query, lossSince>>

-----------------------------------------------------------------------------
(* Query: the maps under the read lock, then, unlocked, the outage table.  *)
(* `due' is a history variable: the outages known when the query began.    *)
QueryMemory ==
  /\ Queries
  /\ query.at = "idle"
  /\ query' = [at |-> "memory", result |-> {},
               memory |-> {[e EXCEPT !.dur = Elapsed(e.start, now)] : e \in entries},
               due |-> Ids(entries) \cup Ids(store)]
  /\ UNCHANGED <<now, pollerVars, timelineVars, loopVars, store, live, lossSince>>

(* A stored row replaces the dish entry of the same key; the other sources *)
(* are keyed by activeKey while ongoing, so nothing replaces them.         *)
Combined(memory) ==
  store \cup {e \in memory : e.source # Dish \/ SameAs(e, store) = {}}

QueryStoreRereadingMemory ==
  /\ query.at = "memory"
  /\ query' = [query EXCEPT !.at = "done", !.result = Combined(entries)]
  /\ UNCHANGED <<now, pollerVars, timelineVars, loopVars, store, live, lossSince>>

QueryStore ==
  /\ query.at = "memory"
  /\ query' = [query EXCEPT !.at = "done", !.result = Combined(query.memory)]
  /\ UNCHANGED <<now, pollerVars, timelineVars, loopVars, store, live, lossSince>>

QueryReturns ==
  /\ query.at = "done"
  /\ query' = [at |-> "idle", memory |-> {}, due |-> {}, result |-> {}]
  /\ UNCHANGED <<now, pollerVars, timelineVars, loopVars, store, live, lossSince>>

-----------------------------------------------------------------------------
(* The dish and the poller move between ticks only: a tick works on the    *)
(* snapshot it took, so a step of theirs in the middle of one changes       *)
(* nothing it reads and commutes with the rest of the tick.                 *)
Environment ==
  /\ phase = "idle"
  /\ \/ \E c \in Causes : DishOutage(c)
     \/ \E r \in dishLog : DishOutageGrows(r)
     \/ DishForgets
     \/ SetHistoryOutages
     \/ MarkDishFailure
     \/ MarkDishReachable

Loop ==
  \/ \E r \in todo : IngestReport(r)
  \/ IngestDone
  \/ ObserveDish
  \/ ObservePath
  \/ Save
  \/ Publish

API == QueryMemory \/ QueryStore \/ QueryReturns

Next ==
  \/ ClockTick
  \/ Environment
  \/ \E loss \in BOOLEAN : BeginTick(loss)
  \/ Loop
  \/ EndTick
  \/ Reboot
  \/ API

Spec == Init /\ [][Next]_vars

-----------------------------------------------------------------------------
(* Types. *)
TypeOK ==
  /\ now \in Time
  /\ dishLog \subseteq Report /\ reports \subseteq Report /\ todo \subseteq Report
  /\ reachable \in BOOLEAN /\ failingSince \in Moment
  /\ entries \subseteq Entry /\ seen \subseteq Entry /\ store \subseteq Entry
  /\ pathPending \in Moment /\ expectedUntil \in Moment /\ lossSince \in Moment
  /\ phase \in {"idle", "ingest", "dish", "path", "rules"} /\ ticked \in BOOLEAN
  /\ snap \in [reachable : BOOLEAN, failing : Moment,
                reports : SUBSET Report, loss : BOOLEAN]
  /\ after \in [save : BOOLEAN, event : Kinds \cup {"none"}, entry : Entry]
  /\ live \subseteq [kind : Kinds, of : Outage]
  /\ query \in [at : {"idle", "memory", "done"}, memory : SUBSET Entry,
                due : SUBSET Outage, result : SUBSET Entry]

(* A client that refetches the timeline on outage_ended finds the outage    *)
(* in the table: the save of a closed outage precedes its announcement.     *)
(* Once a batch is ingested, the table holds every closed outage of it with *)
(* at least the duration reported: a duration still growing is followed,    *)
(* one already saved never shrinks.                                         *)
EndedIsStored ==
  /\ \A m \in live : m.kind = "outage_ended" => m.of \in Ids(store)
  /\ phase \in {"dish", "path", "rules"} =>
       \A r \in snap.reports : r.dur > 0 =>
         \E x \in SameAs(FromReport(r), store) : x.dur >= r.dur

(* No outage is announced twice, however often the dish goes on listing it  *)
(* and although the memory of closed outages is pruned, and every           *)
(* outage_ended follows the outage_started of the same outage.              *)
AnnouncedOnce ==
  /\ after.event # "none" => [kind |-> after.event, of |-> Id(after.entry)] \notin live
  /\ \A m \in live : m.kind = "outage_ended" =>
       [kind |-> "outage_started", of |-> m.of] \in live

(* An ongoing path outage started with the present, unbroken run of total   *)
(* loss and that run has lasted PathHold: no outage spans a recovery.       *)
PathOutageIsSustained ==
  phase = "rules" => \A e \in Active(Path) :
    /\ e.start = lossSince
    /\ now - lossSince >= PathHold

(* A query misses no outage that was in the maps or the table when it       *)
(* began, though one may close and move between its two reads.  (One that   *)
(* was closed and is not saved yet is in neither, and may be missed.)       *)
QueryComplete ==
  query.at = "done" => query.due \subseteq Ids(query.result)
=============================================================================

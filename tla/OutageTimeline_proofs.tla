----------------------- MODULE OutageTimeline_proofs -----------------------
(***************************************************************************)
(* Proofs about OutageTimeline, for any causes, any durations of the hold, *)
(* the memory and the reboot window, and any bounds: its types, and the    *)
(* four safety properties of the timeline.                                 *)
(***************************************************************************)
EXTENDS OutageTimeline, TLAPS

(* An entry of the map is ongoing, so its identity is all there is to it.  *)
EntryInv == \A e \in entries : e.ongoing /\ e.dur = 0

(* A tick works on what it took: nothing it read changes until it ends.    *)
TickInv ==
  /\ todo \subseteq reports
  /\ phase # "ingest" => todo = {}
  /\ phase # "idle" => ticked
  /\ phase # "idle" =>
       snap.reachable = reachable /\ snap.failing = failingSince /\ snap.reports = reports
  /\ phase = "idle" => Free
  /\ reachable => failingSince = NoTime

(* The dish lists an outage once, not before it starts, and a list read     *)
(* later shows it no shorter.                                              *)
ReportInv ==
  /\ \A r \in reports \cup dishLog : r.start <= now /\ r.start + r.dur <= now
  /\ \A r, s \in reports : Id(FromReport(r)) = Id(FromReport(s)) => r = s
  /\ \A r, s \in dishLog : Id(FromReport(r)) = Id(FromReport(s)) => r = s
  /\ \A r \in reports, s \in dishLog : Id(FromReport(r)) = Id(FromReport(s)) => r.dur <= s.dur

(* The one path outage there can be is the present run of loss.            *)
PathEntry(start) == [source |-> Path, cause |-> "probe_loss", start |-> start,
                     dur |-> 0, ongoing |-> TRUE]
PathInv ==
  /\ pathPending = lossSince
  /\ \A e \in Active(Path) : /\ pathPending # NoTime /\ e = PathEntry(pathPending)
                             /\ now - pathPending >= PathHold

(* A closed outage is in the table with its duration, or about to be.      *)
Kept(e) == \/ \E x \in SameAs(e, store) : x.dur >= e.dur
           \/ after.save /\ Id(after.entry) = Id(e) /\ after.entry.dur >= e.dur
StoreInv ==
  /\ \A c \in seen : c.source = Dish => Kept(c)
  /\ phase # "idle" => \A r \in reports \ todo : r.dur > 0 => Kept(FromReport(r))
  /\ \A m \in live : m.kind = "outage_ended" => m.of \in Ids(store)
  /\ after.event = "outage_ended" /\ ~after.save => Id(after.entry) \in Ids(store)
  /\ phase # "ingest" /\ after.save => after.entry.source # Dish

QueryInv ==
  /\ query.at = "memory" => query.due \subseteq Ids(query.memory) \cup Ids(store)
  /\ QueryComplete

-----------------------------------------------------------------------------
(* What has been announced, and what is about to be.                       *)
Pending == IF after.event = "none" THEN {} ELSE {[kind |-> after.event, of |-> Id(after.entry)]}
Told == live \cup Pending
Starting(i) == [kind |-> "outage_started", of |-> i]
Ending(i) == [kind |-> "outage_ended", of |-> i]
Started(source) == {m \in Told : m.kind = "outage_started" /\ m.of.source = source}

(* The dish will not report it as ongoing again.                           *)
Over(i) ==
  /\ i.start < now
  /\ \A r \in reports \cup dishLog : Id(FromReport(r)) = i => r.dur > 0

(* An outage that was announced is in the map, or it cannot be opened again:*)
(* a dish outage is over, an unreachable one belongs to an earlier streak   *)
(* of failures, and a path outage to an earlier run of loss.               *)
ToldInv ==
  /\ Pending \cap live = {}
  /\ \A m \in Told : m.kind = "outage_ended" => Starting(m.of) \in live
  /\ \A e \in entries : Starting(Id(e)) \in Told /\ Ending(Id(e)) \notin Told
  /\ \A m \in Told : m.of.start <= now

DishInv == \A m \in Started(Dish) : m.of \in Ids(entries) \/ Over(m.of)

UnreachableInv ==
  /\ failingSince # NoTime => failingSince <= now
  /\ \A m \in Started(Unreachable) : m.of \notin Ids(entries) =>
       /\ m.of.start # failingSince
       /\ m.of.start < now \/ \E c \in seen : Id(c) = m.of /\ c.start + c.dur >= now

Evaluating == phase \in {"ingest", "dish", "path"} \/ (phase = "idle" /\ ~ticked)
StreakInv ==
  /\ pathPending # NoTime => pathPending <= now /\ (Evaluating => pathPending < now)
  /\ \A m \in Started(Path) :
       m.of.start < now /\ (m.of \in Ids(entries) \/ m.of.start # pathPending)

TimelineInv ==
  /\ TypeOK /\ EntryInv /\ TickInv /\ ReportInv /\ PathInv /\ StoreInv /\ QueryInv
  /\ ToldInv /\ DishInv /\ UnreachableInv /\ StreakInv

-----------------------------------------------------------------------------
(* Types. *)
Work == [save : BOOLEAN, event : Kinds \cup {"none"}, entry : Entry]
Snapshot == [reachable : BOOLEAN, failing : Moment, reports : SUBSET Report, loss : BOOLEAN]
Message == [kind : Kinds, of : Outage]
Querying == [at : {"idle", "memory", "done"}, memory : SUBSET Entry,
             due : SUBSET Outage, result : SUBSET Entry]
Phases == {"idle", "ingest", "dish", "path", "rules"}

(* The types, with a name for each set of records.                         *)
Typed ==
  /\ now \in Time
  /\ dishLog \subseteq Report /\ reports \subseteq Report /\ todo \subseteq Report
  /\ reachable \in BOOLEAN /\ failingSince \in Moment
  /\ entries \subseteq Entry /\ seen \subseteq Entry /\ store \subseteq Entry
  /\ pathPending \in Moment /\ expectedUntil \in Moment /\ lossSince \in Moment
  /\ phase \in Phases /\ ticked \in BOOLEAN
  /\ snap \in Snapshot /\ after \in Work /\ live \subseteq Message /\ query \in Querying

LEMMA TypedIsTypeOK == Typed <=> TypeOK
  BY DEF Typed, TypeOK, Phases, Snapshot, Work, Message, Querying

LEMMA Shapes ==
  /\ Sources = {Dish, Unreachable, Path}
  /\ Nothing \in Work /\ NoSnapshot \in Snapshot
  /\ \A e \in Entry : {Starts(e), Ends(e), SavesOnly(e)} \subseteq Work /\ Id(e) \in Outage
  /\ \A r \in Report : FromReport(r) \in Entry
  /\ \A e \in Entry, t \in Time : Closed(e, t) \in Entry /\ Id(Closed(e, t)) = Id(e)
<1>1. Sources = {Dish, Unreachable, Path}
  BY DEF Sources
<1>2. Nothing \in Work
  BY DEF Nothing, Work, Kinds, Entry, Sources, AllCauses, Time
<1>3. NoSnapshot \in Snapshot
  BY DEF NoSnapshot, Snapshot, Moment
<1>4. ASSUME NEW e \in Entry
      PROVE  {Starts(e), Ends(e), SavesOnly(e)} \subseteq Work /\ Id(e) \in Outage
  BY DEF Work, Kinds, Entry, Outage, Starts, Ends, SavesOnly, Id
<1>5. ASSUME NEW r \in Report PROVE FromReport(r) \in Entry
  BY DEF FromReport, Report, Entry, Sources, AllCauses
<1>6. ASSUME NEW e \in Entry, NEW t \in Time PROVE Closed(e, t) \in Entry /\ Id(Closed(e, t)) = Id(e)
  <2> DEFINE f == [e EXCEPT !.dur = Elapsed(e.start, t)]
  <2>1. Elapsed(e.start, t) \in Nat
    BY DEF Elapsed, Entry, Time
  <2>2. f \in Entry /\ Id(f) = Id(e)
    BY <2>1 DEF Entry, Id
  <2>3. Closed(e, t) = [f EXCEPT !.ongoing = FALSE]
    BY DEF Closed
  <2> HIDE DEF f
  <2> QED BY <2>2, <2>3 DEF Entry, Id
<1> QED BY <1>1, <1>2, <1>3, <1>4, <1>5, <1>6

LEMMA TypeInit == Init => Typed
<1> SUFFICES ASSUME Init PROVE Typed
  OBVIOUS
<1>1. query \in Querying /\ live \subseteq Message
  BY DEF Init, Querying
<1> QED BY <1>1, Shapes DEF Init, Typed, Time, Moment, NoTime, Phases

LEMMA TypeStep == Typed /\ [Next]_vars => Typed'
<1> SUFFICES ASSUME Typed, [Next]_vars PROVE Typed'
  OBVIOUS
<1> USE TimelineAssumption DEF Phases
<1>1. CASE ClockTick
  <2>1. now' \in Time
    BY <1>1 DEF Typed, ClockTick, Time
  <2> QED BY <1>1, <2>1 DEF Typed, ClockTick, pollerVars, timelineVars
<1>2. CASE Environment
  <2>1. CASE \E c \in Causes : DishOutage(c)
    BY <2>1 DEF Typed, DishOutage, timelineVars, loopVars, Report, Time
  <2>2. CASE \E r \in dishLog : DishOutageGrows(r)
    <3>1. PICK r \in dishLog : DishOutageGrows(r)
      BY <2>2
    <3>2. [r EXCEPT !.dur = now - r.start] \in Report
      BY <3>1 DEF Typed, DishOutageGrows, Report, Time
    <3> QED BY <3>1, <3>2 DEF Typed, DishOutageGrows, timelineVars, loopVars
  <2>3. CASE DishForgets \/ SetHistoryOutages
    BY <2>3 DEF Typed, DishForgets, SetHistoryOutages, timelineVars, loopVars
  <2>4. CASE MarkDishFailure \/ MarkDishReachable
    BY <2>4 DEF Typed, MarkDishFailure, MarkDishReachable, timelineVars, loopVars, Moment, Time
  <2> QED BY <1>2, <2>1, <2>2, <2>3, <2>4 DEF Environment
<1>3. ASSUME NEW loss \in BOOLEAN, BeginTick(loss) PROVE Typed'
  <2>1. snap' \in Snapshot
    BY <1>3 DEF Typed, BeginTick, Snapshot
  <2> QED BY <1>3, <2>1 DEF Typed, BeginTick, Pruned, pollerVars
<1>4. CASE \E r \in todo : IngestReport(r)
  <2>1. PICK r \in todo : IngestReport(r)
    BY <1>4
  <2>2. FromReport(r) \in Entry
    BY Shapes DEF Typed
  <2>3. entries' \subseteq Entry /\ seen' \subseteq Entry /\ after' \in Work
    <3> DEFINE e == FromReport(r)
    <3>1. {Starts(e), Ends(e), SavesOnly(e)} \subseteq Work
      BY <2>2, Shapes
    <3>2. IngestKeeps(e) \/ IngestCloses(e) \/ UNCHANGED <<entries, seen, after>>
      BY <2>1 DEF IngestReport
    <3> HIDE DEF e
    <3> QED BY <2>2, <3>1, <3>2 DEF Typed, IngestKeeps, IngestCloses, SameAs, e
  <2> QED BY <2>1, <2>3 DEF Typed, IngestReport, pollerVars, Work
<1>5. CASE IngestDone
  BY <1>5 DEF Typed, IngestDone, pollerVars, timelineVars
<1>6. ASSUME NEW source \in Sources, Close(source)
      PROVE  entries' \subseteq Entry /\ seen' \subseteq Entry /\ after' \in Work
  <2>1. PICK e \in Active(source) : /\ entries' = entries \ {e}
                                    /\ seen' = (seen \ SameAs(e, seen)) \cup {Closed(e, now)}
                                    /\ after' = Ends(Closed(e, now))
    BY <1>6 DEF Close
  <2>2. e \in Entry
    BY DEF Typed, Active
  <2>3. Closed(e, now) \in Entry
    BY <2>2, Shapes DEF Typed
  <2>4. Ends(Closed(e, now)) \in Work
    BY <2>3, Shapes
  <2> QED BY <2>1, <2>3, <2>4 DEF Typed, SameAs
<1>7. ASSUME NEW source \in Sources, NEW cause \in AllCauses, NEW start \in Time,
             Open(source, cause, start)
      PROVE  entries' \subseteq Entry /\ seen' \subseteq Entry /\ after' \in Work
  <2> DEFINE e == [source |-> source, cause |-> cause, start |-> start, dur |-> 0, ongoing |-> TRUE]
  <2>1. e \in Entry
    BY DEF Entry, Time
  <2>2. Starts(e) \in Work
    BY <2>1, Shapes
  <2>3. entries' = entries \cup {e} /\ after' = Starts(e) /\ seen' = seen
    BY <1>7 DEF Open
  <2> QED BY <2>1, <2>2, <2>3 DEF Typed
<1>8. CASE ObserveDish
  <2>1. FailureSince \in Time /\ UnreachableCause \in AllCauses
    BY DEF Typed, FailureSince, UnreachableCause, AllCauses, Moment, Snapshot
  <2>2. entries' \subseteq Entry /\ seen' \subseteq Entry /\ after' \in Work
    BY <1>6, <1>7, <1>8, <2>1 DEF Typed, ObserveDish, Sources, Work
  <2> QED BY <1>8, <2>2 DEF Typed, ObserveDish, pollerVars, Work
<1>9. CASE ObservePath
  <2>1. "probe_loss" \in AllCauses /\ Path \in Sources
    BY DEF AllCauses, Sources
  <2>2. entries' \subseteq Entry /\ seen' \subseteq Entry /\ after' \in Work /\ pathPending' \in Moment
    <3>1. CASE ObservePathLost
      BY <1>7, <2>1, <3>1 DEF Typed, ObservePathLost, Moment, Work
    <3>2. CASE ObservePathClear
      BY <1>6, <2>1, <3>2 DEF Typed, ObservePathClear, Moment, Work
    <3> QED BY <1>9, <3>1, <3>2 DEF ObservePath
  <2> QED BY <1>9, <2>2 DEF Typed, ObservePath, pollerVars, Work, Moment, Time
<1>10. CASE Save
  BY <1>10, Shapes DEF Typed, Save, Merge, SameAs, pollerVars, timelineVars, Work
<1>11. CASE Publish
  <2>1. [kind |-> after.event, of |-> Id(after.entry)] \in Message
    BY <1>11, Shapes DEF Typed, Publish, Work, Message
  <2> QED BY <1>11, <2>1, Shapes DEF Typed, Publish, pollerVars, timelineVars, Work
<1>12. CASE EndTick
  BY <1>12, Shapes DEF Typed, EndTick, pollerVars, timelineVars
<1>13. CASE Reboot
  BY <1>13 DEF Typed, Reboot, ExpectDishUnreachableUntil, pollerVars, loopVars, Moment, Time
<1>14. CASE QueryMemory
  <2>1. \A e \in entries : [e EXCEPT !.dur = Elapsed(e.start, now)] \in Entry
    BY DEF Typed, Entry, Elapsed, Time
  <2>2. Ids(entries) \cup Ids(store) \subseteq Outage
    BY Shapes DEF Typed, Ids
  <2>3. query' \in Querying
    BY <1>14, <2>1, <2>2 DEF QueryMemory, Querying
  <2> QED BY <1>14, <2>3 DEF Typed, QueryMemory, pollerVars, timelineVars, loopVars
<1>15. CASE QueryStore \/ QueryReturns
  <2>1. query' \in Querying
    <3>1. Combined(query.memory) \subseteq Entry
      BY DEF Typed, Combined, Querying
    <3>2. CASE QueryStore
      BY <3>1, <3>2 DEF Typed, QueryStore, Querying
    <3>3. CASE QueryReturns
      BY <3>3 DEF QueryReturns, Querying
    <3> QED BY <1>15, <3>2, <3>3
  <2> QED BY <1>15, <2>1 DEF Typed, QueryStore, QueryReturns, pollerVars, timelineVars, loopVars
<1>16. CASE UNCHANGED vars
  BY <1>16 DEF Typed, vars, pollerVars, timelineVars, loopVars
<1> QED
  BY <1>1, <1>2, <1>3, <1>4, <1>5, <1>8, <1>9, <1>10, <1>11, <1>12, <1>13, <1>14, <1>15, <1>16
  DEF Next, Loop, API

-----------------------------------------------------------------------------
(* The steps that the invariants but QueryInv have to do with.             *)
core == <<now, pollerVars, entries, seen, pathPending, lossSince, phase, ticked, todo, snap,
          after, store, live>>
Evaluates ==
  \/ \E loss \in BOOLEAN : BeginTick(loss)
  \/ \E r \in todo : IngestReport(r)
  \/ IngestDone \/ ObserveDish \/ ObservePath \/ EndTick
LEMMA Steps ==
  [Next]_vars => \/ UNCHANGED core \/ ClockTick \/ Environment \/ Evaluates \/ Save \/ Publish
  BY DEF Next, Loop, API, Evaluates, vars, core, pollerVars, timelineVars, loopVars, Reboot,
         ExpectDishUnreachableUntil, QueryMemory, QueryStore, QueryReturns

LEMMA EntryStep == EntryInv /\ [Next]_vars => EntryInv'
<1> SUFFICES ASSUME EntryInv, [Next]_vars PROVE EntryInv'
  OBVIOUS
<1>1. ASSUME NEW r \in todo, IngestReport(r) PROVE EntryInv'
  <2> DEFINE e == FromReport(r)
  <2>1. e.ongoing => e.dur = 0
    BY DEF FromReport
  <2>2. UNCHANGED entries \/ (e.ongoing /\ IngestKeeps(e)) \/ IngestCloses(e)
    BY <1>1 DEF IngestReport
  <2> HIDE DEF e
  <2> QED BY <2>1, <2>2 DEF EntryInv, IngestKeeps, IngestCloses
<1>2. CASE ObserveDish
  BY <1>2 DEF EntryInv, ObserveDish, Open, Close
<1>3. CASE ObservePath
  BY <1>3 DEF EntryInv, ObservePath, ObservePathLost, ObservePathClear, Open, Close
<1>4. CASE UNCHANGED entries
  BY <1>4 DEF EntryInv
<1> QED
  BY <1>1, <1>2, <1>3, <1>4, Steps
  DEF core, ClockTick, Environment, DishOutage, DishOutageGrows, DishForgets, SetHistoryOutages,
      MarkDishFailure, MarkDishReachable, Evaluates, BeginTick, IngestDone, EndTick, Save, Publish,
      timelineVars

LEMMA TickStep == TypeOK /\ TickInv /\ [Next]_vars => TickInv'
<1> SUFFICES ASSUME TypeOK, TickInv, [Next]_vars PROVE TickInv'
  OBVIOUS
<1>1. CASE ClockTick
  BY <1>1 DEF TickInv, ClockTick, Free, pollerVars
<1>2. CASE Environment
  BY <1>2 DEF TickInv, Environment, DishOutage, DishOutageGrows, DishForgets, SetHistoryOutages,
              MarkDishFailure, MarkDishReachable, timelineVars, loopVars, Free
<1>3. ASSUME NEW loss \in BOOLEAN, BeginTick(loss) PROVE TickInv'
  BY <1>3 DEF TickInv, BeginTick, pollerVars, Free
<1>4. ASSUME NEW r \in todo, IngestReport(r) PROVE TickInv'
  BY <1>4 DEF TickInv, IngestReport, pollerVars
<1>5. CASE IngestDone
  BY <1>5 DEF TickInv, IngestDone, pollerVars, Free
<1>6. CASE ObserveDish
  BY <1>6 DEF TickInv, ObserveDish, pollerVars
<1>7. CASE ObservePath
  BY <1>7 DEF TickInv, ObservePath, pollerVars
<1>8. CASE EndTick
  <2>1. todo = {}
    BY <1>8 DEF TickInv, EndTick
  <2> QED BY <1>8, <2>1 DEF TickInv, EndTick, pollerVars, Free
<1>9. CASE Save \/ Publish
  BY <1>9 DEF TickInv, Save, Publish, pollerVars, Free, Nothing
<1>10. CASE UNCHANGED core
  BY <1>10 DEF TickInv, core, pollerVars, Free
<1> QED
  BY <1>1, <1>2, <1>3, <1>4, <1>5, <1>6, <1>7, <1>8, <1>9, <1>10, Steps DEF Evaluates

LEMMA ReportStep == TypeOK /\ ReportInv /\ [Next]_vars => ReportInv'
<1> SUFFICES ASSUME TypeOK, ReportInv, [Next]_vars PROVE ReportInv'
  OBVIOUS
<1>0. Typed
  BY TypedIsTypeOK
<1> DEFINE Same(r, s) == r.cause = s.cause /\ r.start = s.start
<1>1. /\ \A r, s \in Report : Id(FromReport(r)) = Id(FromReport(s)) <=> Same(r, s)
      /\ \A r \in Report : r.start \in Nat /\ r.dur \in Nat
  BY DEF Id, FromReport, Report, Time
<1> DEFINE Inv(R, D, t) ==
      /\ \A r \in R \cup D : r.start <= t /\ r.start + r.dur <= t
      /\ \A r, s \in R : Same(r, s) => r = s
      /\ \A r, s \in D : Same(r, s) => r = s
      /\ \A r \in R, s \in D : Same(r, s) => r.dur <= s.dur
<1>2. reports \subseteq Report /\ dishLog \subseteq Report /\ Inv(reports, dishLog, now)
  BY <1>0, <1>1 DEF Typed, ReportInv
<1>3. reports' \subseteq Report /\ dishLog' \subseteq Report
  BY TypeStep, TypedIsTypeOK DEF Typed
<1>4. SUFFICES Inv(reports', dishLog', now')
  BY <1>1, <1>3 DEF ReportInv
<1>5. now \in Nat
  BY <1>0 DEF Typed, Time
<1>6. CASE ClockTick
  <2>1. now' = now + 1 /\ reports' = reports /\ dishLog' = dishLog
    BY <1>6 DEF ClockTick, pollerVars
  <2> QED BY <1>1, <1>2, <1>5, <2>1
<1>7. ASSUME NEW c \in Causes, DishOutage(c) PROVE Inv(reports', dishLog', now')
  <2> DEFINE new == [cause |-> c, start |-> now, dur |-> 0]
  <2>1. reports' = reports /\ dishLog' = dishLog \cup {new} /\ now' = now
    BY <1>7 DEF DishOutage
  <2>2. \A r \in dishLog \cup reports : ~Same(r, new)
    BY <1>7 DEF DishOutage
  <2>3. new.start = now /\ new.dur = 0
    OBVIOUS
  <2> HIDE DEF new
  <2> QED BY <1>1, <1>2, <1>5, <2>1, <2>2, <2>3
<1>8. ASSUME NEW r \in dishLog, DishOutageGrows(r) PROVE Inv(reports', dishLog', now')
  <2> DEFINE new == [r EXCEPT !.dur = now - r.start]
  <2>1. reports' = reports /\ dishLog' = (dishLog \ {r}) \cup {new} /\ now' = now
    BY <1>8 DEF DishOutageGrows
  <2>2. Same(r, new) /\ new.dur = now - r.start /\ r.dur <= new.dur
    BY <1>1, <1>2, <1>5, <1>8 DEF DishOutageGrows, Report
  <2> HIDE DEF new
  <2> QED BY <1>1, <1>2, <1>5, <2>1, <2>2
<1>9. CASE DishForgets
  <2>1. reports' = reports /\ dishLog' = {} /\ now' = now
    BY <1>9 DEF DishForgets
  <2> QED BY <1>1, <1>2, <2>1
<1>10. CASE SetHistoryOutages
  <2>1. reports' = dishLog /\ dishLog' = dishLog /\ now' = now
    BY <1>10 DEF SetHistoryOutages
  <2>2. \A r, s \in dishLog : Same(r, s) => r.dur <= s.dur
    BY <1>1, <1>2
  <2> QED BY <1>2, <2>1, <2>2
<1>11. CASE UNCHANGED <<reports, dishLog, now>>
  BY <1>2, <1>11
<1> QED
  BY <1>6, <1>7, <1>8, <1>9, <1>10, <1>11, Steps
  DEF core, Environment, MarkDishFailure, MarkDishReachable, Evaluates, BeginTick, IngestReport,
      IngestDone, ObserveDish, ObservePath, EndTick, Save, Publish, pollerVars

LEMMA PathStep == TypeOK /\ EntryInv /\ PathInv /\ [Next]_vars => PathInv'
<1> SUFFICES ASSUME TypeOK, EntryInv, PathInv, [Next]_vars PROVE PathInv'
  OBVIOUS
<1>0. Typed
  BY TypedIsTypeOK
<1>1. now \in Nat /\ pathPending \in Nat \cup {-1} /\ PathHold \in Nat
  BY <1>0, TimelineAssumption DEF Typed, Time, Moment, NoTime
<1>2. CASE ClockTick
  <2>1. now' = now + 1 /\ UNCHANGED <<entries, pathPending, lossSince>>
    BY <1>2 DEF ClockTick, timelineVars
  <2> QED BY <1>1, <2>1 DEF PathInv, Active, NoTime
<1>3. ASSUME NEW r \in todo, IngestReport(r) PROVE PathInv'
  <2>1. FromReport(r).source # Path
    BY DEF FromReport, Dish, Path
  <2>2. \A e \in SameAs(FromReport(r), entries) : e.source # Path
    BY <2>1 DEF SameAs, Id
  <2>3. Active(Path)' = Active(Path)
    BY <1>3, <2>1, <2>2 DEF Active, IngestReport, IngestKeeps, IngestCloses
  <2> QED BY <1>3, <2>3 DEF PathInv, IngestReport
<1>4. CASE ObserveDish
  <2>1. Active(Path)' = Active(Path)
    BY <1>4 DEF Active, ObserveDish, Open, Close, Unreachable, Path
  <2> QED BY <1>4, <2>1 DEF PathInv, ObserveDish
<1>5. CASE ObservePath
  <2>1. now' = now /\ pathPending = lossSince
    BY <1>5 DEF ObservePath, PathInv
  <2>2. CASE PathLost /\ ObservePathLost
    <3>1. CASE Active(Path) # {} \/ (pathPending # NoTime /\ now - pathPending < PathHold)
      BY <1>5, <2>1, <2>2, <3>1 DEF ObservePath, ObservePathLost, PathInv, Active
    <3>2. CASE Active(Path) = {} /\ pathPending = NoTime
      BY <1>5, <2>1, <2>2, <3>2 DEF ObservePath, ObservePathLost, PathInv, Active
    <3>3. CASE Active(Path) = {} /\ pathPending # NoTime /\ ~(now - pathPending < PathHold)
      <4>1. Open(Path, "probe_loss", pathPending) /\ pathPending' = pathPending
            /\ lossSince' = lossSince
        BY <1>5, <2>1, <2>2, <3>3 DEF ObservePath, ObservePathLost
      <4>2. entries' = entries \cup {PathEntry(pathPending)}
        BY <4>1 DEF Open, PathEntry
      <4>3. Active(Path)' = {PathEntry(pathPending)}
        BY <3>3, <4>2 DEF Active, PathEntry
      <4> QED BY <1>1, <2>1, <3>3, <4>1, <4>3 DEF PathInv
    <3> QED BY <3>1, <3>2, <3>3
  <2>3. CASE ~PathLost /\ ObservePathClear
    <3>1. pathPending' = NoTime /\ lossSince' = NoTime
      BY <1>5, <2>3 DEF ObservePath, ObservePathClear
    <3>2. Active(Path)' = {}
      BY <2>3 DEF ObservePathClear, Close, Active, PathInv
    <3> QED BY <3>1, <3>2 DEF PathInv
  <2> QED BY <1>5, <2>2, <2>3 DEF ObservePath
<1>6. CASE UNCHANGED <<entries, pathPending, lossSince, now>>
  BY <1>6 DEF PathInv, Active
<1> QED
  BY <1>2, <1>3, <1>4, <1>5, <1>6, Steps
  DEF core, Environment, DishOutage, DishOutageGrows, DishForgets, SetHistoryOutages,
      MarkDishFailure, MarkDishReachable, Evaluates, BeginTick, IngestDone, EndTick, Save, Publish,
      timelineVars

-----------------------------------------------------------------------------
(* A save keeps every row, or replaces it by a longer one.                 *)
LEMMA MergeKeeps ==
  ASSUME Typed, store' = Merge(after.entry)
  PROVE  /\ \A e : \A x \in SameAs(e, store) : \E y \in SameAs(e, store') : y.dur >= x.dur
         /\ \E y \in SameAs(after.entry, store') : y.dur >= after.entry.dur
         /\ Ids(store) \subseteq Ids(store')
         /\ Id(after.entry) \in Ids(store')
<1> DEFINE e == after.entry
<1>1. e \in Entry /\ e.dur \in Nat /\ \A x \in store : x.dur \in Nat
  BY DEF Typed, Work, Entry
<1>2. CASE \E x \in SameAs(e, store) : x.dur >= e.dur
  BY <1>1, <1>2 DEF Merge, SameAs, Ids
<1>3. CASE ~\E x \in SameAs(e, store) : x.dur >= e.dur
  <2>1. store' = (store \ SameAs(e, store)) \cup {e}
    BY <1>3 DEF Merge
  <2>2. \A x \in SameAs(e, store) : e.dur >= x.dur
    BY <1>1, <1>3 DEF SameAs
  <2> HIDE DEF e
  <2>3. \A f : \A x \in SameAs(f, store) : \E y \in SameAs(f, store') : y.dur >= x.dur
    BY <1>1, <2>1, <2>2 DEF SameAs
  <2>4. e \in SameAs(e, store') /\ e.dur >= e.dur
    BY <1>1, <2>1 DEF SameAs
  <2>5. Ids(store) \subseteq Ids(store') /\ Id(e) \in Ids(store')
    BY <2>1 DEF SameAs, Ids
  <2> QED BY <2>3, <2>4, <2>5 DEF e
<1> QED BY <1>2, <1>3

LEMMA CloseKeepsSource ==
  ASSUME Typed, NEW source \in Sources, Close(source)
  PROVE  \E e \in Active(source), c \in Entry :
           /\ c = Closed(e, now) /\ Id(c) = Id(e) /\ c.source = source
           /\ entries' = entries \ {e} /\ after' = Ends(c)
           /\ seen' = (seen \ SameAs(e, seen)) \cup {c}
<1>1. PICK e \in Active(source) : /\ entries' = entries \ {e}
                                  /\ seen' = (seen \ SameAs(e, seen)) \cup {Closed(e, now)}
                                  /\ after' = Ends(Closed(e, now))
  BY DEF Close
<1>2. Closed(e, now) \in Entry /\ Id(Closed(e, now)) = Id(e) /\ e.source = source
  BY Shapes DEF Typed, Active
<1>3. Closed(e, now).source = source
  BY <1>2 DEF Id
<1> QED BY <1>1, <1>2, <1>3

LEMMA StoreStep == TypeOK /\ TickInv /\ StoreInv /\ [Next]_vars => StoreInv'
<1> SUFFICES ASSUME TypeOK, TickInv, StoreInv, [Next]_vars PROVE StoreInv'
  OBVIOUS
<1>0. Typed
  BY TypedIsTypeOK
<1>1. CASE ClockTick
  BY <1>1 DEF StoreInv, Kept, SameAs, ClockTick, pollerVars, timelineVars
<1>2. CASE Environment
  BY <1>2 DEF StoreInv, Kept, SameAs, Environment, DishOutage, DishOutageGrows, DishForgets,
              SetHistoryOutages, MarkDishFailure, MarkDishReachable, timelineVars, loopVars
<1>3. ASSUME NEW loss \in BOOLEAN, BeginTick(loss) PROVE StoreInv'
  BY <1>3 DEF StoreInv, Kept, SameAs, BeginTick, Pruned, pollerVars
<1>4. ASSUME NEW r \in todo, IngestReport(r) PROVE StoreInv'
  <2> DEFINE e == FromReport(r)
  <2>0. after = Nothing /\ ~after.save /\ after.event = "none"
    BY <1>4 DEF IngestReport, Free, Nothing
  <2>1. store' = store /\ live' = live /\ reports' = reports /\ phase' = phase
        /\ todo' = todo \ {r} /\ phase = "ingest"
    BY <1>4 DEF IngestReport, pollerVars
  <2>2. e.source = Dish /\ e.dur = r.dur /\ r \in Report /\ r.dur \in Nat
        /\ (e.ongoing <=> r.dur = 0)
    BY <1>0 DEF FromReport, Typed, Report
  <2>3. \A f : Kept(f) <=> \E x \in SameAs(f, store) : x.dur >= f.dur
    BY <2>0 DEF Kept
  <2>4. \A f : Kept(f) => Kept(f)'
    BY <2>1, <2>3 DEF Kept, SameAs
  <2>5. CASE AddsNothing(e)
    <3>1. UNCHANGED <<entries, seen, after>>
      BY <1>4, <2>5 DEF IngestReport
    <3>2. ASSUME r.dur > 0 PROVE Kept(e)
      <4>1. PICK c \in SameAs(e, seen) : e.dur <= c.dur
        BY <2>2, <2>5, <3>2 DEF AddsNothing
      <4>2. c \in seen /\ Id(c) = Id(e) /\ c.source = Dish
        BY <2>2, <4>1 DEF SameAs, Id
      <4>3. PICK x \in SameAs(c, store) : x.dur >= c.dur
        BY <2>3, <4>2 DEF StoreInv
      <4>4. x.dur \in Nat /\ c.dur \in Nat
        BY <1>0, <4>2 DEF Typed, Entry, SameAs
      <4>5. x \in SameAs(e, store) /\ x.dur >= e.dur
        BY <2>2, <4>1, <4>2, <4>3, <4>4 DEF SameAs
      <4> QED BY <2>3, <4>5
    <3> HIDE DEF e
    <3> QED BY <2>0, <2>1, <2>4, <3>1, <3>2 DEF StoreInv, e
  <2>6. CASE ~AddsNothing(e) /\ e.ongoing /\ IngestKeeps(e)
    <3>1. seen' = seen /\ after'.event = "outage_started" /\ ~(r.dur > 0)
      BY <2>2, <2>6 DEF IngestKeeps, Starts
    <3> QED BY <2>1, <2>4, <3>1 DEF StoreInv
  <2>7. CASE ~AddsNothing(e) /\ ~e.ongoing /\ IngestCloses(e)
    <3>1. seen' = (seen \ SameAs(e, seen)) \cup {e}
      BY <2>7 DEF IngestCloses
    <3>2. after'.save /\ after'.entry = e
      BY <2>7 DEF IngestCloses, Ends, SavesOnly
    <3>3. Kept(e)'
      BY <2>2, <3>2 DEF Kept
    <3> HIDE DEF e
    <3> QED BY <2>1, <2>4, <3>1, <3>2, <3>3 DEF StoreInv, e
  <2> QED BY <1>4, <2>5, <2>6, <2>7 DEF IngestReport
<1>5. CASE IngestDone \/ EndTick
  <2>1. ~after.save
    BY <1>5 DEF IngestDone, EndTick, Free, Nothing
  <2> QED BY <1>5, <2>1 DEF StoreInv, Kept, SameAs, IngestDone, EndTick, pollerVars, timelineVars
<1>6. ASSUME Free, UNCHANGED <<reports, todo, store, live>>, phase # "idle",
             \/ Close(Unreachable) \/ Close(Path)
             \/ UNCHANGED <<seen, after>>
             \/ \E cause, start : Open(Unreachable, cause, start) \/ Open(Path, cause, start)
      PROVE  StoreInv'
  <2>0. ~after.save /\ after.event = "none"
    BY <1>6 DEF Free, Nothing
  <2>1. \A f : Kept(f) => Kept(f)'
    BY <1>6, <2>0 DEF Kept, SameAs
  <2>2. /\ after'.event = "outage_ended" => after'.save
        /\ after'.save => after'.entry.source # Dish
        /\ \A c \in seen' : c.source = Dish => c \in seen
    <3>1. ASSUME NEW source \in {Unreachable, Path}, Close(source) PROVE <2>2!:
      <4>1. source \in Sources /\ source # Dish
        BY DEF Sources, Dish, Unreachable, Path
      <4>2. PICK c \in Entry : c.source = source /\ after' = Ends(c) /\ seen' \subseteq seen \cup {c}
        BY <1>0, <3>1, <4>1, CloseKeepsSource
      <4> QED BY <4>1, <4>2 DEF Ends
    <3>2. CASE UNCHANGED <<seen, after>>
      BY <2>0, <3>2
    <3>3. CASE \E cause, start : Open(Unreachable, cause, start) \/ Open(Path, cause, start)
      BY <3>3 DEF Open, Starts
    <3> QED BY <1>6, <3>1, <3>2, <3>3
  <2> QED BY <1>6, <2>1, <2>2 DEF StoreInv
<1>7. CASE ObserveDish
  <2>1. Free /\ UNCHANGED <<reports, todo, store, live>> /\ phase # "idle"
    BY <1>7 DEF ObserveDish, pollerVars
  <2> QED BY <1>6, <1>7, <2>1 DEF ObserveDish
<1>8. CASE ObservePath
  <2>1. Free /\ UNCHANGED <<reports, todo, store, live>> /\ phase # "idle"
    BY <1>8 DEF ObservePath, pollerVars
  <2> QED BY <1>6, <1>8, <2>1 DEF ObservePath, ObservePathLost, ObservePathClear
<1>9. CASE Save
  <2>1. after.save /\ store' = Merge(after.entry) /\ UNCHANGED <<seen, reports, todo, phase, live>>
    BY <1>9 DEF Save, pollerVars, timelineVars
  <2>2. ASSUME NEW f, f.dur \in Nat, Kept(f) PROVE Kept(f)'
    <3>1. CASE \E x \in SameAs(f, store) : x.dur >= f.dur
      <4>1. PICK x \in SameAs(f, store) : x.dur >= f.dur
        BY <3>1
      <4>2. PICK y \in SameAs(f, store') : y.dur >= x.dur
        BY <1>0, <2>1, MergeKeeps
      <4>3. x.dur \in Nat /\ y.dur \in Nat
        BY <1>0, TypeStep, TypedIsTypeOK, <4>2 DEF Typed, SameAs, Entry
      <4> QED BY <2>2, <4>1, <4>2, <4>3 DEF Kept, SameAs
    <3>2. CASE Id(after.entry) = Id(f) /\ after.entry.dur >= f.dur
      <4>1. PICK y \in SameAs(after.entry, store') : y.dur >= after.entry.dur
        BY <1>0, <2>1, MergeKeeps
      <4>2. after.entry.dur \in Nat /\ y.dur \in Nat
        BY <1>0, TypeStep, TypedIsTypeOK, <4>1 DEF Typed, SameAs, Entry, Work
      <4> QED BY <2>2, <3>2, <4>1, <4>2 DEF Kept, SameAs
    <3> QED BY <2>2, <3>1, <3>2 DEF Kept
  <2>3. \A c \in seen : c.dur \in Nat
    BY <1>0 DEF Typed, Entry
  <2>4. \A r \in reports : FromReport(r).dur \in Nat
    BY <1>0 DEF Typed, Report, FromReport
  <2>5. Ids(store) \subseteq Ids(store') /\ Id(after.entry) \in Ids(store')
    BY <1>0, <2>1, MergeKeeps
  <2>6. (after'.event = "outage_ended" => after'.entry = after.entry) /\ ~after'.save
    BY <1>0, <1>9 DEF Save, Nothing, Typed, Work
  <2> QED BY <2>1, <2>2, <2>3, <2>4, <2>5, <2>6 DEF StoreInv
<1>10. CASE Publish
  <2>1. ~after.save /\ after' = Nothing /\ UNCHANGED <<seen, reports, todo, phase, store>>
        /\ live' = live \cup {[kind |-> after.event, of |-> Id(after.entry)]}
    BY <1>10 DEF Publish, pollerVars, timelineVars
  <2>2. \A f : Kept(f) => Kept(f)'
    BY <2>1 DEF Kept, SameAs
  <2>3. after'.event = "none" /\ ~after'.save
    BY <2>1 DEF Nothing
  <2> QED BY <2>1, <2>2, <2>3 DEF StoreInv
<1>11. CASE UNCHANGED core
  BY <1>11 DEF StoreInv, Kept, SameAs, core, pollerVars
<1> QED
  BY <1>1, <1>2, <1>3, <1>4, <1>5, <1>7, <1>8, <1>9, <1>10, <1>11, Steps DEF Evaluates

LEMMA QueryStep == TypeOK /\ QueryInv /\ [Next]_vars => QueryInv'
<1> SUFFICES ASSUME TypeOK, QueryInv, [Next]_vars PROVE QueryInv'
  OBVIOUS
<1>0. Typed
  BY TypedIsTypeOK
<1>1. CASE QueryMemory
  <2>1. \A e \in entries : Id([e EXCEPT !.dur = Elapsed(e.start, now)]) = Id(e)
    BY <1>0 DEF Typed, Entry, Id
  <2>2. Ids(query'.memory) = Ids(entries) /\ store' = store /\ query'.at = "memory"
        /\ query'.due = Ids(entries) \cup Ids(store)
    BY <1>1, <2>1 DEF QueryMemory, Ids
  <2> QED BY <2>2 DEF QueryInv, QueryComplete
<1>2. CASE QueryStore
  <2>1. query'.due = query.due /\ query'.result = Combined(query.memory) /\ query'.at = "done"
        /\ query.at = "memory"
    BY <1>0, <1>2 DEF QueryStore, Typed, Querying
  <2>2. Ids(query.memory) \cup Ids(store) \subseteq Ids(Combined(query.memory))
    BY DEF Combined, Ids, SameAs
  <2> QED BY <2>1, <2>2 DEF QueryInv, QueryComplete
<1>3. CASE QueryReturns
  BY <1>3 DEF QueryInv, QueryReturns, QueryComplete
<1>4. CASE Save
  <2>1. Ids(store) \subseteq Ids(store') /\ query' = query
    BY <1>0, <1>4, MergeKeeps DEF Save
  <2> QED BY <2>1 DEF QueryInv, QueryComplete
<1>5. CASE UNCHANGED <<query, store>>
  BY <1>5 DEF QueryInv, QueryComplete
<1> QED
  BY <1>1, <1>2, <1>3, <1>4, <1>5
  DEF Next, Loop, API, ClockTick, Environment, DishOutage, DishOutageGrows, DishForgets,
      SetHistoryOutages, MarkDishFailure, MarkDishReachable, BeginTick, IngestReport, IngestDone,
      ObserveDish, ObservePath, EndTick, Publish, Reboot, vars

-----------------------------------------------------------------------------
(* Every step opens an outage, closes one, or leaves the map and what is    *)
(* told as they are.                                                       *)
Opens(e) ==
  /\ after = Nothing /\ after' = Starts(e)
  /\ entries' = entries \cup {e}
  /\ UNCHANGED <<now, dishLog, reports, failingSince, seen, pathPending, live>>
  /\ \/ /\ e.source = Dish /\ Id(e) \notin Ids(entries)
        /\ \E r \in reports : r.dur = 0 /\ Id(FromReport(r)) = Id(e)
     \/ e.source = Unreachable /\ Active(Unreachable) = {} /\ e.start = failingSince
     \/ e.source = Path /\ Active(Path) = {} /\ e.start = pathPending /\ phase = "path"
Shuts(e, c) ==
  /\ after = Nothing /\ after' = Ends(c)
  /\ e \in entries /\ Id(c) = Id(e) /\ c \in Entry
  /\ entries' = entries \ {e}
  /\ seen' = (seen \ SameAs(e, seen)) \cup {c}
  /\ UNCHANGED <<now, dishLog, reports, failingSince, live>>
  /\ pathPending' = IF e.source = Path THEN NoTime ELSE pathPending
  /\ \/ e.source = Dish /\ \E r \in reports : r.dur > 0 /\ Id(FromReport(r)) = Id(e)
     \/ e.source = Unreachable /\ failingSince = NoTime /\ c.dur = Elapsed(e.start, now)
     \/ e.source = Path
Keeps ==
  /\ entries' = entries /\ Told' = Told /\ live \subseteq live'
  /\ Pending \cap live = {} => Pending' \cap live' = {}

LEMMA OneEntry ==
  Typed /\ EntryInv => \A e, f \in entries : Id(e) = Id(f) => e = f
<1> SUFFICES ASSUME Typed, EntryInv, NEW e \in entries, NEW f \in entries, Id(e) = Id(f)
             PROVE  e = f
  OBVIOUS
<1>1. e \in Entry /\ f \in Entry /\ e.dur = f.dur /\ e.ongoing = TRUE /\ f.ongoing = TRUE
  BY DEF Typed, EntryInv, Entry
<1>2. e.source = f.source /\ e.cause = f.cause /\ e.start = f.start
  BY DEF Id
<1> QED BY <1>1, <1>2 DEF Entry

LEMMA IngestMoves ==
  ASSUME Typed, EntryInv, TickInv, NEW r \in todo, IngestReport(r)
  PROVE  Keeps \/ (\E e \in Entry : Opens(e)) \/ (\E e \in Entry : \E c : Shuts(e, c))
<1> DEFINE e == FromReport(r)
<1>1. /\ after = Nothing /\ r \in reports /\ r \in Report
      /\ UNCHANGED <<now, dishLog, reports, failingSince, pathPending, live>>
  BY DEF IngestReport, Free, pollerVars, TickInv, Typed
<1>2. e \in Entry /\ e.source = Dish /\ (e.ongoing <=> r.dur = 0) /\ r.dur \in Nat
  BY <1>1, Shapes DEF FromReport, Report
<1>3. CASE AddsNothing(e)
  BY <1>1, <1>3 DEF IngestReport, Keeps, Told, Pending
<1>4. CASE ~AddsNothing(e) /\ e.ongoing /\ IngestKeeps(e)
  <2>1. Id(e) \notin Ids(entries)
    BY <1>4 DEF AddsNothing, SameAs, Ids
  <2>2. Opens(e)
    BY <1>1, <1>2, <1>4, <2>1 DEF IngestKeeps, Opens
  <2> QED BY <1>2, <2>2
<1>5. CASE ~AddsNothing(e) /\ ~e.ongoing /\ IngestCloses(e)
  <2> HIDE DEF e
  <2>1. CASE SameAs(e, entries) = {}
    <3>1. entries' = entries /\ after' = SavesOnly(e)
      BY <1>5, <2>1 DEF IngestCloses
    <3>2. Pending = {} /\ Pending' = {}
      BY <1>1, <3>1 DEF Pending, Nothing, SavesOnly
    <3> QED BY <1>1, <3>1, <3>2 DEF Keeps, Told
  <2>2. CASE SameAs(e, entries) # {}
    <3>1. PICK f \in entries : Id(f) = Id(e)
      BY <2>2 DEF SameAs
    <3>2. SameAs(e, entries) = {f} /\ SameAs(e, seen) = SameAs(f, seen)
      BY <3>1, OneEntry DEF SameAs
    <3>3. after' = Ends(e) /\ entries' = entries \ {f}
          /\ seen' = (seen \ SameAs(f, seen)) \cup {e}
      BY <1>5, <2>2, <3>2 DEF IngestCloses
    <3>4. f.source = Dish /\ Dish # Path /\ f \in Entry
      BY <1>2, <3>1 DEF Id, Dish, Path, Typed
    <3>5. r.dur > 0 /\ Id(FromReport(r)) = Id(f)
      BY <1>2, <1>5, <3>1 DEF e
    <3>6. Shuts(f, e)
      BY <1>1, <1>2, <3>1, <3>3, <3>4, <3>5 DEF Shuts
    <3> QED BY <3>4, <3>6
  <2> QED BY <2>1, <2>2
<1> QED BY <1>3, <1>4, <1>5 DEF IngestReport

LEMMA ObserveMoves ==
  ASSUME Typed, EntryInv, TickInv, PathInv, ObserveDish \/ ObservePath
  PROVE  Keeps \/ (\E e \in Entry : Opens(e)) \/ (\E e \in Entry : \E c : Shuts(e, c))
<1>1. /\ after = Nothing /\ phase # "idle"
      /\ UNCHANGED <<now, dishLog, reports, failingSince, live>>
  BY DEF ObserveDish, ObservePath, Free, pollerVars
<1>2. CASE UNCHANGED <<entries, after>>
  BY <1>1, <1>2 DEF Keeps, Told, Pending
<1>3. ASSUME NEW source \in {Unreachable, Path}, Close(source),
             source = Unreachable => failingSince = NoTime,
             pathPending' = IF source = Path THEN NoTime ELSE pathPending
      PROVE  \E e \in Entry : \E c : Shuts(e, c)
  <2>1. source \in Sources
    BY <1>3 DEF Sources
  <2>2. PICK e \in Active(source), c \in Entry :
           /\ c = Closed(e, now) /\ Id(c) = Id(e) /\ c.source = source
           /\ entries' = entries \ {e} /\ after' = Ends(c)
           /\ seen' = (seen \ SameAs(e, seen)) \cup {c}
    BY <1>3, <2>1, CloseKeepsSource
  <2>3. e \in Entry /\ e \in entries /\ e.source = source
    BY <2>2 DEF Active, Typed
  <2>4. c.dur = Elapsed(e.start, now)
    <3> DEFINE f == [e EXCEPT !.dur = Elapsed(e.start, now)]
    <3>1. f.dur = Elapsed(e.start, now) /\ c = [f EXCEPT !.ongoing = FALSE]
      BY <2>2, <2>3 DEF Closed, Entry
    <3>2. f \in [source : Sources, cause : AllCauses, start : Time,
                 dur : {Elapsed(e.start, now)}, ongoing : BOOLEAN]
      BY <2>3 DEF Entry
    <3> HIDE DEF f
    <3> QED BY <3>1, <3>2
  <2>5. Shuts(e, c)
    BY <1>1, <1>3, <2>2, <2>3, <2>4 DEF Shuts
  <2> QED BY <2>3, <2>5
<1>4. ASSUME NEW source \in {Unreachable, Path}, NEW cause \in AllCauses, NEW start \in Time,
             Open(source, cause, start), Active(source) = {}, pathPending' = pathPending,
             \/ source = Unreachable /\ start = failingSince
             \/ source = Path /\ start = pathPending /\ phase = "path"
      PROVE  \E e \in Entry : Opens(e)
  <2> DEFINE e == [source |-> source, cause |-> cause, start |-> start, dur |-> 0, ongoing |-> TRUE]
  <2>1. e \in Entry /\ e.source = source /\ e.start = start
    BY <1>4 DEF Entry, Sources
  <2>2. entries' = entries \cup {e} /\ after' = Starts(e) /\ seen' = seen
    BY <1>4 DEF Open
  <2> HIDE DEF e
  <2>3. Opens(e)
    BY <1>1, <1>4, <2>1, <2>2 DEF Opens
  <2> QED BY <2>1, <2>3
<1>5. CASE ObserveDish
  <2>1. pathPending' = pathPending /\ snap.reachable = reachable /\ snap.failing = failingSince
        /\ (reachable => failingSince = NoTime) /\ Unreachable # Path
    BY <1>1, <1>5 DEF ObserveDish, TickInv, Unreachable, Path
  <2>2. CASE ObserveCalled /\ snap.reachable /\ Close(Unreachable)
    BY <1>3, <2>1, <2>2
  <2>3. CASE /\ ObserveCalled /\ ~snap.reachable /\ Active(Unreachable) = {}
             /\ Open(Unreachable, UnreachableCause, FailureSince)
    <3>1. FailureSince = failingSince /\ FailureSince \in Time /\ UnreachableCause \in AllCauses
      BY <2>1, <2>3 DEF Typed, FailureSince, UnreachableCause, AllCauses, Moment, ObserveCalled
    <3> QED BY <1>4, <2>1, <2>3, <3>1
  <2> QED BY <1>2, <1>5, <2>2, <2>3 DEF ObserveDish
<1>6. CASE ObservePath
  <2>1. CASE PathLost /\ ObservePathLost
    <3>1. CASE Active(Path) = {} /\ pathPending # NoTime /\ ~(now - pathPending < PathHold)
      <4>1. "probe_loss" \in AllCauses /\ pathPending \in Time
        BY <3>1 DEF AllCauses, Typed, Moment
      <4>2. Open(Path, "probe_loss", pathPending) /\ pathPending' = pathPending /\ phase = "path"
        BY <1>6, <2>1, <3>1 DEF ObservePath, ObservePathLost
      <4> QED BY <1>4, <3>1, <4>1, <4>2
    <3> QED BY <1>2, <2>1, <3>1 DEF ObservePathLost
  <2>2. CASE ~PathLost /\ ObservePathClear
    <3>1. CASE Close(Path)
      BY <1>3, <2>2, <3>1 DEF ObservePathClear, Unreachable, Path
    <3> QED BY <1>2, <2>2, <3>1 DEF ObservePathClear
  <2> QED BY <1>6, <2>1, <2>2 DEF ObservePath
<1> QED BY <1>5, <1>6

LEMMA Moves ==
  ASSUME Typed, EntryInv, TickInv, PathInv, [Next]_vars
  PROVE  Keeps \/ (\E e \in Entry : Opens(e)) \/ (\E e \in Entry : \E c : Shuts(e, c))
<1>1. CASE UNCHANGED <<entries, after, live>>
  BY <1>1 DEF Keeps, Told, Pending
<1>2. CASE Save
  <2>1. Pending' = Pending
    BY <1>2 DEF Typed, Save, Pending, Nothing, Work
  <2> QED BY <1>2, <2>1 DEF Save, Keeps, Told, timelineVars
<1>3. CASE Publish
  <2>1. Pending' = {} /\ live' = live \cup Pending
    BY <1>3 DEF Publish, Pending, Nothing
  <2> QED BY <1>3, <2>1 DEF Publish, Keeps, Told, timelineVars
<1> QED
  BY <1>1, <1>2, <1>3, IngestMoves, ObserveMoves, Steps
  DEF core, ClockTick, Environment, DishOutage, DishOutageGrows, DishForgets, SetHistoryOutages,
      MarkDishFailure, MarkDishReachable, Evaluates, BeginTick, IngestDone, EndTick, timelineVars,
      loopVars

LEMMA Messages ==
  /\ \A i : Starting(i).kind = "outage_started" /\ Starting(i).of = i
  /\ \A i : Ending(i).kind = "outage_ended" /\ Ending(i).of = i
  /\ \A m \in Message : m.kind = "outage_started" => m = Starting(m.of)
  /\ \A m \in Message : m.kind = "outage_ended" => m = Ending(m.of)
  /\ \A m \in Message : m.kind \in Kinds /\ m.of \in Outage
BY DEF Starting, Ending, Message, Kinds

LEMMA ToldTypes == Typed => Told \subseteq Message
<1> SUFFICES ASSUME Typed PROVE Pending \subseteq Message
  BY DEF Told, Typed
<1>1. Id(after.entry) \in Outage
  BY Shapes DEF Typed, Work
<1> QED BY <1>1 DEF Typed, Work, Pending, Message

(* What a step that opens or closes an outage tells.                       *)
LEMMA MovesTell ==
  /\ \A e \in Entry : Opens(e) => /\ Pending = {} /\ Told = live /\ live' = live
                      /\ Pending' = {Starting(Id(e))} /\ Told' = Told \cup {Starting(Id(e))}
  /\ \A e, c : Shuts(e, c) => /\ Pending = {} /\ Told = live /\ live' = live
                              /\ Pending' = {Ending(Id(e))} /\ Told' = Told \cup {Ending(Id(e))}
<1>1. ASSUME NEW e \in Entry, Opens(e)
      PROVE  /\ Pending = {} /\ Told = live /\ live' = live
             /\ Pending' = {Starting(Id(e))} /\ Told' = Told \cup {Starting(Id(e))}
  <2>1. Pending = {} /\ Pending' = {Starting(Id(e))} /\ live' = live
    BY <1>1 DEF Opens, Pending, Nothing, Starts, Starting
  <2> QED BY <2>1 DEF Told
<1>2. ASSUME NEW e, NEW c, Shuts(e, c)
      PROVE  /\ Pending = {} /\ Told = live /\ live' = live
             /\ Pending' = {Ending(Id(e))} /\ Told' = Told \cup {Ending(Id(e))}
  <2>1. Pending = {} /\ Pending' = {Ending(Id(c))} /\ live' = live /\ Id(c) = Id(e)
    BY <1>2 DEF Shuts, Pending, Nothing, Ends, Ending
  <2> QED BY <2>1 DEF Told
<1> QED BY <1>1, <1>2

(* An outage that is opened was never announced, and does not lie ahead.   *)
LEMMA Fresh ==
  ASSUME Typed, EntryInv, ReportInv, ToldInv, DishInv, UnreachableInv, StreakInv,
         NEW e \in Entry, Opens(e)
  PROVE  Starting(Id(e)) \notin Told /\ e.start <= now
<1>0. /\ Id(e).source = e.source /\ Id(e).start = e.start /\ e.start \in Time /\ NoTime \notin Time
      /\ \A f \in entries : Id(f) = Id(e) => f \in Active(e.source)
  BY DEF Id, Entry, Time, NoTime, EntryInv, Active
<1>1. Starting(Id(e)) \in Told => Starting(Id(e)) \in Started(e.source)
  BY <1>0, Messages DEF Started
<1>2. CASE e.source = Dish
  <2>1. PICK r \in reports : r.dur = 0 /\ Id(FromReport(r)) = Id(e)
    BY <1>2 DEF Opens, Dish, Unreachable, Path
  <2>2. Id(e) \notin Ids(entries)
    BY <1>2 DEF Opens, Dish, Unreachable, Path
  <2>3. r.start = e.start
    BY <2>1 DEF Id, FromReport
  <2>4. ~Over(Id(e)) /\ e.start <= now
    BY <2>1, <2>3 DEF Over, ReportInv
  <2> QED BY <1>1, <1>2, <2>2, <2>4, Messages DEF DishInv
<1>3. CASE e.source = Unreachable
  <2>1. Active(Unreachable) = {} /\ e.start = failingSince
    BY <1>3 DEF Opens, Dish, Unreachable, Path
  <2>2. Id(e) \notin Ids(entries)
    BY <1>0, <1>3, <2>1 DEF Ids
  <2> QED BY <1>0, <1>1, <1>3, <2>1, <2>2, Messages DEF UnreachableInv
<1>4. CASE e.source = Path
  <2>1. Active(Path) = {} /\ e.start = pathPending
    BY <1>4 DEF Opens, Dish, Unreachable, Path
  <2>2. Id(e) \notin Ids(entries)
    BY <1>0, <1>4, <2>1 DEF Ids
  <2> QED BY <1>0, <1>1, <1>4, <2>1, <2>2, Messages DEF StreakInv
<1> QED BY <1>2, <1>3, <1>4, Shapes DEF Entry

LEMMA TimePasses == Typed /\ [Next]_vars => now \in Nat /\ now' \in Nat /\ now <= now'
<1> SUFFICES ASSUME Typed, [Next]_vars PROVE now \in Nat /\ now' \in Nat /\ now <= now'
  OBVIOUS
<1>1. now \in Nat
  BY DEF Typed, Time
<1>2. now' = now \/ now' = now + 1
  BY Steps
  DEF core, ClockTick, Environment, DishOutage, DishOutageGrows, DishForgets, SetHistoryOutages,
      MarkDishFailure, MarkDishReachable, Evaluates, BeginTick, IngestReport, IngestDone,
      ObserveDish, ObservePath, EndTick, Save, Publish
<1> QED BY <1>1, <1>2

LEMMA ToldStep ==
  ASSUME Typed, EntryInv, TickInv, ReportInv, PathInv, ToldInv, DishInv, UnreachableInv, StreakInv,
         [Next]_vars
  PROVE  ToldInv'
<1>0. /\ now \in Nat /\ now' \in Nat /\ now <= now' /\ Told \subseteq Message
      /\ \A m \in Message : m.of.start \in Nat
  BY TimePasses, ToldTypes, Messages DEF Outage, Time
<1>1. CASE Keeps
  BY <1>0, <1>1 DEF ToldInv, Keeps
<1>2. ASSUME NEW e \in Entry, Opens(e) PROVE ToldInv'
  <2>1. Pending = {} /\ Told = live /\ live' = live /\ Pending' = {Starting(Id(e))}
        /\ Told' = Told \cup {Starting(Id(e))}
    BY <1>2, MovesTell
  <2>2. Starting(Id(e)) \notin Told /\ e.start <= now
    BY <1>2, Fresh
  <2>3. entries' = entries \cup {e} /\ now' = now /\ Id(e).start = e.start
    BY <1>2 DEF Opens, Id
  <2>4. Ending(Id(e)) \notin Told'
    BY <2>1, <2>2, Messages DEF ToldInv
  <2>5. \A f \in entries : Ending(Id(f)) \notin Told'
    BY <2>1, Messages DEF ToldInv
  <2>6. \A m \in Told' : m.kind = "outage_ended" => Starting(m.of) \in live'
    BY <2>1, Messages DEF ToldInv
  <2> QED BY <2>1, <2>2, <2>3, <2>4, <2>5, <2>6, Messages DEF ToldInv
<1>3. ASSUME NEW e \in Entry, NEW c, Shuts(e, c) PROVE ToldInv'
  <2>1. Pending = {} /\ Told = live /\ live' = live /\ Pending' = {Ending(Id(e))}
        /\ Told' = Told \cup {Ending(Id(e))}
    BY <1>3, MovesTell
  <2>2. e \in entries /\ entries' = entries \ {e} /\ now' = now
    BY <1>3 DEF Shuts
  <2>3. Ending(Id(e)) \notin Told /\ Starting(Id(e)) \in Told
    BY <2>2 DEF ToldInv
  <2>4. \A f \in entries' : Id(f) # Id(e)
    BY <2>2, OneEntry
  <2>5. \A f \in entries' : Starting(Id(f)) \in Told' /\ Ending(Id(f)) \notin Told'
    BY <2>1, <2>2, <2>4, Messages DEF ToldInv
  <2>6. \A m \in Told' : m.kind = "outage_ended" => Starting(m.of) \in live'
    BY <2>1, <2>3, Messages DEF ToldInv
  <2>7. \A m \in Told' : m.of.start <= now'
    BY <2>1, <2>2, <2>3, Messages DEF ToldInv
  <2> QED BY <2>1, <2>3, <2>5, <2>6, <2>7 DEF ToldInv
<1> QED BY <1>1, <1>2, <1>3, Moves

(* A dish outage that is over stays so.                                    *)
LEMMA OverStays ==
  ASSUME Typed, [Next]_vars, NEW i, i.start \in Nat, Over(i)
  PROVE  Over(i)'
<1>0. now \in Nat /\ now' \in Nat /\ now <= now' /\ i.start < now
  BY TimePasses DEF Over
<1>1. CASE UNCHANGED <<reports, dishLog>>
  BY <1>0, <1>1 DEF Over
<1>2. CASE SetHistoryOutages \/ DishForgets
  BY <1>0, <1>2 DEF Over, SetHistoryOutages, DishForgets
<1>3. ASSUME NEW c \in Causes, DishOutage(c) PROVE Over(i)'
  <2> DEFINE r == [cause |-> c, start |-> now, dur |-> 0]
  <2>1. Id(FromReport(r)).start = now
    BY DEF Id, FromReport
  <2>2. dishLog' = dishLog \cup {r} /\ reports' = reports
    BY <1>3 DEF DishOutage
  <2> HIDE DEF r
  <2>3. \A s \in reports' \cup dishLog' : Id(FromReport(s)) = i => s.dur > 0
    BY <1>0, <2>1, <2>2 DEF Over
  <2> QED BY <1>0, <2>3 DEF Over
<1>4. ASSUME NEW r \in dishLog, DishOutageGrows(r) PROVE Over(i)'
  <2> DEFINE s == [r EXCEPT !.dur = now - r.start]
  <2>1. r \in Report /\ r.start \in Nat /\ r.dur \in Nat /\ r.start + r.dur < now
    BY <1>4 DEF Typed, Report, Time, DishOutageGrows
  <2>2. s.dur = now - r.start
    BY <2>1 DEF Report
  <2>3. s.dur > 0 /\ dishLog' \subseteq dishLog \cup {s} /\ reports' = reports
    BY <1>0, <1>4, <2>1, <2>2 DEF DishOutageGrows
  <2> HIDE DEF s
  <2> QED BY <1>0, <2>3 DEF Over
<1> QED
  BY <1>1, <1>2, <1>3, <1>4, Steps
  DEF core, ClockTick, Environment, MarkDishFailure, MarkDishReachable, Evaluates, BeginTick,
      IngestReport, IngestDone, ObserveDish, ObservePath, EndTick, Save, Publish, pollerVars

LEMMA DishStep ==
  ASSUME Typed, EntryInv, TickInv, ReportInv, PathInv, DishInv, [Next]_vars
  PROVE  DishInv'
<1>0. \A m \in Started(Dish) : m.of.start \in Nat
  BY ToldTypes, Messages DEF Started, Outage, Time
<1>1. \A m \in Started(Dish) : m.of \in Ids(entries) \/ Over(m.of)'
  BY <1>0, OverStays DEF DishInv
<1>2. CASE Keeps
  <2>1. Started(Dish)' = Started(Dish) /\ Ids(entries)' = Ids(entries)
    BY <1>2 DEF Keeps, Started, Ids
  <2> QED BY <1>1, <2>1 DEF DishInv
<1>3. ASSUME NEW e \in Entry, Opens(e) PROVE DishInv'
  <2>1. Told' = Told \cup {Starting(Id(e))} /\ entries' = entries \cup {e}
    BY <1>3, MovesTell DEF Opens
  <2>2. \A m \in Started(Dish)' : m \in Started(Dish) \/ m.of = Id(e)
    BY <2>1, Messages DEF Started
  <2>3. Ids(entries') = Ids(entries) \cup {Id(e)}
    BY <2>1 DEF Ids
  <2> QED BY <1>1, <2>2, <2>3 DEF DishInv
<1>4. ASSUME NEW e \in Entry, NEW c, Shuts(e, c) PROVE DishInv'
  <2>1. Told' = Told \cup {Ending(Id(e))} /\ entries' = entries \ {e}
        /\ UNCHANGED <<now, reports, dishLog>>
    BY <1>4, MovesTell DEF Shuts
  <2>2. Started(Dish)' = Started(Dish)
    BY <2>1, Messages DEF Started
  <2>3. Ids(entries) \subseteq Ids(entries') \cup {Id(e)}
    BY <2>1 DEF Ids
  <2>4. ASSUME e.source = Dish PROVE Over(Id(e))'
    <3>1. PICK r \in reports : r.dur > 0 /\ Id(FromReport(r)) = Id(e)
      BY <1>4, <2>4 DEF Shuts, Dish, Unreachable, Path
    <3>2. /\ r \in Report /\ r.start \in Nat /\ r.dur \in Nat /\ r.start + r.dur <= now
          /\ now \in Nat /\ \A s \in dishLog : s.dur \in Nat
      BY <3>1 DEF Typed, ReportInv, Report, Time
    <3>3. Id(e).start = r.start
      BY <3>1 DEF Id, FromReport
    <3>4. Id(e).start < now
      BY <3>1, <3>2, <3>3
    <3>5. \A s \in reports \cup dishLog : Id(FromReport(s)) = Id(e) => s.dur > 0
      BY <3>1, <3>2 DEF ReportInv
    <3> QED BY <2>1, <3>4, <3>5 DEF Over
  <2>5. \A m \in Started(Dish) : m.of = Id(e) => e.source = Dish
    BY DEF Started, Id
  <2> QED BY <1>1, <2>2, <2>3, <2>4, <2>5 DEF DishInv
<1> QED BY <1>2, <1>3, <1>4, Moves

(* An unreachable outage that is in the map no more cannot come back: it    *)
(* does not start with the present failures, and the clock or the memory of *)
(* closed outages keeps the next ones from starting with it.               *)
Past(i) ==
  /\ i.start # failingSince
  /\ i.start < now \/ \E c \in seen : Id(c) = i /\ c.start + c.dur >= now

(* What is remembered long enough, and the streak of failures, per step.   *)
LEMMA PastStays ==
  ASSUME Typed, [Next]_vars, UNCHANGED entries, NEW i, i.source = Unreachable, i.start \in Nat,
         i.start <= now, Past(i)
  PROVE  Past(i)'
<1>0. /\ now \in Nat /\ now' \in Nat /\ now <= now' /\ SeenRetention \in Nat /\ NoTime \notin Nat
      /\ \A c \in seen : c.start \in Nat /\ c.dur \in Nat
  BY TimePasses, TimelineAssumption DEF Typed, Entry, Time, NoTime
<1>1. CASE ClockTick
  <2>1. now' = now + 1 /\ failingSince' = failingSince
    BY <1>1 DEF ClockTick, pollerVars
  <2> QED BY <1>0, <2>1 DEF Past
<1>2. CASE MarkDishReachable
  BY <1>0, <1>2 DEF MarkDishReachable, Past, timelineVars
<1>3. CASE MarkDishFailure
  <2>1. now' = now /\ seen' = seen /\ (failingSince' = failingSince \/ failingSince' = now)
        /\ \A c \in seen : c.source = Unreachable => c.start # now
    BY <1>3 DEF MarkDishFailure, timelineVars
  <2>2. \A c \in seen : Id(c) = i => c.source = Unreachable /\ c.start = i.start
    BY DEF Id
  <2> QED BY <1>0, <2>1, <2>2 DEF Past
<1>4. ASSUME NEW loss \in BOOLEAN, BeginTick(loss) PROVE Past(i)'
  <2>1. seen' = Pruned /\ now' = now /\ failingSince' = failingSince
    BY <1>4 DEF BeginTick, pollerVars
  <2>2. \A c \in seen : c.start + c.dur >= now => c \in seen'
    BY <1>0, <2>1 DEF Pruned
  <2> QED BY <2>1, <2>2 DEF Past
<1>5. ASSUME NEW r \in todo, IngestReport(r) PROVE Past(i)'
  <2>1. now' = now /\ failingSince' = failingSince
    BY <1>5 DEF IngestReport, pollerVars
  <2>2. \A c \in seen : Id(c) = i => c \notin SameAs(FromReport(r), seen)
    BY DEF SameAs, Id, FromReport, Dish, Unreachable
  <2>3. \A c \in seen : Id(c) = i => c \in seen'
    BY <1>5, <2>2 DEF IngestReport, IngestKeeps, IngestCloses
  <2> QED BY <2>1, <2>3 DEF Past
<1>6. CASE ObserveDish \/ ObservePath
  <2>1. now' = now /\ failingSince' = failingSince
    BY <1>6 DEF ObserveDish, ObservePath, pollerVars
  <2>2. seen' = seen
    BY <1>6 DEF ObserveDish, ObservePath, ObservePathLost, ObservePathClear, Open, Close, Active
  <2> QED BY <2>1, <2>2 DEF Past
<1>7. CASE UNCHANGED <<now, failingSince, seen>>
  BY <1>7 DEF Past
<1> QED
  BY <1>1, <1>2, <1>3, <1>4, <1>5, <1>6, <1>7, Steps
  DEF core, Environment, DishOutage, DishOutageGrows, DishForgets, SetHistoryOutages, Evaluates,
      IngestDone, EndTick, Save, Publish, pollerVars, timelineVars

LEMMA UnreachableStep ==
  ASSUME Typed, EntryInv, TickInv, PathInv, ToldInv, UnreachableInv, [Next]_vars
  PROVE  UnreachableInv'
<1>0. /\ now \in Nat /\ now' \in Nat /\ now <= now'
      /\ \A m \in Started(Unreachable) : m.of.start \in Nat /\ m.of.start <= now
                                         /\ m.of.source = Unreachable
      /\ \A m \in Started(Unreachable) : m.of \notin Ids(entries) => Past(m.of)
  BY TimePasses, ToldTypes, Messages DEF Started, Outage, Time, ToldInv, UnreachableInv, Past
<1>1. failingSince' # NoTime => failingSince' <= now'
  <2>1. failingSince' \in {failingSince, NoTime, now}
    BY Steps
    DEF core, ClockTick, Environment, DishOutage, DishOutageGrows, DishForgets, SetHistoryOutages,
        MarkDishFailure, MarkDishReachable, Evaluates, BeginTick, IngestReport, IngestDone,
        ObserveDish, ObservePath, EndTick, Save, Publish, pollerVars
  <2> QED BY <1>0, <2>1 DEF UnreachableInv, Typed, Moment, Time, NoTime
<1>2. SUFFICES \A m \in Started(Unreachable)' : m.of \notin Ids(entries') => Past(m.of)'
  BY <1>1 DEF UnreachableInv, Past
<1>3. CASE Keeps
  <2>1. Started(Unreachable)' = Started(Unreachable) /\ UNCHANGED entries
    BY <1>3 DEF Keeps, Started
  <2> QED BY <1>0, <2>1, PastStays
<1>4. ASSUME NEW e \in Entry, Opens(e)
      PROVE  \A m \in Started(Unreachable)' : m.of \notin Ids(entries') => Past(m.of)'
  <2>1. Told' = Told \cup {Starting(Id(e))} /\ entries' = entries \cup {e}
        /\ UNCHANGED <<now, failingSince, seen>>
    BY <1>4, MovesTell DEF Opens
  <2>2. \A m \in Started(Unreachable)' : m \in Started(Unreachable) \/ m.of = Id(e)
    BY <2>1, Messages DEF Started
  <2>3. Ids(entries') = Ids(entries) \cup {Id(e)}
    BY <2>1 DEF Ids
  <2> QED BY <1>0, <2>1, <2>2, <2>3 DEF Past
<1>5. ASSUME NEW e \in Entry, NEW c, Shuts(e, c)
      PROVE  \A m \in Started(Unreachable)' : m.of \notin Ids(entries') => Past(m.of)'
  <2>1. /\ Told' = Told \cup {Ending(Id(e))} /\ entries' = entries \ {e} /\ e \in entries
        /\ seen' = (seen \ SameAs(e, seen)) \cup {c} /\ Id(c) = Id(e)
        /\ UNCHANGED <<now, failingSince>>
    BY <1>5, MovesTell DEF Shuts
  <2>2. Started(Unreachable)' = Started(Unreachable)
    BY <2>1, Messages DEF Started
  <2>3. Ids(entries) \subseteq Ids(entries') \cup {Id(e)} /\ Id(e) \in Ids(entries)
    BY <2>1 DEF Ids
  <2>4. ASSUME NEW m \in Started(Unreachable), m.of = Id(e) PROVE Past(m.of)'
    <3>1. e.source = Unreachable /\ e.start = m.of.start /\ c.start = e.start
      BY <1>0, <2>1, <2>4 DEF Id
    <3>2. failingSince = NoTime /\ c.dur = Elapsed(e.start, now)
      BY <1>5, <3>1 DEF Shuts, Dish, Unreachable, Path
    <3>3. c.start + c.dur >= now
      BY <1>0, <3>1, <3>2 DEF Elapsed
    <3>4. m.of.start # NoTime
      BY <1>0 DEF NoTime
    <3> QED BY <2>1, <2>4, <3>2, <3>3, <3>4 DEF Past
  <2>5. ASSUME NEW m \in Started(Unreachable), m.of \notin Ids(entries) PROVE Past(m.of)'
    <3>1. m.of # Id(e) /\ Past(m.of)
      BY <1>0, <2>3, <2>5
    <3>2. \A d \in seen : Id(d) = m.of => d \in seen'
      BY <2>1, <3>1 DEF SameAs
    <3> QED BY <2>1, <3>1, <3>2 DEF Past
  <2> QED BY <2>2, <2>3, <2>4, <2>5
<1> QED BY <1>3, <1>4, <1>5, Moves

LEMMA StreakStep ==
  ASSUME Typed, EntryInv, TickInv, PathInv, StreakInv, [Next]_vars
  PROVE  StreakInv'
<1>0. /\ now \in Nat /\ now' \in Nat /\ now <= now' /\ NoTime \notin Nat
      /\ pathPending \in Nat \cup {NoTime}
      /\ \A m \in Started(Path) : m.of.start \in Nat /\ m.of.source = Path
  BY TimePasses, ToldTypes, Messages DEF Started, Outage, Time, NoTime, Typed, Moment
<1>1. pathPending' # NoTime => pathPending' <= now' /\ (Evaluating' => pathPending' < now')
  <2>1. CASE ClockTick
    BY <1>0, <2>1 DEF ClockTick, StreakInv, timelineVars, Evaluating
  <2>2. CASE ObservePath
    <3>1. ~Evaluating' /\ now' = now
      BY <2>2 DEF ObservePath, Evaluating
    <3>2. pathPending' \in {pathPending, now, NoTime}
      BY <2>2 DEF ObservePath, ObservePathLost, ObservePathClear
    <3> QED BY <1>0, <3>1, <3>2 DEF StreakInv
  <2>3. CASE UNCHANGED <<now, pathPending>> /\ (Evaluating' => Evaluating)
    BY <2>3 DEF StreakInv
  <2>4. CASE EndTick
    BY <2>4 DEF EndTick, TickInv, Evaluating, StreakInv, timelineVars
  <2>5. CASE UNCHANGED core \/ Environment \/ Save \/ Publish
    <3>1. UNCHANGED <<now, pathPending, phase, ticked>>
      BY <2>5 DEF core, Environment, DishOutage, DishOutageGrows, DishForgets, SetHistoryOutages,
                  MarkDishFailure, MarkDishReachable, Save, Publish, timelineVars, loopVars
    <3> QED BY <2>3, <3>1 DEF Evaluating
  <2>6. CASE (\E loss \in BOOLEAN : BeginTick(loss)) \/ IngestDone \/ ObserveDish
    BY <2>3, <2>6 DEF BeginTick, IngestDone, ObserveDish, Evaluating, timelineVars
  <2>7. CASE \E r \in todo : IngestReport(r)
    BY <2>3, <2>7 DEF IngestReport, Evaluating
  <2> QED BY <2>1, <2>2, <2>4, <2>5, <2>6, <2>7, Steps DEF Evaluates
<1>2. pathPending' \in {pathPending, now, NoTime}
  BY Steps
  DEF core, ClockTick, Environment, DishOutage, DishOutageGrows, DishForgets, SetHistoryOutages,
      MarkDishFailure, MarkDishReachable, Evaluates, BeginTick, IngestReport, IngestDone,
      ObserveDish, ObservePath, ObservePathLost, ObservePathClear, EndTick, Save, Publish,
      timelineVars
<1>3. SUFFICES \A m \in Started(Path)' :
                  m.of.start < now' /\ (m.of \in Ids(entries') \/ m.of.start # pathPending')
  BY <1>1 DEF StreakInv
<1>4. CASE Keeps
  <2>1. Started(Path)' = Started(Path) /\ Ids(entries') = Ids(entries)
    BY <1>4 DEF Keeps, Started, Ids
  <2> QED BY <1>0, <1>2, <2>1 DEF StreakInv
<1>5. ASSUME NEW e \in Entry, Opens(e)
      PROVE  \A m \in Started(Path)' :
                m.of.start < now' /\ (m.of \in Ids(entries') \/ m.of.start # pathPending')
  <2>1. Told' = Told \cup {Starting(Id(e))} /\ entries' = entries \cup {e}
        /\ UNCHANGED <<now, pathPending>>
    BY <1>5, MovesTell DEF Opens
  <2>2. \A m \in Started(Path)' : m \in Started(Path) \/ (m.of = Id(e) /\ e.source = Path)
    BY <2>1, Messages DEF Started, Id
  <2>3. Ids(entries') = Ids(entries) \cup {Id(e)}
    BY <2>1 DEF Ids
  <2>4. ASSUME e.source = Path PROVE Id(e).start < now
    <3>1. e.start = pathPending /\ phase = "path"
      BY <1>5, <2>4 DEF Opens, Dish, Unreachable, Path
    <3>2. e.start \in Nat /\ Id(e).start = e.start
      BY DEF Entry, Time, Id
    <3> QED BY <1>0, <3>1, <3>2 DEF StreakInv, Evaluating
  <2> QED BY <2>1, <2>2, <2>3, <2>4 DEF StreakInv
<1>6. ASSUME NEW e \in Entry, NEW c, Shuts(e, c)
      PROVE  \A m \in Started(Path)' :
                m.of.start < now' /\ (m.of \in Ids(entries') \/ m.of.start # pathPending')
  <2>1. Told' = Told \cup {Ending(Id(e))} /\ entries' = entries \ {e} /\ now' = now
        /\ pathPending' = IF e.source = Path THEN NoTime ELSE pathPending
    BY <1>6, MovesTell DEF Shuts
  <2>2. Started(Path)' = Started(Path)
    BY <2>1, Messages DEF Started
  <2>3. Ids(entries) \subseteq Ids(entries') \cup {Id(e)} /\ Id(e).source = e.source
    BY <2>1 DEF Ids, Id
  <2> QED BY <1>0, <2>1, <2>2, <2>3 DEF StreakInv
<1> QED BY <1>4, <1>5, <1>6, Moves

-----------------------------------------------------------------------------
LEMMA TimelineInit == Init => TimelineInv
<1> SUFFICES ASSUME Init PROVE TimelineInv
  OBVIOUS
<1>1. TypeOK
  BY TypeInit, TypedIsTypeOK
<1>2. Pending = {} /\ Told = {}
  BY DEF Init, Pending, Told, Nothing
<1>3. EntryInv /\ TickInv /\ ReportInv /\ PathInv
  BY DEF Init, EntryInv, TickInv, ReportInv, PathInv, Free, Active
<1>4. StoreInv /\ QueryInv
  BY DEF Init, StoreInv, QueryInv, QueryComplete, Nothing
<1>5. ToldInv /\ DishInv /\ UnreachableInv /\ StreakInv
  BY <1>2 DEF Init, ToldInv, DishInv, UnreachableInv, StreakInv, Started, NoTime
<1> QED BY <1>1, <1>3, <1>4, <1>5 DEF TimelineInv

LEMMA TimelineStep == TimelineInv /\ [Next]_vars => TimelineInv'
<1> SUFFICES ASSUME TimelineInv, [Next]_vars PROVE TimelineInv'
  OBVIOUS
<1>1. Typed
  BY TypedIsTypeOK DEF TimelineInv
<1>2. TypeOK'
  <2>1. Typed'
    BY <1>1, TypeStep
  <2> QED BY <2>1 DEF Typed, TypeOK, Phases, Snapshot, Work, Message, Querying
<1>3. EntryInv' /\ TickInv' /\ ReportInv' /\ PathInv' /\ StoreInv' /\ QueryInv'
  BY EntryStep, TickStep, ReportStep, PathStep, StoreStep, QueryStep DEF TimelineInv
<1>4. ToldInv' /\ DishInv' /\ UnreachableInv' /\ StreakInv'
  BY <1>1, ToldStep, DishStep, UnreachableStep, StreakStep DEF TimelineInv
<1> QED BY <1>2, <1>3, <1>4 DEF TimelineInv

(* The conjunction is an invariant of every behaviour.                     *)
THEOREM TimelineCorrect == Spec => []TimelineInv
  BY TimelineInit, TimelineStep, PTL DEF Spec

(* The types, for every value of the constants.                            *)
THEOREM TimelineTypeCorrect == Spec => []TypeOK
<1>1. TimelineInv => TypeOK
  BY DEF TimelineInv
<1> QED BY <1>1, TimelineCorrect, PTL

(* Save precedes Publish, so a client that refetches the timeline on        *)
(* outage_ended finds the outage; and once a batch is ingested, every closed *)
(* outage of it is in the table, no shorter than reported.                 *)
THEOREM EndedIsAlwaysStored == Spec => []EndedIsStored
<1>1. TimelineInv => EndedIsStored
  <2> SUFFICES ASSUME TimelineInv, phase \in {"dish", "path", "rules"},
                      NEW r \in snap.reports, r.dur > 0
               PROVE  \E x \in SameAs(FromReport(r), store) : x.dur >= r.dur
    BY DEF EndedIsStored, TimelineInv, StoreInv
  <2>1. r \in reports \ todo
    BY DEF TimelineInv, TickInv
  <2>2. Kept(FromReport(r)) /\ FromReport(r).dur = r.dur
    BY <2>1 DEF TimelineInv, StoreInv, FromReport
  <2>3. after.save => Id(after.entry) # Id(FromReport(r))
    BY DEF TimelineInv, StoreInv, Id, FromReport
  <2> QED BY <2>2, <2>3 DEF Kept
<1> QED BY <1>1, TimelineCorrect, PTL

(* No outage is announced twice, however long the dish goes on listing it   *)
(* and whatever of it the pruned memory has forgotten; every end follows    *)
(* the start of the same outage.                                           *)
THEOREM OutagesAnnouncedOnce == Spec => []AnnouncedOnce
<1>1. TimelineInv => AnnouncedOnce
  BY DEF TimelineInv, ToldInv, AnnouncedOnce, Pending, Told, Starting
<1> QED BY <1>1, TimelineCorrect, PTL

(* The path outage of observePath is the present, unbroken run of total     *)
(* loss, and that run has lasted PathHold.                                 *)
THEOREM PathOutagesAreSustained == Spec => []PathOutageIsSustained
<1>1. TimelineInv => PathOutageIsSustained
  BY DEF TimelineInv, PathInv, PathOutageIsSustained, PathEntry
<1> QED BY <1>1, TimelineCorrect, PTL

(* Query reads the maps and then, unlocked, the table: it misses nothing    *)
(* that was in either when it began.                                       *)
THEOREM QueriesAreComplete == Spec => []QueryComplete
<1>1. TimelineInv => QueryComplete
  BY DEF TimelineInv, QueryInv
<1> QED BY <1>1, TimelineCorrect, PTL
=============================================================================

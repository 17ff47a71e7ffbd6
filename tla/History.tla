------------------------------- MODULE History -------------------------------
(***************************************************************************)
(* The history in RAM and in SQLite, and the stop of the daemon that saves *)
(* it: the ring of samples (internal/history/ring.go, store.go), the       *)
(* pending events and the flush into minute and quarter rows (sqlite.go),  *)
(* the flush loop and the order in which runConfig ends its goroutines     *)
(* (cmd/starwatchd/main.go).  One series is modelled; the pending outages  *)
(* are in OutageTimeline, the speed tests are pending as the events are.   *)
(***************************************************************************)
EXTENDS Integers, Sequences, FiniteSets, FiniteSetsExt

CONSTANTS
  Workers,         \* goroutines that record events and stop with the context
  Handlers,        \* API handlers that record events
  Events,          \* the events that can be recorded, each once
  MaxPending,      \* maxPendingEvents, of the list and of the table
  Minute, Quarter, \* their lengths in ticks of the clock
  RAMTicks,        \* capacity of the ring
  Backfilled,      \* how many ticks the dish's own history reaches back
  MinuteRetention, QuarterRetention,
  MaxTime,         \* bound on the clock
  MaxFailures      \* bound on the failing flushes

ASSUME HistoryAssumption ==
  /\ {Minute, Quarter, RAMTicks, MaxPending} \subseteq Nat \ {0}
  /\ {Backfilled, MinuteRetention, QuarterRetention, MaxTime, MaxFailures} \subseteq Nat
  /\ Quarter % Minute = 0

VARIABLES
  now, clockSet,    \* the clock; before it is set it shows a year before 2025
  ram,              \* Store: the times of the samples in the ring
  minute, quarter,  \* the rows: the samples a row aggregates, {} is no row
  lastFlush,        \* SQLiteStore.lastFlush, -1 is the zero time
  pending, stored,  \* SQLiteStore.pending and how often the table has an event
  stage,            \* how far the daemon is
  active,           \* the workers and handlers that run
  failed,           \* failing flushes so far
  recorded,         \* history: events this process was given
  dropped,          \* history: events that made room, in the list or the table
  flushed,          \* history: the samples each minute's rows ever had
  cut               \* history: minutes that a flush began in the middle of

series == <<ram, minute, quarter, lastFlush, flushed, cut>>
events == <<pending, stored, recorded, dropped>>
vars == <<now, clockSet, stage, active, failed, series, events>>

Times == 0 .. MaxTime
Minutes == 0 .. MaxTime \div Minute
Quarters == 0 .. MaxTime \div Quarter
MinuteOf(t) == t \div Minute
QuarterOf(t) == t \div Quarter
MinutesOf(q) == {m \in Minutes : QuarterOf(m * Minute) = q}
Unset == -1

Init ==
  /\ now = 0 /\ clockSet \in BOOLEAN
  /\ ram = {} /\ lastFlush = Unset
  /\ minute = [m \in Minutes |-> {}] /\ quarter = [q \in Quarters |-> {}]
  /\ flushed = [m \in Minutes |-> {}] /\ cut = {}
  /\ pending = <<>> /\ stored = [e \in Events |-> 0]
  /\ recorded = {} /\ dropped = {}
  /\ stage = "up" /\ active = Workers /\ failed = 0

-----------------------------------------------------------------------------
(* The ring and the rows. *)
Newest(n, times) == {t \in times : Cardinality({u \in times : u > t}) < n}

Tick ==
  /\ now < MaxTime /\ clockSet
  /\ now' = now + 1
  /\ UNCHANGED <<clockSet, stage, active, failed, series, events>>
SetClock ==
  /\ ~clockSet /\ clockSet' = TRUE
  /\ UNCHANGED <<now, stage, active, failed, series, events>>

(* A sample of the poller or the WAN monitor, none before the clock is set. *)
AppendSample ==
  /\ stage = "up" /\ clockSet /\ now \notin ram
  /\ ram' = Newest(RAMTicks, ram \cup {now})
  /\ UNCHANGED <<now, clockSet, stage, active, failed, minute, quarter, lastFlush, flushed, cut, events>>

(* The dish's own history up to now, as far as it is newer than the samples. *)
Backfill ==
  LET new == {t \in Times : t <= now /\ now - t < Backfilled /\ \A u \in ram : t > u} IN
  /\ stage = "up" /\ clockSet /\ new # {}
  /\ ram' = Newest(RAMTicks, ram \cup new)
  /\ UNCHANGED <<now, clockSet, stage, active, failed, minute, quarter, lastFlush, flushed, cut, events>>

(* What a flush reads again; it begins a minute before the last one. *)
SinceLastFlush == IF lastFlush = Unset THEN 0 ELSE lastFlush
Since == IF lastFlush = Unset THEN 0 ELSE lastFlush - Minute

(* A minute that began before what the flush reads, or before what the ring *)
(* still has.                                                              *)
Interrupted ==
  {m \in Minutes :
     \/ lastFlush # Unset /\ m = MinuteOf(lastFlush - Minute) /\ m * Minute < lastFlush - Minute
     \/ ram # {} /\ m = MinuteOf(Min(ram)) /\ m * Minute < Min(ram)}

Rows ==
  LET points == {t \in ram : t >= Since}
      touched == {MinuteOf(t) : t \in points}
      written == [m \in Minutes |->
                    IF m \in touched THEN {t \in points : MinuteOf(t) = m} ELSE minute[m]]
      rebuilt == IF touched = {} THEN {} ELSE {q \in Quarters : q >= QuarterOf(Min(points))} IN
  /\ minute' = [m \in Minutes |->
       IF m * Minute < now - MinuteRetention THEN {} ELSE written[m]]
  /\ quarter' = [q \in Quarters |->
       IF q * Quarter < now - QuarterRetention THEN {}
       ELSE IF q \in rebuilt /\ \E m \in MinutesOf(q) : written[m] # {}
            THEN UNION {written[m] : m \in MinutesOf(q)} ELSE quarter[q]]
  /\ flushed' = [m \in Minutes |-> flushed[m] \cup written[m]]
  /\ cut' = cut \cup Interrupted
  /\ lastFlush' = now
  /\ UNCHANGED ram

Pendings(e) == Cardinality({i \in DOMAIN pending : pending[i] = e})
Inserted == [e \in Events |-> stored[e] + Pendings(e)]

(* Rows of earlier flushes that go when the table is full: as many as the   *)
(* new ones need; which of them are the oldest is left open.               *)
Outdated(old) ==
  LET kept == {e \in Events : Inserted[e] > 0} \ old IN
  /\ \A e \in old : stored[e] > 0
  /\ Cardinality(kept) <= MaxPending
  /\ old # {} => Cardinality(kept) = MaxPending

(* A flush in one transaction: it does nothing before the clock is set,     *)
(* writes the rows and the pending entries, or fails and leaves all.       *)
Flush ==
  /\ clockSet
  /\ Rows
  /\ \E old \in SUBSET Events :
       /\ Outdated(old)
       /\ stored' = [e \in Events |-> IF e \in old THEN 0 ELSE Inserted[e]]
       /\ dropped' = dropped \cup (old \cap recorded)
  /\ pending' = <<>>
  /\ UNCHANGED <<failed, recorded>>
FlushSkipped == ~clockSet /\ UNCHANGED <<failed, series, events>>
FlushFailsClearing ==
  /\ clockSet /\ failed < MaxFailures
  /\ failed' = failed + 1
  /\ pending' = <<>>
  /\ UNCHANGED <<series, stored, recorded, dropped>>
FlushFails ==
  /\ clockSet /\ failed < MaxFailures
  /\ failed' = failed + 1
  /\ UNCHANGED <<series, events>>

(* The flush loop, until the daemon waits for it. *)
PeriodicFlush ==
  /\ stage \in {"up", "shutdown", "waiting", "abandoned"}
  /\ Flush \/ FlushFails
  /\ UNCHANGED <<now, clockSet, stage, active>>

-----------------------------------------------------------------------------
(* appendBounded: a full list loses its oldest entry. *)
AddEvent(p, e) ==
  /\ p \in active /\ e \notin recorded /\ stored[e] = 0
  /\ LET full == Len(pending) >= MaxPending IN
     /\ pending' = Append(IF full THEN Tail(pending) ELSE pending, e)
     /\ dropped' = dropped \cup (IF full THEN {Head(pending)} ELSE {})
  /\ recorded' = recorded \cup {e}
  /\ UNCHANGED <<now, clockSet, stage, active, failed, series, stored>>

(* A request comes in while the server listens, and is answered. *)
HandlerBegins(h) ==
  /\ stage = "up" /\ h \notin active
  /\ active' = active \cup {h}
  /\ UNCHANGED <<now, clockSet, stage, failed, series, events>>
HandlerEnds(h) ==
  /\ h \in active /\ active' = active \ {h}
  /\ UNCHANGED <<now, clockSet, stage, failed, series, events>>

(* The daemon is told to stop: the context is cancelled, server.Shutdown    *)
(* waits for the handlers, three seconds at most.  Or serving itself fails: *)
(* nobody waits for the handlers then.                                     *)
Stop ==
  /\ stage = "up" /\ stage' = "shutdown"
  /\ UNCHANGED <<now, clockSet, active, failed, series, events>>
ServeFails ==
  /\ stage = "up" /\ stage' = "abandoned"
  /\ UNCHANGED <<now, clockSet, active, failed, series, events>>
ShutdownReturns ==
  /\ stage = "shutdown"
  /\ stage' = IF active \cap Handlers = {} THEN "waiting" ELSE "abandoned"
  /\ UNCHANGED <<now, clockSet, active, failed, series, events>>

(* A worker sees the cancelled context when it looks next. *)
WorkerEnds(w) ==
  /\ stage \in {"shutdown", "waiting", "abandoned"} /\ w \in active
  /\ active' = active \ {w}
  /\ UNCHANGED <<now, clockSet, stage, failed, series, events>>

LastFlush ==
  /\ \/ Flush /\ stage' = IF stage = "waiting" THEN "stopped" ELSE "unclean"
     \/ (FlushSkipped \/ FlushFails) /\ stage' = "unclean"
  /\ UNCHANGED <<now, clockSet, active>>
StopEarly == stage \in {"waiting", "abandoned"} /\ LastFlush

(* When every worker has ended, and the flush loop, comes the last flush,   *)
(* and the database is closed.  A handler that outlived server.Shutdown     *)
(* still runs.                                                             *)
FinalFlush ==
  /\ stage \in {"waiting", "abandoned"} /\ active \cap Workers = {}
  /\ LastFlush

(* The process ends, at a power loss wherever it is. *)
Crash ==
  /\ stage # "down" /\ stage' = "down"
  /\ ram' = {} /\ pending' = <<>> /\ recorded' = {} /\ dropped' = {} /\ active' = {}
  /\ UNCHANGED <<now, clockSet, failed, minute, quarter, lastFlush, flushed, cut, stored>>

(* openSQLite takes the newest minute row for the last flush. *)
Restart ==
  /\ stage = "down" /\ stage' = "up"
  /\ active' = Workers
  /\ LET rows == {m \in Minutes : minute[m] # {}} IN
     \/ rows = {} /\ lastFlush' = Unset
     \/ \E m \in rows : (\A n \in rows : n <= m) /\ lastFlush' = m * Minute
  /\ UNCHANGED <<now, clockSet, failed, ram, minute, quarter, flushed, cut, events>>

Shutdown ==
  \/ Stop \/ ServeFails \/ ShutdownReturns \/ FinalFlush
  \/ \E w \in Workers : WorkerEnds(w)
Next ==
  \/ Tick \/ SetClock \/ AppendSample \/ Backfill \/ PeriodicFlush
  \/ \E p \in Workers \cup Handlers, e \in Events : AddEvent(p, e)
  \/ \E h \in Handlers : HandlerBegins(h) \/ HandlerEnds(h)
  \/ Shutdown \/ Crash \/ Restart

Spec == Init /\ [][Next]_vars

-----------------------------------------------------------------------------
Stages == {"up", "shutdown", "waiting", "abandoned", "stopped", "unclean", "down"}
TypeOK ==
  /\ now \in Times /\ clockSet \in BOOLEAN /\ ram \subseteq Times
  /\ minute \in [Minutes -> SUBSET Times] /\ quarter \in [Quarters -> SUBSET Times]
  /\ lastFlush \in Int /\ failed \in 0 .. MaxFailures
  /\ pending \in Seq(Events) /\ Len(pending) <= MaxPending
  /\ stored \in [Events -> Nat] /\ recorded \subseteq Events /\ dropped \subseteq Events
  /\ stage \in Stages /\ active \subseteq Workers \cup Handlers
  /\ flushed \in [Minutes -> SUBSET Times] /\ cut \subseteq Minutes

(* An event is in the table or pending, once, whatever flushes failed in    *)
(* between: QueryEvents shows it until the list or the table, which stay    *)
(* bounded, drops it.                                                      *)
EventsOnce ==
  /\ Len(pending) <= MaxPending
  /\ \A e \in Events :
       /\ stored[e] + Pendings(e) <= 1
       /\ e \in recorded \ dropped => stored[e] + Pendings(e) = 1

(* A stop that reports no error, and whose last flush wrote, has lost no    *)
(* event that anybody recorded before, however late in the shutdown.       *)
CleanStopSavesAll ==
  stage = "stopped" => \A e \in recorded \ dropped : stored[e] = 1

(* A minute's row keeps every sample it ever had, unless a flush began in   *)
(* the middle of the minute; a quarter has the samples of its minutes.     *)
RowsAreComplete ==
  /\ \A m \in Minutes \ cut : minute[m] # {} => minute[m] = flushed[m]
  /\ \A q \in Quarters, m \in Minutes :
       m \in MinutesOf(q) /\ quarter[q] # {} => minute[m] \subseteq quarter[q]
=============================================================================

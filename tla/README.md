# A verification project for Starwatch

Starwatch (`src/router/`, Go) is a daemon for OpenWrt routers in front of a
Starlink dish. It polls the dish over gRPC, keeps the host route to it, probes the
WAN, keeps a history in RAM and in SQLite, merges what it sees into one timeline of
outages, raises and clears alerts, sends them to a webhook and to ntfy, writes to
the dish, to the Starlink router and to mwan3 on request, and serves an API with a
live websocket feed.

This directory models the daemon in TLA+. TLC checks small instances of the
models; TLAPS proves part of what it checks for every value of the constants.
The source is the reference: `PROJECT.json` maps every definition to the lines it
models.

## 1. Inventory

Paths are below `src/router/`.

| Component | State it keeps | Operations | What makes it correct | Here |
|---|---|---|---|---|
| Outage timeline, `internal/outage/timeline.go` | maps of ongoing and of recent entries, start of a pending path outage, end of the expected window; one mutex | `IngestDish`, `ObserveDish`, `ObservePath`, `ExpectDishUnreachableUntil`, `Active`, `Query` | each outage announced once as started and once as ended; saved before announced; a query misses none | `OutageTimeline` |
| Alert engine, `internal/alert/engine.go` | latch of each alert, failover baseline, suppression end, cached obstruction average; a row in SQLite | `Tick`, `SetRules`, `SetDishUnreachableSuppressUntil`, restore at start | a latch agrees with what was announced, also across restarts; holds are kept | `AlertEngine` |
| Evaluation loop, `cmd/starwatchd/main.go` | the loop's place in its tick | `runEvaluationLoop` each second | a silent dish is alarmed in time; no alarm inside a reboot window | `Evaluation` |
| Event bus, `internal/event/bus.go`, and websocket handlers, `internal/api/server.go` | subscribers and their buffered channels; `closed`, a wait group | `Publish`, `Subscribe`, cancel; `websocket`, `Close` | no channel closed twice; a client's feed has no gap; `Close` waits for every handler and returns | `EventFeed`, `EventBus` |
| Alert delivery, `internal/alert/delivery.go` | a queue, one queue and one worker for each endpoint | `Enqueue`, `SetEndpoints`, `Run`, workers with retries | the newest is kept, order kept, endpoints independent, shutdown returns | `Delivery` |
| Settings, `internal/config/*.go` | current configuration, its file | `Update`, `RegenerateToken`, `Load`, `Apply` | the file survives a power loss; what is applied is what is stored | `Settings`, `Publication` |
| Dish poller, `internal/dish/poller.go` | snapshot, topology, failures, obstruction map, configuration, location, map interval | a loop of ticks; setters and refreshes from the API | what is stored still applies when it is stored; a lost dish is found again | `DishLink`, `Publication`, in part `OutageTimeline` |
| Dish controls, `internal/dish/controls.go` | none | one RPC each; reboot opens two windows, clear drops the map, a setting is read back | the windows cover the reboot; a cleared map is gone | `Evaluation`, `DishLink` |
| Dish route, `internal/dishroute/manager.go` | the kernel's host route | `Ensure` | a route that leads to the dish comes back | `DishLink` |
| Starlink router, `internal/dish/router*.go`, `internal/api/router_control.go` | snapshot with a revision; the router's own configuration | poll; a write with a revision check, a merge and a readback | nothing foreign is overwritten; what is accepted holds | `RouterControl` |
| mwan3 assist, `internal/mwan/manager.go`, `internal/api/failover.go` | last status, last active set; UCI sections | `Refresh`, `Assist`, `Apply` | one plan; a plan reported as applied runs | `Failover` |
| WAN monitor, `internal/wan/*.go` | the interface, probe windows, counters | three loops: discover, probe, sample; `SetProbeConfig` | a rate is traffic that was carried; the snapshot settles on what the kernel has | discovery in `Failover` |
| History, `internal/history/*.go` | RAM rings; pending lists, rows, last flush | append, flush, retention, tiered reads | a flush loses and repeats nothing; a row is whole; a clean stop saves all | `History`; the outage table in `OutageTimeline`, the alert row in `AlertEngine` |
| Shutdown, `cmd/starwatchd/main.go` | the goroutines still running | cancel, wait, flush, close | the last flush comes after the last event | `History` |
| Speed test, `internal/dish/speedtest.go` | the test in progress, the latest result | `Start` with its retries, a polling goroutine, `Wait` | one test at a time, recorded once, shown before it is announced; neither a test nor the stop hangs | `SpeedTest` |
| Diagnostics, web dashboard, packages | none, or presentation | | | not modelled |

### How they interact

* **The evaluation loop** drives the alarm path. Once a second it takes a
  snapshot of the poller, ingests the dish's own outage list, observes whether the
  dish is reachable and whether the path is lost, and passes the ongoing outages to
  the engine.
* **The timeline** changes its maps under its mutex and, after the unlock, saves
  a closed outage and publishes an event. Its readers, the API and the engine, come
  between.
* **The engine** publishes to the bus, enqueues to delivery, and then saves its
  row.
* **The settings manager** replaces the file under its mutex and, after the unlock,
  hands the new settings to the poller, the WAN monitor, the engine, the dispatcher
  and the store, one after the other, in the goroutine of the request.
* **The poller's loop** makes one call at a time, to the route manager, to the dish,
  or to its own schedule; the API and the controls make calls of their own and
  store into the same snapshot.
* **Requests that write**, to the dish, the Starlink router or mwan3, read first,
  check, write, and read back, against writers the daemon does not know.
* **Shutdown** cancels one context that every goroutine watches, waits for the
  API's handlers for three seconds, closes the API server, waits for the goroutines,
  and flushes the history.

### What is hard

* steps done after an unlock: save, publish, apply, cancel;
* state read before a call and used after it: a location, a map, a status, a
  revision, a primary;
* reads in two parts (maps, then table) of something that moves between them;
* a latch in memory, its row in SQLite, and a notification already sent: three
  accounts of an alert, written one after the other, any of which a restart or a
  failed save can leave behind;
* bounded channels drained by their reader while the writer makes room;
* writes in several steps, of which one fails, or after which the power goes: the
  settings file, the host route, mwan3's configuration, the flush;
* retries of requests that may have arrived, across a shutdown;
* windows and holds set by one goroutine and read by another.

`PROJECT.json` lists these as hazards, each at its line with the properties that
guard it, or with the reason why none does.

## 2. Modules

```
OutageTimeline_     OutageTimeline   AlertEngine   AlertEngine_   EventFeed (abstract)
proofs -----------------/     \        /    \------ proofs            |
                              Evaluation               Delivery    EventBus
                                   \______________________|____________/
                                                   Notices_proofs

Settings -- Publication -- Publication_proofs

RouterControl    History    DishLink   SpeedTest    Failover
     |              |            \       /             |
RouterControl_   History_       Dish_proofs        Failover_
   proofs         proofs                             proofs
```

`Notices_proofs` and `Dish_proofs` hold the proofs of several modules, which share
no variable: each theorem is about the specification of one of them.

`MC...` modules give the constants of an instance and nothing else. Each `.cfg`
is a run. Definitions that no action uses and whose name extends the name of
another (`Fires`, `FiresAnyway`) are faulty variants of it: they state which change
of the code the property is there to notice.

### OutageTimeline

State: the poller's part (`reports`, `reachable`, `failingSince`), the timeline's
(`entries` for the map of entries and active keys, `seen` for the memory of closed
ones, `pathPending`, `expectedUntil`), the loop (`phase`, `todo`, `snap`), and the
outside (`store`, `live`, one `query`). A handler is one action for what it does
under the mutex; what it does after the unlock is left in `after` and done by
`Save` and then `Publish`. `Query` is two actions, for it reads the maps and the
table separately. `store` merges an outage saved again as the SQL of `Flush` does.
Sets of reports are ingested in any order, which covers the order the dish gives
them in.

The dish's own list is external: outages start, grow, and vanish with a restart
of the dish. `lossSince` is a history variable.

### AlertEngine

`Tick` is split at each rule: `BeginTick` takes the inputs and a copy of the rule
table, `EvaluateFailover` and `EvaluateRule` follow the catalogue, each followed by
`PersistState` or `PersistFails` if it asked for a save (`dirty`), and `EndTick`.
A rule that an outage would raise reads the suppression window first, in a step of its
own (`RuleTurn`: `ReadSuppression`, then `EvaluateRule`), since the lock is given back before the alert fires; what it
read is `tick.until`. Between any of these `SetRules` and
`SetDishUnreachableSuppressUntil` may come, and `Restart` at any time, which reads the
row back or, if it cannot be read or decoded, starts from nothing (`RestoreFails`). The rules of the catalogue are of
three kinds: over outages (source, cause and hold), over a signal that is unknown,
clear or raised (dish flags, latency, loss and the like differ only by the field
they read), and the cached obstruction average.

History variables: `last` and `told` for what was announced, `torn` for alerts
whose latch a restart did not give back as it was, `raisedAt` and `highAt`.

### Evaluation

Composes the two on the same variables. `T!EndTick` and `E!BeginTick` are one step:
the loop passes `timeline.Active()` to `engine.Tick`. The reboot handler is three
steps: the dish accepts the command (`RebootAccepted`), the end of the window is
computed and given to the engine (`RebootSuppresses`), and then to the timeline
(`RebootExpects`). The loop runs between any two of them, also between a rule's
reading of the window and its firing. The clock stands still meanwhile: a unit is far
longer than the handler. `storeUp` is FALSE if
`OpenSQLite` failed; the store is then a nil pointer inside a non-nil interface.
`Restart` empties what lives in memory, keeps any subset of the outages not known
to be flushed, opens the database or not, and restores the engine from its row, if it
can.

History variables: `rebootedAt`; `warned`, whether the engine knew of the window when
its tick began; and `alarms`, the clock values whose tick ended with `outage_started`
active. `OwnOutagesFire` relates them to the stored outages: one that is longer than
the hold has such a tick between its start and its end.

`EvaluationAssumption` says that every alert is in the catalogue and that outage
alerts have no clear hold: `holdOption` (`internal/config/manager.go:431`) gives one to
`path_degraded` alone. Holds are any numbers, zero included, and a table may disable
a rule.

### EventFeed and EventBus

`EventFeed` promises that a feed is a run of consecutive events from some point on,
until it is over. `EventBus` is the code: channels of bounded length, `Publish` that
drops and closes a subscriber that is full, handlers that are admitted under the
lock, subscribe, write one event at a time, notice a slow or lost client or the
shutdown, cancel and call `Done`; and `Close`, which refuses newcomers and waits.
The refinement maps `heard` to what was written to the client and `over` to the
handlers that left.

### Delivery

`Enqueue` is one action for its first attempt, and two more when the queue is full
(`DropOldest`, `SendAgain`), since the receiver may take between them; likewise the
fan-out of `Run` to each endpoint's queue. A worker takes a job, sends it, and on a
failure sleeps and tries again. A request that failed may have been heard.

### Settings and Publication

`Settings` is the manager. A configuration is a function from options to small
numbers, 0 and one number above what `Load` admits among them, so that what
`applyUpdate` accepts (`Accepts`) and what the parsers of `Load` accept (`Parses`)
can differ as they do in the code. A request locks and computes its candidate
(`Update`, `RegenerateToken`), renames the new file over the old one, syncs the
directory, takes the candidate over and unlocks (`SyncDirectory`), and then calls
Apply's setters one by one (`Applies`). `WriteFails` may come instead of either step
of the write. `durable` is the set of files a power loss may leave, which `Restart`
chooses from.

`Publication` extends it with what two of the setters do: `SetLocationEnabled`
against a poll of the location that is asking the dish or has its answer, and
`SetMapInterval` with its channel of capacity one, which is found full, drained and
sent to in separate steps.

`doubtful`, `overlap` and `stores` are history variables: the options of a write that
was renamed and not acknowledged, whether the last two publications overlapped, how
many locations were stored since the last was disabled. The poller's loop goes on for
as long as the daemon runs: that it stops receiving intervals once the daemon is told to
stop, with a setter still waiting, is not modelled.

### RouterControl

The router holds `config`: a client's own entry with the numbers of Starwatch's and of
the user's schedules, the two BSSs of one band in the order the router lists them, radio
widths, one scalar. A network is addressed by its name, as in the code: the name must
be borne by exactly one (`Addresses`), the credentials of all must be known
(`HasCredentials`), a network that is opened loses its secret (`Wanted`), and the readback
looks for the old or the new name and judges the first that bears one (`Found`,
`Agrees`). Every change advances `incarnation`, and
the vendor's app changes it too (`AppChanges`). A request is checked against the
poller's snapshot (`Patch`), and the controller then reads (`Read`, which compares
the revision, merges and refuses), looks at the list of clients for an unblock
(`ReadClients`), writes (`Write`: the router stores it or ignores it; `WriteFails`:
the answer is lost either way), and reads back (`Readback`, `Relist`). The list of
clients follows the configuration when it likes (`LiveFollows`). A round of the
poller is `Poll`, in which each call succeeds or fails for itself.

History variables: `chosen`, what was last chosen for each field by whom it
belongs to, and `raced`, the fields a write took back that changed since its read; and
in each request `foreign`, whether somebody else changed the router between its read and
its readback, and `changed`, whether since.

### History

One series. The ring is a set of times that keeps the newest; a row is the set of
samples it aggregates. `Flush` writes the rows of what it reads again (`Rows`,
beginning a minute before the last flush), rebuilds the quarters from the first of
them, applies the retention, inserts what is pending and trims the table; it
is one transaction that does all of it or, in `FlushFails`, nothing. `AddEvent` is
what a worker, a handler or the daemon itself records. The stop is in stages: `Stop`
cancels, `ShutdownReturns` with the handlers gone or after its three seconds,
`WorkerEnds` for each goroutine, `FinalFlush` once all have. `Crash` may come at
any point and `Restart` takes the newest minute row for the last flush.

### DishLink

The daemon's way to the dish: what is outside (the dish's power, the WAN's device,
a VPN that displaces the route, the dish's map and configuration as versions), the
routes in the kernel, and the poller's loop with the calls it still has to make
(`todo`). `Ensure` derives the route, and flushes and replaces it in separate steps; a
look at the route that fails finds none, so that it is replaced without a flush.
Any tick gives the loop its calls; a call that fails is counted, and the third
failure, or the first before the dish is known, loses the dish. `asking` is what a
caller, the loop or a request, has fetched and not stored.

History variables: `cleared`, `behind` and `excused`, for the fetches that the dish
had answered before it was told to clear.

### Failover

The WAN monitor's interface, mwan3's state, the manager and the requests for a plan.
`Refresh` is two steps, the question and the store under the lock. A POST asks for
itself (`Post`, `AssistAsks`, `AssistShows`), then takes `applyMu`, reads the
interface again and checks again, writes the plan (`Batch`), reloads mwan3
(`Reload`) and refreshes. A plan is its primary. The user may configure mwan3
himself at any point, and takes a plan away only while none is being applied.

`told` and `blind` are history variables: the plans whose caller was told of an
error, and whether a check went on without the configuration.

### SpeedTest

Each API request has a slot: the Start of its handler (`asker`) and the goroutine
it leaves behind (`worker`). `state` is the manager's, checked and set in one step;
`begun` and `active` are the dish's. A call can fail and have begun the test. The
result goes to the history, the snapshot and the clients in three steps. `Cancel`
ends the goroutines' context, `Wait` returns when none is left, and a handler that
is late may still start one.

## 3. Runs

Clock values are units: 30 s or more in the alarm path, whose holds are a few of
them; half a minute row in `History`. Deadlock is checked in `publication`,
`dish_link` and `speed_test`, whose systems never stop for good. In the others it
is not: each has a bounded clock, a bounded number of events or changes, or ends in
shutdown.

| Run | Instance | Shows |
|---|---|---|
| `timeline` | one dish cause, at most one outage in the dish's list at a time, three clock values, queries on, closed outages forgotten after their unit | `EndedIsStored`, `AnnouncedOnce`, `PathOutageIsSustained`, `QueryComplete` |
| `alerts` | a signal alert with a clear hold of two, the obstruction average cached for two units, two mwan3 sets (symmetric) or no mwan3; two rule tables, one with the signal alert alone and one with all but it; four clock values, a window that ends within them, one restart that reads the row or fails to | `StateIsSaved`, `NotifiedOnce`, `LatchIsAnnounced`, `ClearIsHeld`, `BaselineIsTold`, `ObstructionIsRecent` |
| `evaluation` | both outage alerts, one reboot, store open or not at each start, four clock values, one restart | `UnreachableAlarmed`, `AlarmTracksOutage`, `OwnOutagesFire`, `NoAlarmInWindow` |
| `feed` | two clients, buffers of two, four events | `ChannelsAreSafe`, `CloseWaits`, `CloseTerminates`, `FeedIsWhole` |
| `delivery` | queues of two, three notifications, two tries for the webhook and one for ntfy, only ntfy is known to answer | `HeardInOrder`, `NewestIsKept`, `EndpointsAreIndependent`, `StopReturns` |
| `publication` | two requests at once, four options, five patches of which two are refused (a map interval of 0, the token) and one cannot be loaded, three writes | `PowerLossKeepsSettings`, `AppliedIsStored`, `LocationStops`, `UpdateReturns` |
| `router` | two requests at once, eight mutations, three of them of networks, three changes by the app, one failing call, two changes after the first | `ForeignChangesKept`, `AcceptedHolds`, `WritesWhatWasShown` |
| `history` | one worker, one handler, two events, a list and a table of one, minutes of two samples, quarters of two minutes, a ring of three, six clock values, one failing flush | `EventsOnce`, `CleanStopSavesAll`, `RowsAreComplete` |
| `dish_link` | two devices, one request, one change outside, one write, one failing command | `ClearedMapIsGone`, `LinkRecovers` |
| `failover_assist` | two devices, two interfaces, two requests, two changes, one failing command | `OnePlan`, `AppliedIsLoaded` |
| `speed_test` | two requests, three tests of the dish, three calls and three refusals as in the code | `OneTest`, `ResultsOnce`, `NothingAfterWait`, `TestEnds` |

One more run, `store_down`, ends in a counterexample. It checks what
`cmd/starwatchd/main.go:91` says of a database that did not open, "continuing with
RAM history", and finds that the first outage that ends calls a method of a nil
store, which panics.

### Why the bounds are enough

* *timeline*: an outage can be listed, grow, close, be pruned, and be listed again
  within three clock values when the memory lasts for its own unit only; a path
  outage can be pending, open, and be interrupted; a second source always competes
  with the first. With one report, that outage meets the two sources the daemon
  itself watches; reports do not interact with each other but through their keys.
* *alerts*: the engine treats alerts independently except for the order of saves,
  for which two and the failover event suffice. A clear hold of two can be begun,
  abandoned and begun again in four clock values, and an average is read from the
  cache and after it expired. The average is unknown until it has samples, and an
  unknown value keeps an alert as it is. One restart reaches every half-done step; a
  second would start from the same kind of row. Outage alerts, with their hold and their
  reading of the window, are in *evaluation*, where the timeline says which outages there
  are.
* *evaluation*: four values hold a failure, a hold of one, a window of two, and its
  end. The clock moves only when the loop has evaluated its value: the
  loop's second is far finer than a unit.
* *feed*: two clients show a drop of one that leaves the other alone; with buffers
  of two and four events a client can be dropped, and also read everything.
* *delivery*: with three notifications and queues of two every queue overflows.
  Two tries stand for four: they differ by more of the same step.
* *publication*: three writes let a write fail between two that succeed, and fill the
  interval's channel twice while the loop is in a poll. Options of one class
  are treated alike, so that the four explored, one published with a guard, one
  through the channel, one plainly and one not at all, stand for the rest.
* *router*: `MaxChanges` bounds what begins, so that a request in progress can
  still write. The app may give the first network the new name asked for the second:
  an ignored rename is then confirmed by the wrong one. With one failing call a reachable router is never counted
  unreachable; the check of `Patch` is met by the router not yet polled.
* *history*: a list of one overflows with the second event, and the table is
  trimmed when both are flushed. A flush falls on the beginning and in the middle of
  a minute, the ring loses the first samples of one, and the retention drops rows.
* *dish_link*: with two changes the run exceeds its time. One suffices for a dish
  that goes or comes, a WAN that moves or a VPN that takes the route, from any of the
  initial situations; the failing command then meets any step of the repair.
* *failover_assist*: two changes move the primary between the two reads of it and
  let the user configure mwan3 between check and write. The interface `wan` has a
  device of its name, `wwan` has not.
* *speed_test*: a second request meets the first in every place, also after its
  result is stored and before it is announced. A third test is begun again after
  two, one of them by a call whose answer was lost.

### Fairness

Five specifications state fairness; the others have safety properties alone.

* `EventBus`: weak fairness of each handler's steps and of `Close`'s return. A
  handler that can move is a runnable goroutine, and a write to a slow client ends
  by its 2 s timeout (`writeWS`). Nothing requires a client to do anything, an event
  to be published, or `Close` to be called.
* `Delivery`: weak fairness of the sends, of Run's steps and of each worker's steps,
  and strong fairness of Run noticing the cancellation, because Go's `select` picks
  at random among ready cases. A request is known to end only for the endpoints in
  `Answering`; the rest may hang until shutdown cancels them.
* `Publication`: weak fairness of a location poll in flight, whose call has a
  timeout, and of the steps of a write; strong fairness of the loop receiving an
  interval, which its `select` finds ready again and again, and of each setter: a
  sender waiting on the channel is handed the room that a receiver makes.
* `DishLink`: weak fairness of the loop's calls and of the requests' steps, each of
  which ends with its answer or at its timeout; strong fairness of each kind of
  tick, which the `select` takes at random among those that are due. The failing
  commands are bounded: `LinkRecovers` is about a dish that is there and stays.
* `SpeedTest`: weak fairness of a Start's steps, of a goroutine's notice of its
  cancelled context, of the steps after a result, and of a poll that is answered
  while the dish can be reached. A poll, a retry's wait and what follows a result have a
  timer or a deadline or call nothing. The call that starts a test has none
  (`internal/dish/speedtest.go:99` runs on the request's context): that it ends is an
  assumption, that the dish answers or the connection breaks. The dish begins a test
  with the call it accepts, and its tests end. That the dish can be reached is not assumed but in the first half of
  `TestEnds`; the second half, that the stop is not held up, does without it.

## 4. Proofs

Eight modules hold theorems, for every value of the constants. Their assumptions
are named in the modules that declare the constants, and TLC evaluates them in the
runs above. A theorem without a property says that every variable keeps its type,
which is proved and in no run.

| Module | Theorem | Property |
|---|---|---|
| `OutageTimeline_proofs` | `TimelineTypeCorrect` | |
| | `EndedIsAlwaysStored` | `EndedIsStored` |
| | `OutagesAnnouncedOnce` | `AnnouncedOnce` |
| | `PathOutagesAreSustained` | `PathOutageIsSustained` |
| | `QueriesAreComplete` | `QueryComplete` |
| `AlertEngine_proofs` | `TypeCorrect` | |
| | `RowIsFaithful` | `StateIsSaved` |
| | `NeverRepeated`, `LatchAgrees` | `NotifiedOnce`, `LatchIsAnnounced` |
| | `ClearHoldKept` | `ClearIsHeld` |
| | `BaselineAgrees` | `BaselineIsTold` |
| | `ObstructionCurrent` | `ObstructionIsRecent` |
| `Notices_proofs` | `BusTypes` | types, and `Counted`: the wait group's counter is the number of running handlers |
| | `ChannelSafety` | `ChannelsAreSafe` |
| | `CloseIsComplete` | `CloseWaits` |
| | `FeedImplemented` | `FeedIsWhole`, the refinement of `EventFeed` |
| | `DeliveryTypeCorrect` | |
| | `NewestStaysInReach` | `NewestIsKept` |
| | `OrderIsHeard` | `HeardInOrder` |
| | `UnreachableIsAlarmed` | `UnreachableAlarmed` |
| | `AlarmsTrackOutages` | `AlarmTracksOutage` |
| | `LongOutagesFire` | `OwnOutagesFire` |
| | `NoAlarmInside` | `NoAlarmInWindow` |
| `Publication_proofs` | `Types` | |
| | `PowerLossSafe` | `PowerLossKeepsSettings` |
| | `LocationStopsSafe` | `LocationStops` |
| | `AppliedSafe` | `AppliedIsStored` |
| `RouterControl_proofs` | `RouterTypes` | |
| | `WritesShown` | `WritesWhatWasShown` |
| | `ForeignKept` | `ForeignChangesKept` |
| | `AcceptedInForce` | `AcceptedHolds` |
| `History_proofs` | `HistoryTypes` | |
| | `EventsKeptOnce` | `EventsOnce` |
| | `StopSavesAll` | `CleanStopSavesAll` |
| | `RowsKeepSamples` | `RowsAreComplete` |
| `Dish_proofs` | `LinkTypes` | |
| | `ClearedMapStaysGone` | `ClearedMapIsGone` |
| | `SpeedTestTypeCorrect` | |
| | `OneTestAtATime` | `OneTest` |
| | `ResultsRecordedOnce` | `ResultsOnce` |
| | `NothingRecordedLate` | `NothingAfterWait` |
| `Failover_proofs` | `FailoverTypes` | |
| | `OnePlanWritten` | `OnePlan` |
| | `AppliedIsRun` | `AppliedIsLoaded` |

**The timeline.** `TimelineInv` is one conjunction, and each part is there for a
reason. `TickInv` says that a tick's snapshots stay what the poller has, `ReportInv`
that the dish lists an outage once and never shorter. `StoreInv` follows a closed
outage from the memory of closed ones, or from the batch, to the table or to the save
still due. That nothing is announced twice is the hard one. `ToldInv` takes what is
announced and what is about to be as one set, and needs to know of every outage in it
that it is in the map or cannot be opened again, which has a different reason for each
source: a dish outage is over, in the dish's list too (`DishInv`), so forgetting it
early costs nothing; an unreachable one began before the present streak of failures,
or is remembered still (`UnreachableInv`); a path outage began with an earlier run of
loss (`StreakInv`). `Moves` reduces every step to one that opens an outage, closes
one, or tells nothing new, so that each invariant has three cases.

**The alert engine.** `TypeOK` comes first; every other proof uses it. The latch
properties are not inductive one by one: that an alert is not announced twice needs
the latch to agree with the last announcement. `LatchInv` states both for each alert
not torn. A restart tears the alerts whose row differs from memory; that these are
only the ones whose save was due or failed is `StateIsSaved`. One that cannot read its
row tears every alert that was active. The action properties
need invariants over history: `ClearInv` (a clearing period begins no earlier than
the condition was last seen raised) and `CacheInv` (an average cached as raised was
raised when it was read). What a rule's turn can do to one alert is stated once, in
lemmas, and used by each proof.

**The bus.** The inductive invariant is `BusInv`: types; `Counted`, the wait group
equals the number of admitted handlers; `Placed`, where a subscriber's handler can
be; `ChannelsAreSafe`; `Whole`, that what was written, what is in hand and what is
in the channel are consecutive events since the subscription; and `Waited`. `Counted`
is needed for `CloseWaits`: `Close` looks at the counter and not at the handlers.
`Whole` is needed for the refinement: a client hears the next event only because
nothing was skipped between its hand and its channel.

**Delivery.** `HeardInOrder` needs an order along the whole way: everything beyond a
queue is older than what is in it. `CentralInv` says so of `Run`'s queue, `FanInv` of
the notification that `Run` hands on and the endpoints it has yet to reach, `WorkerInv`
of an endpoint's queue and what its worker took; `QueueInv` adds that a queue itself is
rising and that what a full queue still has to take is newer than all it holds. Four lemmas say what the four operations on a queue (send, give up
the oldest, send again, receive) do to what it contains, so that each step is one of
them at a known place. `NewestIsKept` then follows from `LaterKept`: each time an
entry is given up a newer one is on its way behind it, and that can only be taken,
not lost, unless a newer one yet comes.

**The alarm path.** `EvaluationInv` ties the three accounts of an outage together.
`PollInv`: the snapshot of a tick is the poller's view until the timeline is done
with it. `FollowInv`: the open outage of an unreachable dish began no later than the
failure that the poller counts, and a failure a tick has seen has one. `EngineInv`:
a tick of the engine works on the rules in force and on the outages that are open.
From these, `RaisedInv`: once its rule was evaluated, an alert with an open outage of
the hold is active. `TracksInv` is about the latch that a restart may have restored
for an outage of before: as long as its rule is not evaluated, whatever the timeline
holds open has the latch's start or begins now, so that with a hold it cannot be
what keeps the alert raised. `AlarmedInv` looks one tick ahead: what is open for the
hold at the end of a tick has been alarmed, hence whatever the next tick closes after
more than the hold, and `FiredInv` carries this to the save that is due and to the
table. The reboot's three steps come anywhere in between; `RebootInv` says which windows
they have set, and `WindowInv` that a rule which read the window before it was set
belongs to a tick that began before, at the time of the command. The reports of the dish only add and remove entries of their own
source and leave all of it untouched (`OthersObserved`).

**Settings and their publication.** That a power loss finds the manager's settings
rests on the lock: only its holder is between rename and sync, so the file
differs from memory in its candidate alone. That what is applied is what is stored
rests on `AppliedInv`: without `overlap` there is at most one publisher, its settings
are the manager's, and each setting is either applied already or one it has still to
apply.

**The router.** `RouterInv` adds three facts to the types and the two properties
that are proved with it. `ShownInv`: a revision that is still the router's stands
for the networks that were shown with it, in the snapshot and in every request. It
holds because a poll takes both from one answer, and it is what makes the revision
check mean anything. `AnswerInv`: a request that reads the list of clients, and met
no change since its readback, still has the router's configuration in hand. `MergeInv`:
while nobody else writes, the router holds what the controller read or what was asked
for. With that `FoundMeant` shows that what the readback finds by its name is the
network that was addressed; without it, it is one that bears the name.

**History.** `EventInv`: no event is twice in the list or both in the list and in
the table, and every recorded and not dropped one is in one of them. `StopInv`: no
handler runs once `server.Shutdown` returned without an error, and nobody runs when
the last flush has been written, so that the list it emptied stays empty.
`RowsAreComplete` compares a row with what the ring had, which the ring may have given
up since: `SamplesInv` says that a sample a row ever had is in the ring or is older
than everything in it. A flush that touches a minute therefore finds in the ring every
sample the row ever had, or the minute began before what it reads or before what the
ring has, which `cut` excuses.

**The link and the assist.** After an accepted clear every version not excused
is at least the cleared one, also those in flight. In the assist the holder of
`applyMu` is unique, and a request that may write has seen no plan under it or
went on blind.

**The speed test.** `OneTest` is about the requests that call the dish and the
goroutines that poll: `HandedOver` says that a request that still calls the dish has no
goroutine yet, so that its test changes hands and is never owned twice. For `ResultsOnce`,
`ResultInv` says that the dish's last test is unrecorded as long as somebody polls or
is about to record it, and that the history, the snapshot and the events follow each
other. `WaitInv`: after `Wait` has returned a goroutine can only be one that a late
handler started, which polls and is then cancelled.

### What is only model-checked

Every safety property of the runs is proved. `CloseTerminates`,
`EndpointsAreIndependent`, `StopReturns`, `UpdateReturns`, `LinkRecovers` and `TestEnds`
are liveness under fairness, out of this prover's reach: TLC checks them on the
instances of section 3.

## 5. What the models show beside their properties

The properties state what the code promises. Some of their exceptions are worth
knowing, and so are some things met while modelling that no property states:

* *Settings.* A PUT with a value that the next `Load` refuses is accepted: the
  daemon works with it until it is restarted and then does not start. An error
  after the rename is reported as a failure although the next start finds the new
  settings. Two updates published at once may leave the parts with the older one
  until the next update (`overlap`, `internal/config/manager.go:185`).
* *Location.* A poll in flight when the location is disabled stores it afterwards
  (`internal/dish/poller.go:222`), and it stays in the public snapshot until the next
  disabling or restart. `docs/superpowers/specs/2026-07-16-starwatch-daemon-api-completion-design.md:45`
  says "Disabling the option stops calls and removes location from the public snapshot".
  `LocationStops` says what is left of that: one location more at most.
* *Obstruction map.* A fetch that the dish answered before it was told to clear, and
  that is stored after `InvalidateObstructionMap` (`internal/dish/poller.go:402`), shows
  the old map until the next fetch (`behind`, `excused`).
* *Router.* A revision may be shown with the radios of an older poll, so a radio's
  width can be changed by a caller who was shown another one. An unblock of a client
  that a user's schedule may explain is always refused while it is blocked. A write
  that fails with `Unavailable` is reported as unsupported, though the router may
  have stored it. A change by another writer between the controller's read and its write
  is overwritten (`raced`), as `API.md:482` says. The readback of a network looks for the
  old or the new name (`internal/dish/router_control.go:447`): if the router ignores a
  rename and the app gives a network listed earlier the new name before the readback,
  the request is answered as accepted though the network it addressed is unchanged.
  `docs/superpowers/plans/2026-07-17-router-wifi-phase-6.md:68` says "Confirm target
  SSID/security/hidden/disabled by readback"; without another writer it does.
  `LastPingSuccess` advances with a status that was not renewed.
* *History.* A flush that begins in the middle of a minute (`cut`) replaces the row
  of that minute by its later part. If the clock is not set, the last flush does
  nothing and all that is pending is lost. A handler that outlives the three seconds
  of `server.Shutdown` may record an event after the last flush.
* *Assist.* When `uci show` fails the check goes on as if there were no
  configuration (`blind`), although `STARWATCH-SPEC.md:216` says an existing one is
  never touched. The primary is a device name while mwan3's sections have
  the names of interfaces. After a failing reload a retry is refused, since the
  committed plan counts as the user's configuration. The last switch is forgotten
  at the next refresh.
* *Speed test.* A dish that stays unavailable keeps a test running, and every later
  Start refused, for as long as it does. One poll that exceeds its two seconds ends
  the test as an error though the dish goes on with it. The event of a result may
  come after the one of a later test.
* *WAN.* After the WAN moves, one rate is the difference of two interfaces' counters,
  if the new one's is larger. The rate of an interface that vanished stays shown.
* *Timeline.* An outage that just closed is in neither place between the unlock and the
  save (`internal/outage/timeline.go:159`): a query that begins there may miss it, and
  `QueryComplete` does not ask for it.
* *Reboot.* `STARWATCH-SPEC.md:371` has the alert suppressed for five minutes after the
  command. A tick of the engine that began before the window reached it may still fire,
  for an outage that had lasted its hold before; a restart forgets the window.
* *Alerts.* A row that cannot be read or decoded at the start is logged and lost: alerts
  that were active fire again, or are never resolved.
  After a restart during an outage the restored alert resolves, because
  the timeline starts empty, and then fires again. With a hold of zero, which a PUT
  may set, it does not: the restored latch goes on for the outage that begins with the
  first failure after the restart, and keeps the start of the old one. An outage that opens in a reboot's
  window keeps its cause and is never alarmed, however long. An outage that the
  dish lists only when it is over never fires `outage_started`. A disabled rule saves
  its unchanged row at every tick.

## 6. What is left out

* *WAN monitor*: its three loops, of which only the discovery of the interface
  reaches another component that is modelled. An interface that comes back with its
  counters at zero, and two loops that discover at once, are its hazards.
* *Diagnostics, downsampling, the tiers of a query, probe windows*: functions
  of samples that change no state.
* *Contents*: messages, logging, JSON, HTML, SQL and UCI text, the statistics the
  router's poll shows, the fields of a dish status, the power fallback.
* *Web dashboard, packages, installers.*
* A corrupt database that is moved aside and made anew.
* The branch of the timeline for a nil `Persistence`: only tests pass one.
* A rule missing from the table: `alertRules` starts from `DefaultRules`.
* In `Evaluation`, changes of the rules during the run (`AlertEngine` has them) and
  the poller moving while the engine evaluates: of all that can change meanwhile a rule
  reads only the suppression window, and that is a step of its own. The rest are
  inputs taken when the tick began.
* The 10,000 entries that the pending outages and their table are bounded by
  (`internal/history/sqlite.go:211`, `:356`): in `OutageTimeline` neither is ever full.
  `History` has these bounds for events.
* In `Delivery`, a request that cannot be built from its URL. In `Publication`, the
  stop of the poller's loop.
* The flag that disables a network, which is written and read back as `hidden` is.
* The URL of an endpoint: a queued job keeps the URL it was queued with, so what it
  is sent to after `SetEndpoints` is not modelled, only whether an endpoint was
  configured when the fan-out read it.
* A full queue gives up an entry even though its receiver may have made room
  meanwhile: the model allows it as the code does, and states only that the newest
  is never the one lost.
* Status frames of the websocket: they change nothing in the bus.
* Controls that forward one RPC: stow, GPS, software update.
* In `History`, a second series and the speed tests, which are treated as the first
  and as the events are; which of a full table's rows are the oldest. The event
  `daemon_stopped`, recorded just before the last flush, is not a step of its own.
* In `Failover`, a user who resets mwan3 while a plan is being applied.
* In `SpeedTest`, a Start that begins after the daemon was told to stop: the server
  accepts no connection by then. Every result has a time of its own.

## 7. What could follow

The seam of the tiers and the diagnostics against reference definitions; the rates and
the loops of the WAN monitor; a history whose rows are sums and counts instead of sets
of samples; rule changes during the run of `Evaluation`.

----------------------------- MODULE AlertEngine -----------------------------
(***************************************************************************)
(* The alert engine (internal/alert/engine.go) with its state row in       *)
(* SQLite and the restarts of the daemon.                                  *)
(*                                                                         *)
(* A tick evaluates the failover event and then every rule of the          *)
(* catalogue in order, against the inputs and the rule table it took when  *)
(* it began.  A rule first changes its state and hands its notification to *)
(* delivery, and only then saves the whole state: the daemon can stop, or  *)
(* the save fail, between the two.  Meanwhile the API replaces the rule    *)
(* table or opens the window that follows a requested reboot, also between *)
(* a rule's reading of the window and its firing.                          *)
(***************************************************************************)
EXTENDS Integers, Sequences, FiniteSets

CONSTANTS
  Alerts,        \* names of the alerts that fire and clear
  Catalog,       \* catalogOrder without failover_event
  RuleTables,    \* rule tables the configuration can hold
  Signals,       \* what the dish flags and the WAN windows can say
  Averages,      \* levels of the obstruction average once it has samples
  OutageSets,    \* the ongoing outages of a clock value
  MwanSets,      \* what mwan3 can report as active and online
  CacheFor,      \* an obstruction average is reused this long
  RebootWindow,  \* dish_unreachable is suppressed this long after a reboot
  MaxTime,       \* bound of the clock
  MaxRestarts    \* bound on the restarts of the daemon

NoMwan == "no mwan3"
NoTime == -1
Unread == -2
Time   == Nat
Moment == Time \cup {NoTime}
Levels == {"unknown", "clear", "raised"}
Rule   == [enabled : BOOLEAN, hold : Nat, clearHold : Nat]
RuleTable == [Alerts \cup {"failover_event"} -> Rule]
Outage(T) == [source : STRING, cause : STRING, start : T]
OutageAlerts == {"outage_started", "dish_unreachable"}

ASSUME EngineAssumption ==
  /\ Catalog \in Seq(Alerts)
  /\ RuleTables \subseteq RuleTable
  /\ RuleTables # {}
  /\ "failover_event" \notin Alerts
  /\ Signals \subseteq [Alerts -> Levels]
  /\ \A t \in 0 .. MaxTime : OutageSets[t] \subseteq SUBSET Outage(0 .. t)
  /\ Averages \subseteq Levels
  /\ NoMwan \notin MwanSets
  /\ CacheFor \in Nat /\ RebootWindow \in Nat
  /\ MaxTime \in Nat /\ MaxRestarts \in Nat

VARIABLES
  now,            \* the clock
  average,        \* level of the 24 h obstruction average (external history)
  rules,          \* Engine.rules
  suppressUntil,  \* Engine.suppressUntil
  states,         \* Engine.states
  failover,       \* Engine.failoverReady, Engine.failoverSet
  obstruction,    \* Engine.obstruction, the cached average
  tick,           \* the tick in progress: next rule, inputs and rule table
  ticked,         \* a tick has begun at this clock value
  dirty,          \* persistState is called and has not run
  saved,          \* the alert_state row
  restarts,       \* restarts so far
  last,           \* history: last notification of each alert and its repeats
  told,           \* history: mwan3 set last announced or taken as baseline
  saveFailed,     \* history: a save failed or the row could not be read
  torn,           \* history: alerts whose change a restart lost
  raisedAt,       \* history: when each alert's condition was last seen raised
  highAt          \* history: when the obstruction average was last high

engineVars  == <<rules, suppressUntil, states, failover, obstruction>>
historyVars == <<last, told, saveFailed, torn, raisedAt, highAt>>
vars == <<now, average, engineVars, tick, ticked, dirty, saved, restarts, historyVars>>

-----------------------------------------------------------------------------
Idle == [active |-> FALSE, subjectStart |-> NoTime, clearSince |-> NoTime]
Firing == [active : {TRUE}, subjectStart : Time, clearSince : Moment]
AlertState == {Idle} \cup Firing
FailoverState == [ready : BOOLEAN, set : MwanSets \cup {NoMwan}]
NoTick == [next |-> -1]
Ticking == tick # NoTick
TickInProgress ==
  [next : 0 .. Len(Catalog) + 1, rules : RuleTable, outages : SUBSET Outage(Time),
   signal : [Alerts -> Levels], mwan : MwanSets \cup {NoMwan},
   until : Moment \cup {Unread}]
NotReady == [ready |-> FALSE, set |-> NoMwan]

(* persistState writes the active states and the failover baseline. *)
Persisted == [states   |-> [n \in Alerts |-> IF states[n].active THEN states[n] ELSE Idle],
              failover |-> failover]
NothingSaved == [states |-> [n \in Alerts |-> Idle], failover |-> NotReady]

Init ==
  /\ now = 0 /\ average = "unknown"
  /\ rules \in RuleTables
  /\ suppressUntil = NoTime
  /\ states = [n \in Alerts |-> Idle]
  /\ failover = NotReady
  /\ obstruction = [at |-> NoTime, level |-> "unknown"]
  /\ tick = NoTick /\ ticked = FALSE /\ dirty = FALSE
  /\ saved = NothingSaved
  /\ restarts = 0
  /\ last = [n \in Alerts |-> [state |-> "none", run |-> 0]]
  /\ told = NoMwan
  /\ saveFailed = FALSE /\ torn = {}
  /\ raisedAt = [n \in Alerts |-> NoTime]
  /\ highAt = NoTime

-----------------------------------------------------------------------------
(* Around the engine. *)
ClockTick ==
  /\ ~Ticking
  /\ now < MaxTime
  /\ now' = now + 1
  /\ ticked' = FALSE
  /\ highAt' = IF average = "raised" THEN now + 1 ELSE highAt
  /\ UNCHANGED <<average, engineVars, tick, dirty, saved, restarts, last, told,
                 saveFailed, torn, raisedAt>>

AverageMoves(level) ==
  /\ ~Ticking
  /\ "obstruction_high" \in Alerts
  /\ average' = level
  /\ highAt' = IF level = "raised" THEN now ELSE highAt
  /\ UNCHANGED <<now, engineVars, tick, ticked, dirty, saved, restarts, last, told,
                 saveFailed, torn, raisedAt>>

SetRules(table) ==
  /\ rules' = table
  /\ UNCHANGED <<now, average, suppressUntil, states, failover, obstruction,
                 tick, ticked, dirty, saved, restarts, historyVars>>

SetDishUnreachableSuppressUntil(until) ==
  /\ suppressUntil' = until
  /\ UNCHANGED <<now, average, rules, states, failover, obstruction, tick,
                 ticked, dirty, saved, restarts, historyVars>>

-----------------------------------------------------------------------------
(* The tick. *)
BeginTick(outages, signal, mwan) ==
  /\ ~Ticking /\ ~ticked
  /\ ticked' = TRUE
  /\ tick' = [next |-> 0, rules |-> rules, outages |-> outages,
              signal |-> signal, mwan |-> mwan, until |-> Unread]
  /\ UNCHANGED <<now, average, engineVars, dirty, saved, restarts, historyVars>>

Ready(step) == Ticking /\ tick.next = step /\ ~dirty
Proceed == tick' = [tick EXCEPT !.next = @ + 1]

(* emit: the notification reaches delivery, the event log and the live     *)
(* feed; `last' counts how often the same state was announced in a row.    *)
Emit(name, state) ==
  last' = [last EXCEPT ![name] =
             [state |-> state, run |-> IF @.state = state THEN @.run + 1 ELSE 1]]

FailoverOffFollowing ==
  /\ ~tick.rules["failover_event"].enabled \/ tick.mwan = NoMwan
  /\ failover' = IF tick.mwan = NoMwan THEN failover ELSE [ready |-> TRUE, set |-> tick.mwan]
  /\ UNCHANGED <<told, dirty>>

FailoverOff ==
  /\ ~tick.rules["failover_event"].enabled \/ tick.mwan = NoMwan
  /\ UNCHANGED <<failover, told, dirty>>

FailoverBaseline ==
  /\ tick.rules["failover_event"].enabled /\ tick.mwan # NoMwan
  /\ ~failover.ready
  /\ failover' = [ready |-> TRUE, set |-> tick.mwan]
  /\ told' = tick.mwan
  /\ dirty' = TRUE

FailoverSame ==
  /\ tick.rules["failover_event"].enabled /\ tick.mwan # NoMwan
  /\ failover.ready /\ failover.set = tick.mwan
  /\ UNCHANGED <<failover, told, dirty>>

FailoverFires ==
  /\ tick.rules["failover_event"].enabled /\ tick.mwan # NoMwan
  /\ failover.ready /\ failover.set # tick.mwan
  /\ failover' = [failover EXCEPT !.set = tick.mwan]
  /\ told' = tick.mwan
  /\ dirty' = TRUE

EvaluateFailover ==
  /\ Ready(0)
  /\ Proceed
  /\ FailoverOff \/ FailoverBaseline \/ FailoverSame \/ FailoverFires
  /\ UNCHANGED <<now, average, rules, suppressUntil, states, obstruction, ticked, saved,
                 restarts, last, saveFailed, torn, raisedAt, highAt>>

(* The outages that have lasted the hold of an outage alert. *)
Overdue(name, rule) ==
  {e \in tick.outages :
     /\ e.cause # "expected_reboot"
     /\ name = "dish_unreachable" => e.source = "dish_unreachable"
     /\ now - e.start >= rule.hold}

(* dishUnreachableSuppressUntil: an outage that would raise the alert makes *)
(* it read the window, under a lock it gives back before the alert fires.   *)
AsksWindow(name, rule) ==
  name = "dish_unreachable" /\ rule.enabled /\ Overdue(name, rule) # {}

ReadSuppression ==
  /\ Ticking /\ ~dirty
  /\ tick.next \in 1 .. Len(Catalog)
  /\ AsksWindow(Catalog[tick.next], tick.rules[Catalog[tick.next]])
  /\ tick.until = Unread
  /\ tick' = [tick EXCEPT !.until = suppressUntil]
  /\ UNCHANGED <<now, average, engineVars, ticked, dirty, saved, restarts, historyVars>>

(* The outages that raise an outage alert. *)
Raising(name, rule) ==
  IF name = "dish_unreachable" /\ now < tick.until THEN {} ELSE Overdue(name, rule)

CacheNeverExpires == obstruction.at # NoTime
CacheHit ==
  /\ obstruction.at # NoTime
  /\ now - obstruction.at < CacheFor

(* obstructionAverage: the cached level, or a fresh query of the history. *)
ObstructionLevel == IF CacheHit THEN obstruction.level ELSE average

Level(name, rule) ==
  CASE name \in OutageAlerts -> IF Raising(name, rule) # {} THEN "raised" ELSE "clear"
    [] name = "obstruction_high" -> ObstructionLevel
    [] OTHER -> tick.signal[name]

(* Active sorts by start: the earliest outage that raises the alert. *)
Started(name, rule) ==
  IF name \in OutageAlerts
  THEN {e.start : e \in {x \in Raising(name, rule) :
          \A f \in Raising(name, rule) : x.start <= f.start}}
  ELSE {now}

RefreshObstruction(name) ==
  obstruction' = IF name = "obstruction_high" /\ ~CacheHit /\ average # "unknown"
                 THEN [at |-> now, level |-> average] ELSE obstruction

Keep(name) == UNCHANGED <<states, last, dirty>>

Disabled(name, rule) ==
  /\ ~rule.enabled
  /\ states' = [states EXCEPT ![name] = Idle]
  /\ IF states[name].active THEN Emit(name, "resolved") ELSE UNCHANGED last
  /\ dirty' = TRUE

Unknown(name, rule) ==
  /\ rule.enabled /\ Level(name, rule) = "unknown"
  /\ Keep(name)

StillRaisedUnsaved(name, rule) ==
  /\ rule.enabled /\ Level(name, rule) = "raised" /\ states[name].active
  /\ states' = [states EXCEPT ![name].clearSince = NoTime]
  /\ UNCHANGED <<last, dirty>>

StillRaisedStillClearing(name, rule) ==
  /\ rule.enabled /\ Level(name, rule) = "raised" /\ states[name].active
  /\ Keep(name)

StillRaised(name, rule) ==
  /\ rule.enabled /\ Level(name, rule) = "raised" /\ states[name].active
  /\ states' = [states EXCEPT ![name].clearSince = NoTime]
  /\ dirty' = (states[name].clearSince # NoTime)
  /\ UNCHANGED last

FiresAnyway(name, rule) ==
  /\ rule.enabled /\ Level(name, rule) = "raised"
  /\ \E started \in Started(name, rule) : states' = [states EXCEPT ![name] =
       [active |-> TRUE, subjectStart |-> started, clearSince |-> NoTime]]
  /\ Emit(name, "firing")
  /\ dirty' = TRUE

Fires(name, rule) ==
  /\ rule.enabled /\ Level(name, rule) = "raised" /\ ~states[name].active
  /\ \E started \in Started(name, rule) : states' = [states EXCEPT ![name] =
       [active |-> TRUE, subjectStart |-> started, clearSince |-> NoTime]]
  /\ Emit(name, "firing")
  /\ dirty' = TRUE

StaysQuiet(name, rule) ==
  /\ rule.enabled /\ Level(name, rule) = "clear" /\ ~states[name].active
  /\ Keep(name)

StartsClearing(name, rule) ==
  /\ rule.enabled /\ Level(name, rule) = "clear" /\ states[name].active
  /\ rule.clearHold > 0 /\ states[name].clearSince = NoTime
  /\ states' = [states EXCEPT ![name].clearSince = now]
  /\ dirty' = TRUE
  /\ UNCHANGED last

ClearHeld(name, rule) ==
  \/ rule.clearHold = 0
  \/ /\ states[name].clearSince # NoTime
     /\ now - states[name].clearSince >= rule.clearHold

KeepsClearing(name, rule) ==
  /\ rule.enabled /\ Level(name, rule) = "clear" /\ states[name].active
  /\ states[name].clearSince # NoTime /\ ~ClearHeld(name, rule)
  /\ Keep(name)

Resolves(name, rule) ==
  /\ rule.enabled /\ Level(name, rule) = "clear" /\ states[name].active
  /\ ClearHeld(name, rule)
  /\ Emit(name, "resolved")
  /\ states' = [states EXCEPT ![name] = Idle]
  /\ dirty' = TRUE

EvaluateRule ==
  /\ Ticking /\ ~dirty
  /\ tick.next \in 1 .. Len(Catalog)
  /\ Proceed
  /\ LET name == Catalog[tick.next]
         rule == tick.rules[name]
     IN /\ AsksWindow(name, rule) => tick.until # Unread
        /\ \/ Disabled(name, rule)
           \/ Unknown(name, rule)
           \/ StillRaised(name, rule)
           \/ Fires(name, rule)
           \/ StaysQuiet(name, rule)
           \/ StartsClearing(name, rule)
           \/ KeepsClearing(name, rule)
           \/ Resolves(name, rule)
        /\ IF rule.enabled THEN RefreshObstruction(name) ELSE UNCHANGED obstruction
        /\ raisedAt' = [raisedAt EXCEPT ![name] =
             IF rule.enabled /\ Level(name, rule) = "raised" THEN now ELSE @]
  /\ UNCHANGED <<now, average, rules, suppressUntil, failover, ticked, saved, restarts,
                 told, saveFailed, torn, highAt>>

(* A rule's turn: the window is read, if the rule asks for it, before it is *)
(* evaluated.                                                              *)
AwaitsWindow ==
  /\ Ticking /\ tick.next \in 1 .. Len(Catalog) /\ tick.until = Unread
  /\ AsksWindow(Catalog[tick.next], tick.rules[Catalog[tick.next]])
RuleTurn == IF AwaitsWindow THEN ReadSuppression ELSE EvaluateRule

EndTick ==
  /\ Ready(Len(Catalog) + 1)
  /\ tick' = NoTick
  /\ UNCHANGED <<now, average, engineVars, ticked, dirty, saved, restarts, historyVars>>

(* persistState: the row is replaced, or the save fails and is only logged. *)
PersistState ==
  /\ dirty
  /\ dirty' = FALSE
  /\ saved' = Persisted
  /\ saveFailed' = FALSE
  /\ UNCHANGED <<now, average, engineVars, tick, ticked, restarts, last, told, torn,
                 raisedAt, highAt>>

PersistFails ==
  /\ dirty
  /\ dirty' = FALSE
  /\ saveFailed' = TRUE
  /\ UNCHANGED <<now, average, engineVars, tick, ticked, saved, restarts, last, told,
                 torn, raisedAt, highAt>>

-----------------------------------------------------------------------------
(* The daemon stops, at any point, and starts again from the row, or from   *)
(* nothing if the row cannot be read or decoded.  The alerts whose latch    *)
(* what it starts from does not have as it was are torn.                    *)
RestoreStateAsNew ==
  /\ states' = [n \in Alerts |-> Idle]
  /\ failover' = saved.failover
  /\ saveFailed' = FALSE

RestoreState ==
  /\ states' = saved.states
  /\ failover' = saved.failover
  /\ saveFailed' = FALSE

RestoreFails ==
  /\ states' = [n \in Alerts |-> Idle]
  /\ failover' = NotReady
  /\ saveFailed' = TRUE

Lost(row) ==
  {n \in Alerts : Persisted.states[n] # row.states[n]} \cup
  (IF failover # row.failover THEN {"failover_event"} ELSE {})

Restart ==
  /\ restarts < MaxRestarts
  /\ restarts' = restarts + 1
  /\ \/ RestoreState /\ torn' = torn \cup Lost(saved)
     \/ RestoreFails /\ torn' = torn \cup Lost(NothingSaved)
  /\ rules' \in RuleTables
  /\ suppressUntil' = NoTime
  /\ obstruction' = [at |-> NoTime, level |-> "unknown"]
  /\ tick' = NoTick /\ ticked' = FALSE /\ dirty' = FALSE
  /\ UNCHANGED <<now, average, saved, last, told, raisedAt, highAt>>

Next ==
  \/ ClockTick
  \/ \E level \in Averages : AverageMoves(level)
  \/ \E table \in RuleTables : SetRules(table)
  \/ /\ now + RebootWindow <= MaxTime  \* bound: a window ends within the clock
     /\ SetDishUnreachableSuppressUntil(now + RebootWindow)
  \/ \E outages \in OutageSets[now], signal \in Signals,
        mwan \in MwanSets \cup {NoMwan} : BeginTick(outages, signal, mwan)
  \/ EvaluateFailover
  \/ RuleTurn
  \/ EndTick
  \/ PersistState
  \/ PersistFails
  \/ Restart

Spec == Init /\ [][Next]_vars

-----------------------------------------------------------------------------
(* Types; a state that is not active keeps nothing of its last firing. *)
TypeOK ==
  /\ now \in 0 .. MaxTime /\ average \in Levels
  /\ rules \in RuleTable
  /\ suppressUntil \in Moment
  /\ states \in [Alerts -> AlertState]
  /\ failover \in FailoverState
  /\ obstruction \in [at : Moment, level : Levels]
  /\ tick \in {NoTick} \cup TickInProgress
  /\ ticked \in BOOLEAN /\ dirty \in BOOLEAN /\ saveFailed \in BOOLEAN
  /\ saved \in [states : [Alerts -> AlertState], failover : FailoverState]
  /\ restarts \in Nat
  /\ last \in [Alerts -> [state : {"none", "firing", "resolved"}, run : Nat]]
  /\ told \in MwanSets \cup {NoMwan}
  /\ torn \subseteq Alerts \cup {"failover_event"}
  /\ raisedAt \in [Alerts -> Moment] /\ highAt \in Moment

(* The row is the state: unless a save failed, whatever a rule changed is   *)
(* saved before the next rule runs, the start of a clearing period and its  *)
(* abandonment included.                                                    *)
StateIsSaved == ~dirty /\ ~saveFailed => saved = Persisted

(* An alert is announced firing and resolved in turn, never the same state  *)
(* twice, across restarts of the daemon, unless a restart lost its change  *)
(* or could not read the row.                                               *)
NotifiedOnce == \A n \in Alerts \ torn : last[n].run <= 1

(* What the engine holds active is what its listeners last heard firing, so *)
(* a restart neither forgets a later resolve nor resolves what never fired. *)
LatchIsAnnounced ==
  \A n \in Alerts \ torn : states[n].active <=> last[n].state = "firing"

(* While it runs, an enabled rule resolves only when its condition has not  *)
(* been seen raised for the whole clear hold, restarts included.            *)
ResolvesHeld ==
  \A n \in Alerts \ torn :
    (/\ states[n].active /\ ~states'[n].active
     /\ restarts' = restarts
     /\ tick.rules[n].enabled)
    => now - raisedAt[n] >= tick.rules[n].clearHold
ClearIsHeld == [][ResolvesHeld]_vars

(* Every change of the mwan3 set is announced once: the baseline is the set *)
(* last announced, also after the rule was off and after a restart.         *)
BaselineIsTold ==
  (failover.ready /\ "failover_event" \notin torn) => failover.set = told

(* obstruction_high never fires for an average that was not above the       *)
(* threshold within the last CacheFor.                                      *)
FiresRecent ==
  (/\ "obstruction_high" \in Alerts
   /\ ~states["obstruction_high"].active
   /\ states'["obstruction_high"].active
   /\ restarts' = restarts)
  => highAt # NoTime /\ now - highAt <= CacheFor
ObstructionIsRecent == [][FiresRecent]_vars
=============================================================================

------------------------- MODULE AlertEngine_proofs -------------------------
(***************************************************************************)
(* Proofs about AlertEngine, for any catalogue, rule tables, holds and     *)
(* inputs: its types, the faithfulness of the saved row and the agreement  *)
(* of the latches with what was announced, restarts included.              *)
(***************************************************************************)
EXTENDS AlertEngine, TLAPS

-----------------------------------------------------------------------------
(* The states an alert can be in. *)
LEMMA AlertStates ==
  ASSUME NEW s \in AlertState
  PROVE  /\ s.active \in BOOLEAN
         /\ s.clearSince \in Moment
         /\ ~s.active => s = Idle
         /\ s.active => s \in Firing
<1>1. CASE s = Idle
  <2>1. s.active = FALSE /\ s.clearSince = NoTime
    BY <1>1 DEF Idle
  <2>2. QED
    BY <1>1, <2>1 DEF Moment
<1>2. CASE s \in Firing
  <2>1. s.active = TRUE /\ s.clearSince \in Moment
    BY <1>2 DEF Firing
  <2>2. QED
    BY <1>2, <2>1
<1>3. QED
  BY <1>1, <1>2 DEF AlertState

(* A firing alert stays one whatever becomes of its clearing period. *)
LEMMA ClearSince ==
  ASSUME NEW s \in Firing, NEW t \in Moment
  PROVE  /\ [s EXCEPT !.clearSince = t] \in AlertState
         /\ [s EXCEPT !.clearSince = t].active
         /\ [s EXCEPT !.clearSince = t].clearSince = t
         /\ t = s.clearSince => [s EXCEPT !.clearSince = t] = s
BY DEF AlertState, Firing

Announced == [state : {"none", "firing", "resolved"}, run : Nat]

(* emit touches one alert and counts repeats. *)
LEMMA EmitHistory ==
  ASSUME last \in [Alerts -> Announced], NEW name \in Alerts,
         NEW state \in {"firing", "resolved"}, Emit(name, state)
  PROVE  /\ last' \in [Alerts -> Announced]
         /\ last'[name].state = state
         /\ last[name].state # state => last'[name].run = 1
         /\ \A m \in Alerts \ {name} : last'[m] = last[m]
<1> DEFINE one == [state |-> state,
                   run |-> IF last[name].state = state THEN last[name].run + 1 ELSE 1]
<1>1. last' = [last EXCEPT ![name] = one]
  BY DEF Emit
<1>2. last[name].run \in Nat
  BY DEF Announced
<1>3. one \in Announced /\ one.state = state
  BY <1>2 DEF Announced
<1>4. last[name].state # state => one.run = 1
  OBVIOUS
<1> HIDE DEF one
<1>5. QED
  BY <1>1, <1>3, <1>4

(* The rule that runs next. *)
LEMMA RuleInTable ==
  ASSUME TypeOK, Ticking, tick.next \in 1 .. Len(Catalog)
  PROVE  /\ tick \in TickInProgress
         /\ Catalog[tick.next] \in Alerts
         /\ tick.rules[Catalog[tick.next]] \in Rule
<1>1. tick \in TickInProgress
  BY DEF TypeOK, Ticking
<1>2. Catalog[tick.next] \in Alerts
  BY EngineAssumption DEF EngineAssumption
<1>3. tick.rules \in RuleTable
  BY <1>1 DEF TickInProgress
<1>4. QED
  BY <1>1, <1>2, <1>3 DEF RuleTable

(* The tick goes on to the next rule with the inputs it took. *)
LEMMA ProceedTypes ==
  ASSUME tick \in TickInProgress, tick.next \in 0 .. Len(Catalog), Proceed
  PROVE  tick' \in TickInProgress
<1>1. Len(Catalog) \in Nat
  BY EngineAssumption DEF EngineAssumption
<1>2. tick.next + 1 \in 0 .. Len(Catalog) + 1
  BY <1>1
<1>3. tick' = [tick EXCEPT !.next = tick.next + 1]
  BY DEF Proceed
<1>4. QED
  BY <1>2, <1>3 DEF TickInProgress

(* The ways a rule ends its turn. *)
RuleRuns(name, rule) ==
  \/ Disabled(name, rule)
  \/ Unknown(name, rule)
  \/ StillRaised(name, rule)
  \/ Fires(name, rule)
  \/ StaysQuiet(name, rule)
  \/ StartsClearing(name, rule)
  \/ KeepsClearing(name, rule)
  \/ Resolves(name, rule)

(* What a turn does to the state of its alert and to what was announced of  *)
(* it, told in the four ways that matter to the invariants.                 *)
Effect(name) ==
  \/ /\ states' = states /\ last' = last /\ dirty' \in BOOLEAN
  \/ /\ states[name].active
     /\ \E t \in Moment : states' = [states EXCEPT ![name] = [@ EXCEPT !.clearSince = t]]
     /\ last' = last
     /\ dirty' = TRUE
  \/ /\ ~states[name].active
     /\ \E t \in Time : states' = [states EXCEPT ![name] =
           [active |-> TRUE, subjectStart |-> t, clearSince |-> NoTime]]
     /\ Emit(name, "firing")
     /\ dirty' = TRUE
  \/ /\ states[name].active
     /\ states' = [states EXCEPT ![name] = Idle]
     /\ Emit(name, "resolved")
     /\ dirty' = TRUE

LEMMA RuleEffect ==
  ASSUME TypeOK, NEW name \in Alerts, NEW rule \in Rule, tick \in TickInProgress,
         RuleRuns(name, rule)
  PROVE  Effect(name)
<1>1. now \in Time
  BY EngineAssumption DEF EngineAssumption, TypeOK, Time
<1>2. /\ states \in [Alerts -> AlertState]
      /\ states[name] \in AlertState
      /\ dirty \in BOOLEAN
  BY DEF TypeOK
<1>3. NoTime \in Moment /\ now \in Moment
  BY <1>1 DEF Moment
<1>11. /\ states[name].active \in BOOLEAN
       /\ ~states[name].active => states[name] = Idle
       /\ states[name].active => states[name] \in Firing
  BY <1>2, AlertStates
<1>4. CASE Disabled(name, rule)
  <2>1. CASE states[name].active
    BY <1>4, <2>1 DEF Disabled, Effect
  <2>2. CASE ~states[name].active
    <3>1. states[name] = Idle
      BY <2>2, <1>11
    <3>2. states' = states
      BY <1>2, <1>4, <3>1 DEF Disabled
    <3>3. QED
      BY <1>4, <2>2, <3>2 DEF Disabled, Effect
  <2>3. QED
    BY <2>1, <2>2
<1>5. CASE Unknown(name, rule) \/ StaysQuiet(name, rule) \/ KeepsClearing(name, rule)
  BY <1>2, <1>5 DEF Unknown, StaysQuiet, KeepsClearing, Keep, Effect
<1>6. CASE StillRaised(name, rule)
  <2>1. states' = [states EXCEPT ![name] = [states[name] EXCEPT !.clearSince = NoTime]]
    BY <1>6 DEF StillRaised
  <2>2. CASE states[name].clearSince = NoTime
    <3>1. [states[name] EXCEPT !.clearSince = NoTime] = states[name]
      BY <1>3, <1>6, <1>11, <2>2, ClearSince DEF StillRaised
    <3>2. states' = states
      BY <1>2, <2>1, <3>1
    <3>3. QED
      BY <1>6, <3>2 DEF StillRaised, Effect
  <2>3. CASE states[name].clearSince # NoTime
    BY <1>3, <1>6, <2>1, <2>3 DEF StillRaised, Effect
  <2>4. QED
    BY <2>2, <2>3
<1>7. CASE Fires(name, rule)
  <2>1. PICK started \in Started(name, rule) : states' = [states EXCEPT ![name] =
          [active |-> TRUE, subjectStart |-> started, clearSince |-> NoTime]]
    BY <1>7 DEF Fires
  <2>2. started \in Time
    BY <1>1 DEF Started, Raising, Overdue, TickInProgress, Outage
  <2>3. QED
    BY <1>7, <2>1, <2>2 DEF Fires, Effect
<1>8. CASE StartsClearing(name, rule)
  <2>1. states' = [states EXCEPT ![name] = [states[name] EXCEPT !.clearSince = now]]
    BY <1>8 DEF StartsClearing
  <2>2. QED
    BY <1>3, <1>8, <2>1 DEF StartsClearing, Effect
<1>9. CASE Resolves(name, rule)
  BY <1>9 DEF Resolves, Effect
<1>10. QED
  BY <1>4, <1>5, <1>6, <1>7, <1>8, <1>9 DEF RuleRuns

(* One rule's turn, seen from the engine. *)
LEMMA RuleStep ==
  ASSUME TypeOK, EvaluateRule
  PROVE  \E name \in Alerts : Effect(name)
<1> DEFINE name == Catalog[tick.next]
           rule == tick.rules[name]
<1>1. tick \in TickInProgress /\ name \in Alerts /\ rule \in Rule
  BY RuleInTable DEF EvaluateRule
<1>2. RuleRuns(name, rule)
  BY DEF EvaluateRule, RuleRuns
<1>3. Effect(name)
  BY <1>1, <1>2, RuleEffect
<1>4. QED
  BY <1>1, <1>3

LEMMA EffectTypes ==
  ASSUME TypeOK, NEW name \in Alerts, Effect(name)
  PROVE  /\ states' \in [Alerts -> AlertState]
         /\ last' \in [Alerts -> Announced]
         /\ dirty' \in BOOLEAN
<1>1. /\ states \in [Alerts -> AlertState] /\ last \in [Alerts -> Announced]
      /\ states[name] \in AlertState
  BY DEF TypeOK, Announced
<1>2. CASE states' = states /\ last' = last /\ dirty' \in BOOLEAN
  BY <1>1, <1>2
<1>3. ASSUME states[name].active, last' = last, dirty' = TRUE,
             NEW t \in Moment,
             states' = [states EXCEPT ![name] = [@ EXCEPT !.clearSince = t]]
      PROVE  states' \in [Alerts -> AlertState] /\ last' \in [Alerts -> Announced]
  <2>1. states[name] \in Firing
    BY <1>1, <1>3, AlertStates
  <2>2. [states[name] EXCEPT !.clearSince = t] \in AlertState
    BY <2>1, ClearSince
  <2>3. QED
    BY <1>1, <1>3, <2>2
<1>4. ASSUME NEW t \in Time, Emit(name, "firing"), dirty' = TRUE,
             states' = [states EXCEPT ![name] =
               [active |-> TRUE, subjectStart |-> t, clearSince |-> NoTime]]
      PROVE  states' \in [Alerts -> AlertState] /\ last' \in [Alerts -> Announced]
  <2>1. [active |-> TRUE, subjectStart |-> t, clearSince |-> NoTime] \in AlertState
    BY <1>4 DEF AlertState, Firing, Moment
  <2>2. QED
    BY <1>1, <1>4, <2>1, EmitHistory
<1>5. CASE /\ states' = [states EXCEPT ![name] = Idle]
           /\ Emit(name, "resolved") /\ dirty' = TRUE
  BY <1>1, <1>5, EmitHistory DEF AlertState
<1>6. QED
  BY <1>2, <1>3, <1>4, <1>5 DEF Effect

-----------------------------------------------------------------------------
FailoverTypes ==
  /\ failover' \in FailoverState /\ dirty' \in BOOLEAN
  /\ told' \in MwanSets \cup {NoMwan}

(* The types, for every instance: in particular a state that is not active  *)
(* is Idle, in the engine and in the row it restarts from.                  *)
THEOREM TypeCorrect == Spec => []TypeOK
<1>1. Init => TypeOK
  <2> SUFFICES ASSUME Init PROVE TypeOK
    OBVIOUS
  <2>1. Idle \in AlertState /\ NotReady \in FailoverState
    BY DEF AlertState, NotReady, FailoverState
  <2>2. states \in [Alerts -> AlertState] /\ saved.states \in [Alerts -> AlertState]
    BY <2>1 DEF Init, NothingSaved
  <2>3. saved \in [states : [Alerts -> AlertState], failover : FailoverState]
    BY <2>1, <2>2 DEF Init, NothingSaved
  <2>4. last \in [Alerts -> Announced] /\ raisedAt \in [Alerts -> Moment]
    BY DEF Init, Announced, Moment
  <2>5. obstruction \in [at : Moment, level : Levels] /\ average \in Levels
    BY DEF Init, Moment, Levels
  <2>6. now \in 0 .. MaxTime /\ rules \in RuleTable
    BY EngineAssumption DEF Init, EngineAssumption
  <2>7. QED
    BY <2>1, <2>2, <2>3, <2>4, <2>5, <2>6 DEF Init, TypeOK, Moment, Announced
<1>2. TypeOK /\ [Next]_vars => TypeOK'
  <2> SUFFICES ASSUME TypeOK, [Next]_vars PROVE TypeOK'
    OBVIOUS
  <2>1. CASE ClockTick
    <3>1. now' \in 0 .. MaxTime
      BY <2>1, EngineAssumption DEF TypeOK, ClockTick, EngineAssumption
    <3>2. now + 1 \in Moment
      BY EngineAssumption DEF TypeOK, EngineAssumption, Moment, Time
    <3>3. highAt' \in Moment
      BY <2>1, <3>2 DEF TypeOK, ClockTick
    <3>4. QED
      BY <2>1, <3>1, <3>3 DEF TypeOK, ClockTick, engineVars
  <2>2. ASSUME NEW level \in Averages, AverageMoves(level) PROVE TypeOK'
    BY <2>2, EngineAssumption
    DEF TypeOK, AverageMoves, engineVars, EngineAssumption, Moment, Time
  <2>3. ASSUME NEW table \in RuleTables, SetRules(table) PROVE TypeOK'
    BY <2>3, EngineAssumption DEF TypeOK, SetRules, historyVars, EngineAssumption
  <2>4. CASE SetDishUnreachableSuppressUntil(now + RebootWindow)
    <3>1. now + RebootWindow \in Moment
      BY EngineAssumption DEF TypeOK, EngineAssumption, Moment, Time
    <3>2. QED
      BY <2>4, <3>1 DEF TypeOK, SetDishUnreachableSuppressUntil, historyVars
  <2>5. ASSUME NEW outages \in OutageSets[now], NEW signal \in Signals,
               NEW mwan \in MwanSets \cup {NoMwan}, BeginTick(outages, signal, mwan)
        PROVE  TypeOK'
    <3>1. outages \in SUBSET Outage(Time)
      BY EngineAssumption DEF TypeOK, EngineAssumption, Outage, Time
    <3>2. 0 \in 0 .. Len(Catalog) + 1
      BY EngineAssumption DEF EngineAssumption
    <3>3. Unread \in Moment \cup {Unread} /\ rules \in RuleTable
      BY DEF TypeOK
    <3>4. tick' = [next |-> 0, rules |-> rules, outages |-> outages,
                   signal |-> signal, mwan |-> mwan, until |-> Unread]
      BY <2>5 DEF BeginTick
    <3>5. tick' \in TickInProgress
      BY <3>1, <3>2, <3>3, <3>4, EngineAssumption DEF TickInProgress, EngineAssumption
    <3>6. QED
      BY <2>5, <3>5 DEF TypeOK, BeginTick, engineVars, historyVars
  <2>6. CASE EvaluateFailover
    <3>1. tick \in TickInProgress /\ tick.next = 0
      BY <2>6 DEF TypeOK, EvaluateFailover, Ready, Ticking
    <3>2. Len(Catalog) \in Nat
      BY EngineAssumption DEF EngineAssumption
    <3>3. tick' \in TickInProgress
      BY <2>6, <3>1, <3>2, ProceedTypes DEF EvaluateFailover
    <3>4. tick.mwan \in MwanSets \cup {NoMwan}
      BY <3>1 DEF TickInProgress
    <3>5. FailoverTypes
      <4>1. CASE FailoverOff \/ FailoverSame
        BY <4>1 DEF TypeOK, FailoverOff, FailoverSame, FailoverTypes
      <4>2. CASE FailoverBaseline
        BY <3>4, <4>2 DEF FailoverBaseline, FailoverState, FailoverTypes
      <4>3. CASE FailoverFires
        BY <3>4, <4>3 DEF TypeOK, FailoverFires, FailoverState, FailoverTypes
      <4>4. QED
        BY <2>6, <4>1, <4>2, <4>3 DEF EvaluateFailover
    <3>6. QED
      BY <2>6, <3>3, <3>5 DEF TypeOK, EvaluateFailover, FailoverTypes
  <2>7. CASE EvaluateRule
    <3>1. PICK name \in Alerts : Effect(name)
      BY <2>7, RuleStep
    <3>2. /\ states' \in [Alerts -> AlertState] /\ last' \in [Alerts -> Announced]
          /\ dirty' \in BOOLEAN
      BY <3>1, EffectTypes
    <3>3. tick' \in TickInProgress
      <4>1. tick \in TickInProgress /\ tick.next \in 1 .. Len(Catalog)
        BY <2>7 DEF TypeOK, EvaluateRule, Ticking
      <4>2. Len(Catalog) \in Nat
        BY EngineAssumption DEF EngineAssumption
      <4>3. QED
        BY <2>7, <4>1, <4>2, ProceedTypes DEF EvaluateRule
    <3>4. now \in Moment
      BY EngineAssumption DEF TypeOK, EngineAssumption, Moment, Time
    <3>5. obstruction' \in [at : Moment, level : Levels]
      BY <2>7, <3>4 DEF TypeOK, EvaluateRule, RefreshObstruction
    <3>6. raisedAt' \in [Alerts -> Moment]
      BY <2>7, <3>4 DEF TypeOK, EvaluateRule
    <3>7. QED
      BY <2>7, <3>2, <3>3, <3>5, <3>6 DEF TypeOK, EvaluateRule, Announced
  <2>8. CASE EndTick
    BY <2>8 DEF TypeOK, EndTick, engineVars, historyVars
  <2>9. CASE PersistState
    <3>1. Persisted.states \in [Alerts -> AlertState]
      BY DEF TypeOK, Persisted, AlertState
    <3>2. Persisted \in [states : [Alerts -> AlertState], failover : FailoverState]
      BY <3>1 DEF TypeOK, Persisted
    <3>3. QED
      BY <2>9, <3>2 DEF TypeOK, PersistState, engineVars
  <2>10. CASE PersistFails
    BY <2>10 DEF TypeOK, PersistFails, engineVars
  <2>11. CASE Restart
    <3>1. \A row : Lost(row) \subseteq Alerts \cup {"failover_event"}
      BY DEF Lost
    <3>2. /\ states' \in [Alerts -> AlertState] /\ failover' \in FailoverState
          /\ saveFailed' \in BOOLEAN
      <4>1. CASE RestoreState
        BY <4>1 DEF TypeOK, RestoreState
      <4>2. CASE RestoreFails
        BY <4>2 DEF RestoreFails, NotReady, AlertState, FailoverState
      <4>3. QED
        BY <2>11, <4>1, <4>2 DEF Restart
    <3>3. rules' \in RuleTable
      BY <2>11, EngineAssumption DEF Restart, EngineAssumption
    <3>4. obstruction' \in [at : Moment, level : Levels] /\ suppressUntil' \in Moment
      BY <2>11 DEF Restart, Moment, Levels
    <3>5. torn' \subseteq Alerts \cup {"failover_event"} /\ restarts' \in Nat
      BY <2>11, <3>1 DEF TypeOK, Restart
    <3>6. tick' = NoTick /\ ticked' = FALSE /\ dirty' = FALSE
      BY <2>11 DEF Restart
    <3>7. QED
      BY <2>11, <3>2, <3>3, <3>4, <3>5, <3>6 DEF TypeOK, Restart
  <2>12. CASE UNCHANGED vars
    BY <2>12 DEF TypeOK, vars, engineVars, historyVars
  <2>13. CASE ReadSuppression
    <3>1. tick \in TickInProgress /\ suppressUntil \in Moment \cup {Unread}
      BY <2>13 DEF TypeOK, ReadSuppression, Ticking
    <3>2. tick' \in TickInProgress
      BY <2>13, <3>1 DEF ReadSuppression, TickInProgress
    <3>3. QED
      BY <2>13, <3>2 DEF TypeOK, ReadSuppression, engineVars, historyVars
  <2>14. QED
    BY <2>1, <2>2, <2>3, <2>4, <2>5, <2>6, <2>7, <2>8, <2>9, <2>10, <2>11, <2>12, <2>13 DEF Next, RuleTurn
<1>3. QED
  BY <1>1, <1>2, PTL DEF Spec

-----------------------------------------------------------------------------
(* The saved row is the state of the engine unless a save is due or failed: *)
(* every rule that changes a latch or its clearing period asks for a save,  *)
(* and a restart resumes exactly the row.                                   *)
THEOREM RowIsFaithful == Spec => []StateIsSaved
<1>1. Init => StateIsSaved
  BY DEF Init, StateIsSaved, NothingSaved, Persisted, Idle
<1>2. TypeOK /\ StateIsSaved /\ [Next]_vars => StateIsSaved'
  <2> SUFFICES ASSUME TypeOK, StateIsSaved, [Next]_vars PROVE StateIsSaved'
    OBVIOUS
  <2>1. ASSUME UNCHANGED <<states, failover, saved, dirty, saveFailed>>
        PROVE  StateIsSaved'
    BY <2>1 DEF StateIsSaved, Persisted
  <2>2. ASSUME dirty' = TRUE PROVE StateIsSaved'
    BY <2>2 DEF StateIsSaved
  <2>3. CASE ClockTick
    BY <2>1, <2>3 DEF ClockTick, engineVars
  <2>4. ASSUME NEW level \in Averages, AverageMoves(level) PROVE StateIsSaved'
    BY <2>1, <2>4 DEF AverageMoves, engineVars
  <2>5. ASSUME NEW table \in RuleTables, SetRules(table) PROVE StateIsSaved'
    BY <2>1, <2>5 DEF SetRules, historyVars
  <2>6. CASE SetDishUnreachableSuppressUntil(now + RebootWindow)
    BY <2>1, <2>6 DEF SetDishUnreachableSuppressUntil, historyVars
  <2>7. ASSUME NEW outages \in OutageSets[now], NEW signal \in Signals,
               NEW mwan \in MwanSets \cup {NoMwan}, BeginTick(outages, signal, mwan)
        PROVE  StateIsSaved'
    BY <2>1, <2>7 DEF BeginTick, engineVars, historyVars
  <2>8. CASE EvaluateFailover
    <3>1. CASE FailoverOff \/ FailoverSame
      BY <2>1, <2>8, <3>1 DEF EvaluateFailover, FailoverOff, FailoverSame
    <3>2. CASE FailoverBaseline \/ FailoverFires
      BY <2>2, <3>2 DEF FailoverBaseline, FailoverFires
    <3>3. QED
      BY <2>8, <3>1, <3>2 DEF EvaluateFailover
  <2>9. CASE EvaluateRule
    <3>1. PICK name \in Alerts : Effect(name)
      BY <2>9, RuleStep
    <3>2. CASE dirty' = TRUE
      BY <2>2, <3>2
    <3>3. CASE states' = states /\ dirty' = FALSE
      BY <2>9, <3>3 DEF EvaluateRule, StateIsSaved, Persisted
    <3>4. QED
      BY <3>1, <3>2, <3>3 DEF Effect
  <2>10. CASE EndTick
    BY <2>1, <2>10 DEF EndTick, engineVars, historyVars
  <2>11. CASE PersistState
    BY <2>11 DEF PersistState, StateIsSaved, Persisted, engineVars
  <2>12. CASE PersistFails
    BY <2>12 DEF PersistFails, StateIsSaved
  <2>13. CASE Restart
    <3> SUFFICES ASSUME RestoreState PROVE StateIsSaved'
      BY <2>13 DEF Restart, RestoreFails, StateIsSaved
    <3>1. states' = saved.states /\ failover' = saved.failover /\ saved' = saved
      BY <2>13 DEF Restart, RestoreState
    <3>2. \A n \in Alerts : saved.states[n] \in AlertState
      BY DEF TypeOK
    <3>3. \A n \in Alerts :
            (IF saved.states[n].active THEN saved.states[n] ELSE Idle) = saved.states[n]
      <4>1. TAKE n \in Alerts
      <4>2. saved.states[n] \in AlertState
        BY <3>2
      <4>3. ~saved.states[n].active => saved.states[n] = Idle
        BY <4>2, AlertStates
      <4>4. QED
        BY <4>3
    <3>4. [n \in Alerts |-> IF saved.states[n].active THEN saved.states[n] ELSE Idle]
          = saved.states
      BY <3>3 DEF TypeOK
    <3>5. Persisted' = [states |-> saved.states, failover |-> saved.failover]
      BY <3>1, <3>4 DEF Persisted
    <3>6. [states |-> saved.states, failover |-> saved.failover] = saved
      BY DEF TypeOK
    <3>7. QED
      BY <3>1, <3>5, <3>6 DEF StateIsSaved
  <2>14. CASE UNCHANGED vars
    BY <2>1, <2>14 DEF vars, engineVars, historyVars
  <2>15. CASE ReadSuppression
    BY <2>1, <2>15 DEF ReadSuppression, engineVars, historyVars
  <2>16. QED
    BY <2>3, <2>4, <2>5, <2>6, <2>7, <2>8, <2>9, <2>10, <2>11, <2>12, <2>13, <2>14, <2>15 DEF Next, RuleTurn
<1>3. QED
  BY <1>1, <1>2, TypeCorrect, PTL DEF Spec

-----------------------------------------------------------------------------
(* The inductive form of NotifiedOnce and LatchIsAnnounced, alert by alert. *)
InStep(n) == /\ states[n].active <=> last[n].state = "firing"
             /\ last[n].run <= 1
LatchInv == \A n \in Alerts \ torn : InStep(n)

(* A rule's turn keeps every alert's latch in step with what was announced. *)
LEMMA EffectKeepsStep ==
  ASSUME TypeOK, NEW name \in Alerts, Effect(name), NEW n \in Alerts, InStep(n)
  PROVE  InStep(n)'
<1>1. /\ states \in [Alerts -> AlertState] /\ last \in [Alerts -> Announced]
      /\ states[name] \in AlertState
  BY DEF TypeOK, Announced
<1>2. CASE states' = states /\ last' = last
  BY <1>2 DEF InStep
<1>3. ASSUME states[name].active, last' = last, NEW t \in Moment,
             states' = [states EXCEPT ![name] = [@ EXCEPT !.clearSince = t]]
      PROVE  InStep(n)'
  <2>1. states[name] \in Firing
    BY <1>1, <1>3, AlertStates
  <2>2. [states[name] EXCEPT !.clearSince = t].active
    BY <2>1, ClearSince
  <2>3. states'[name].active
    BY <1>1, <1>3, <2>2
  <2>4. n # name => states'[n] = states[n]
    BY <1>1, <1>3
  <2>5. QED
    BY <1>3, <2>3, <2>4 DEF InStep
<1>4. ASSUME ~states[name].active, NEW t \in Time, Emit(name, "firing"),
             states' = [states EXCEPT ![name] =
               [active |-> TRUE, subjectStart |-> t, clearSince |-> NoTime]]
      PROVE  InStep(n)'
  <2>1. /\ last'[name].state = "firing"
        /\ last[name].state # "firing" => last'[name].run = 1
        /\ \A m \in Alerts \ {name} : last'[m] = last[m]
    BY <1>1, <1>4, EmitHistory
  <2>2. states'[name].active = TRUE
    BY <1>1, <1>4
  <2>3. n # name => states'[n] = states[n]
    BY <1>1, <1>4
  <2>4. QED
    BY <1>4, <2>1, <2>2, <2>3 DEF InStep
<1>5. ASSUME states[name].active, Emit(name, "resolved"),
             states' = [states EXCEPT ![name] = Idle]
      PROVE  InStep(n)'
  <2>1. /\ last'[name].state = "resolved"
        /\ last[name].state # "resolved" => last'[name].run = 1
        /\ \A m \in Alerts \ {name} : last'[m] = last[m]
    BY <1>1, <1>5, EmitHistory
  <2>2. states'[name].active = FALSE
    BY <1>1, <1>5 DEF Idle
  <2>3. n # name => states'[n] = states[n]
    BY <1>1, <1>5
  <2>4. QED
    BY <1>5, <2>1, <2>2, <2>3 DEF InStep
<1>6. QED
  BY <1>2, <1>3, <1>4, <1>5 DEF Effect

(* A restart gives back, as they were, the alerts it does not tear.         *)
LEMMA RestartKeeps ==
  ASSUME TypeOK, Restart
  PROVE  /\ UNCHANGED <<now, last, told, raisedAt>>
         /\ \A n \in Alerts \ torn' : n \in Alerts \ torn /\ states'[n] = states[n]
         /\ "failover_event" \notin torn' => "failover_event" \notin torn /\ failover' = failover
<1>1. PICK row : /\ torn' = torn \cup Lost(row)
                 /\ \A n \in Alerts : states'[n] = row.states[n]
                 /\ failover' = row.failover
                 /\ UNCHANGED <<now, last, told, raisedAt>>
  BY DEF Restart, RestoreState, RestoreFails, NothingSaved
<1>2. ASSUME NEW n \in Alerts \ torn'
      PROVE  states'[n] = states[n]
  <2>1. Persisted.states[n] = states'[n]
    BY <1>1, <1>2 DEF Lost
  <2>2. states[n] \in AlertState
    BY <1>2 DEF TypeOK
  <2>3. ~states[n].active => states[n] = Idle
    BY <2>2, AlertStates
  <2>4. Persisted.states[n] = states[n]
    BY <1>2, <2>3 DEF Persisted
  <2>5. QED
    BY <2>1, <2>4
<1>3. QED
  BY <1>1, <1>2 DEF Lost

(* Latches and announcements agree, for every catalogue and however often   *)
(* the daemon restarts.                                                     *)
LEMMA LatchInductive == Spec => []LatchInv
<1>1. Init => LatchInv
  BY DEF Init, LatchInv, InStep, Idle
<1>2. TypeOK /\ LatchInv /\ [Next]_vars => LatchInv'
  <2> SUFFICES ASSUME TypeOK, LatchInv, [Next]_vars PROVE LatchInv'
    OBVIOUS
  <2>1. ASSUME UNCHANGED <<states, last, torn>> PROVE LatchInv'
    BY <2>1 DEF LatchInv, InStep
  <2>2. CASE \/ ClockTick \/ \E level \in Averages : AverageMoves(level)
             \/ \E table \in RuleTables : SetRules(table)
             \/ SetDishUnreachableSuppressUntil(now + RebootWindow)
    BY <2>1, <2>2 DEF ClockTick, AverageMoves, SetRules,
       SetDishUnreachableSuppressUntil, engineVars, historyVars
  <2>3. CASE \E outages \in OutageSets[now], signal \in Signals,
                mwan \in MwanSets \cup {NoMwan} : BeginTick(outages, signal, mwan)
    BY <2>1, <2>3 DEF BeginTick, engineVars, historyVars
  <2>4. CASE EvaluateFailover \/ ReadSuppression \/ EndTick \/ PersistState \/ PersistFails
    BY <2>1, <2>4 DEF EvaluateFailover, ReadSuppression, EndTick, PersistState, PersistFails,
       engineVars, historyVars
  <2>5. CASE EvaluateRule
    <3>1. PICK name \in Alerts : Effect(name)
      BY <2>5, RuleStep
    <3>2. torn' = torn
      BY <2>5 DEF EvaluateRule
    <3>3. SUFFICES ASSUME NEW n \in Alerts \ torn PROVE InStep(n)'
      BY <3>2 DEF LatchInv
    <3>4. QED
      BY <3>1, EffectKeepsStep DEF LatchInv
  <2>6. CASE Restart
    <3>1. last' = last /\ \A n \in Alerts \ torn' : n \in Alerts \ torn /\ states'[n] = states[n]
      BY <2>6, RestartKeeps
    <3>2. QED
      BY <3>1 DEF LatchInv, InStep
  <2>7. CASE UNCHANGED vars
    BY <2>1, <2>7 DEF vars, historyVars, engineVars
  <2>8. QED
    BY <2>2, <2>3, <2>4, <2>5, <2>6, <2>7 DEF Next, RuleTurn
<1>3. QED
  BY <1>1, <1>2, TypeCorrect, PTL DEF Spec

(* No alert is announced in the same state twice in a row, whatever a       *)
(* restart interrupts, unless it lost that very change.                     *)
THEOREM NeverRepeated == Spec => []NotifiedOnce
<1>1. LatchInv => NotifiedOnce
  BY DEF LatchInv, InStep, NotifiedOnce
<1>2. QED
  BY <1>1, LatchInductive, PTL

(* What is active is what was announced firing and not yet resolved.        *)
THEOREM LatchAgrees == Spec => []LatchIsAnnounced
<1>1. LatchInv => LatchIsAnnounced
  BY DEF LatchInv, InStep, LatchIsAnnounced
<1>2. QED
  BY <1>1, LatchInductive, PTL

-----------------------------------------------------------------------------
(* A clearing period begins after the condition was last seen raised.       *)
Since(n) == /\ raisedAt[n] <= now
            /\ states[n].clearSince # NoTime => raisedAt[n] <= states[n].clearSince
ClearInv == \A n \in Alerts \ torn : Since(n)

(* The clearing period after a rule's turn: abandoned when the condition is *)
(* raised, begun now, dropped, or left alone.                               *)
LEMMA RuleClears ==
  ASSUME TypeOK, EvaluateRule, NEW n \in Alerts, Since(n)
  PROVE  Since(n)'
<1> DEFINE name == Catalog[tick.next]
           rule == tick.rules[name]
<1>1. /\ states \in [Alerts -> AlertState] /\ raisedAt \in [Alerts -> Moment]
      /\ now \in Nat /\ now' = now
  BY EngineAssumption DEF TypeOK, EvaluateRule, EngineAssumption
<1>2. tick \in TickInProgress /\ name \in Alerts /\ rule \in Rule
  BY RuleInTable DEF EvaluateRule
<1>3. RuleRuns(name, rule)
  BY DEF EvaluateRule, RuleRuns
<1>4. raisedAt' = [raisedAt EXCEPT ![name] =
        IF rule.enabled /\ Level(name, rule) = "raised" THEN now ELSE @]
  BY DEF EvaluateRule
<1> HIDE DEF name, rule
<1>5. CASE n # name
  <2>1. raisedAt'[n] = raisedAt[n]
    BY <1>1, <1>4, <1>5
  <2>2. states'[n] = states[n]
    BY <1>1, <1>3, <1>5 DEF RuleRuns, Disabled, Unknown, StillRaised, Fires,
       StaysQuiet, StartsClearing, KeepsClearing, Resolves, Keep
  <2>3. QED
    BY <1>1, <2>1, <2>2 DEF Since
<1>6. CASE n = name
  <2>1. raisedAt[n] \in Moment /\ states[n] \in AlertState
    BY <1>1
  <2>2. CASE rule.enabled /\ Level(name, rule) = "raised"
    <3>1. raisedAt'[n] = now
      BY <1>1, <1>2, <1>4, <1>6, <2>2
    <3>2. CASE StillRaised(name, rule)
      <4>1. states[n] \in Firing /\ NoTime \in Moment
        BY <1>6, <2>1, <3>2, AlertStates DEF StillRaised, Moment
      <4>2. states'[n] = [states[n] EXCEPT !.clearSince = NoTime]
        BY <1>1, <1>6, <3>2 DEF StillRaised
      <4>3. states'[n].clearSince = NoTime
        BY <4>1, <4>2, ClearSince
      <4>4. QED
        BY <1>1, <3>1, <4>3 DEF Since
    <3>3. CASE Fires(name, rule)
      <4>1. PICK t \in Started(name, rule) : states' = [states EXCEPT ![name] =
              [active |-> TRUE, subjectStart |-> t, clearSince |-> NoTime]]
        BY <3>3 DEF Fires
      <4>2. states'[n].clearSince = NoTime
        BY <1>1, <1>6, <4>1
      <4>3. QED
        BY <1>1, <3>1, <4>2 DEF Since
    <3>4. QED
      BY <1>3, <2>2, <3>2, <3>3 DEF RuleRuns, Disabled, Unknown, StaysQuiet,
         StartsClearing, KeepsClearing, Resolves
  <2>3. CASE ~(rule.enabled /\ Level(name, rule) = "raised")
    <3>1. raisedAt'[n] = raisedAt[n]
      BY <1>1, <1>2, <1>4, <1>6, <2>3
    <3>2. CASE states' = states
      BY <1>1, <3>1, <3>2 DEF Since
    <3>3. CASE Disabled(name, rule) \/ Resolves(name, rule)
      <4>1. states'[n].clearSince = NoTime
        BY <1>1, <1>6, <3>3 DEF Disabled, Resolves, Idle
      <4>2. QED
        BY <1>1, <3>1, <4>1 DEF Since
    <3>4. CASE StartsClearing(name, rule)
      <4>1. states[n] \in Firing /\ now \in Moment
        BY <1>1, <1>6, <2>1, <3>4, AlertStates DEF StartsClearing, Moment, Time
      <4>2. states'[n] = [states[n] EXCEPT !.clearSince = now]
        BY <1>1, <1>6, <3>4 DEF StartsClearing
      <4>3. states'[n].clearSince = now
        BY <4>1, <4>2, ClearSince
      <4>4. QED
        BY <1>1, <3>1, <4>3 DEF Since
    <3>5. QED
      BY <1>3, <2>3, <3>2, <3>3, <3>4 DEF RuleRuns, Unknown, StillRaised, Fires,
         StaysQuiet, KeepsClearing, Keep
  <2>4. QED
    BY <2>2, <2>3
<1>7. QED
  BY <1>5, <1>6

LEMMA ClearInductive == Spec => []ClearInv
<1>1. Init => ClearInv
  BY DEF Init, ClearInv, Since, Idle, NoTime
<1>2. TypeOK /\ ClearInv /\ [Next]_vars => ClearInv'
  <2> SUFFICES ASSUME TypeOK, ClearInv, [Next]_vars PROVE ClearInv'
    OBVIOUS
  <2>1. ASSUME UNCHANGED <<now, states, raisedAt, torn>> PROVE ClearInv'
    BY <2>1 DEF ClearInv, Since
  <2>2. CASE ClockTick
    <3>1. /\ now' = now + 1 /\ UNCHANGED <<states, raisedAt, torn>>
      BY <2>2 DEF ClockTick, engineVars
    <3>2. now \in Nat /\ raisedAt \in [Alerts -> Moment]
      BY EngineAssumption DEF TypeOK, EngineAssumption
    <3>3. QED
      BY <3>1, <3>2 DEF ClearInv, Since, Moment, Time, NoTime
  <2>3. CASE \/ \E level \in Averages : AverageMoves(level)
             \/ \E table \in RuleTables : SetRules(table)
             \/ SetDishUnreachableSuppressUntil(now + RebootWindow)
    BY <2>1, <2>3 DEF AverageMoves, SetRules,
       SetDishUnreachableSuppressUntil, engineVars, historyVars
  <2>4. CASE \E outages \in OutageSets[now], signal \in Signals,
                mwan \in MwanSets \cup {NoMwan} : BeginTick(outages, signal, mwan)
    BY <2>1, <2>4 DEF BeginTick, engineVars, historyVars
  <2>5. CASE EvaluateFailover \/ ReadSuppression \/ EndTick \/ PersistState \/ PersistFails
    BY <2>1, <2>5 DEF EvaluateFailover, ReadSuppression, EndTick, PersistState, PersistFails,
       engineVars, historyVars
  <2>6. CASE EvaluateRule
    <3>1. torn' = torn
      BY <2>6 DEF EvaluateRule
    <3>2. QED
      BY <2>6, <3>1, RuleClears DEF ClearInv
  <2>7. CASE Restart
    <3>1. /\ UNCHANGED <<now, raisedAt>>
          /\ \A n \in Alerts \ torn' : n \in Alerts \ torn /\ states'[n] = states[n]
      BY <2>7, RestartKeeps
    <3>2. QED
      BY <3>1 DEF ClearInv, Since
  <2>8. CASE UNCHANGED vars
    BY <2>1, <2>8 DEF vars, historyVars, engineVars
  <2>9. QED
    BY <2>2, <2>3, <2>4, <2>5, <2>6, <2>7, <2>8 DEF Next, RuleTurn
<1>3. QED
  BY <1>1, <1>2, TypeCorrect, PTL DEF Spec

(* An enabled rule resolves only a whole clear hold after its condition was *)
(* last seen raised, for every hold and across restarts.                    *)
THEOREM ClearHoldKept == Spec => ClearIsHeld
<1>1. TypeOK /\ ClearInv /\ [Next]_vars => [ResolvesHeld]_vars
  <2> SUFFICES ASSUME TypeOK, ClearInv, [Next]_vars, NEW n \in Alerts \ torn,
                      states[n].active, ~states'[n].active,
                      restarts' = restarts, tick.rules[n].enabled
               PROVE  now - raisedAt[n] >= tick.rules[n].clearHold
    BY DEF ResolvesHeld
  <2>1. states' # states /\ restarts' = restarts /\ restarts \in Nat
    BY DEF TypeOK
  <2>2. EvaluateRule
    BY <2>1 DEF Next, RuleTurn, vars, engineVars, historyVars, ClockTick, AverageMoves, SetRules,
       SetDishUnreachableSuppressUntil, BeginTick, EvaluateFailover, ReadSuppression, EndTick,
       PersistState, PersistFails, Restart
  <2> DEFINE name == Catalog[tick.next]
             rule == tick.rules[name]
  <2>3. tick \in TickInProgress /\ name \in Alerts /\ rule \in Rule
    BY <2>2, RuleInTable DEF EvaluateRule
  <2>4. RuleRuns(name, rule)
    BY <2>2 DEF EvaluateRule, RuleRuns
  <2>5. states \in [Alerts -> AlertState] /\ states[name] \in AlertState
    BY <2>3 DEF TypeOK
  <2>6. rule = tick.rules[name]
    OBVIOUS
  <2> HIDE DEF name, rule
  <2>7. n = name
    BY <2>4, <2>5 DEF RuleRuns, Disabled, Unknown, StillRaised, Fires,
       StaysQuiet, StartsClearing, KeepsClearing, Resolves, Keep
  <2>8. ~Disabled(name, rule)
    BY <2>6, <2>7 DEF Disabled
  <2>9. ~(states' = states) /\ ~Fires(name, rule)
    BY <2>1, <2>7 DEF Fires
  <2>10. ASSUME NEW t \in Moment,
                states' = [states EXCEPT ![name] = [states[name] EXCEPT !.clearSince = t]]
         PROVE  FALSE
    <3>1. states[name] \in Firing
      BY <2>5, <2>7, AlertStates
    <3>2. [states[name] EXCEPT !.clearSince = t].active
      BY <3>1, ClearSince
    <3>3. QED
      BY <2>3, <2>5, <2>7, <2>10, <3>2
  <2>11. now \in Nat /\ now \in Moment /\ NoTime \in Moment
    BY EngineAssumption DEF TypeOK, EngineAssumption, Moment, Time
  <2>12. Resolves(name, rule)
    BY <2>4, <2>8, <2>9, <2>10, <2>11 DEF RuleRuns, Unknown, StillRaised,
       StaysQuiet, StartsClearing, KeepsClearing, Keep
  <2>13. rule.clearHold = 0 \/ /\ states[n].clearSince # NoTime
                               /\ now - states[n].clearSince >= rule.clearHold
    BY <2>7, <2>12 DEF Resolves, ClearHeld
  <2>14. raisedAt[n] <= now /\ (states[n].clearSince # NoTime
                                 => raisedAt[n] <= states[n].clearSince)
    BY DEF ClearInv, Since
  <2>15. raisedAt[n] \in Int /\ states[n].clearSince \in Int /\ rule.clearHold \in Nat
    <3>1. raisedAt[n] \in Moment /\ states[n].clearSince \in Moment
      BY <2>5, <2>7, AlertStates DEF TypeOK
    <3>2. QED
      BY <2>3, <3>1 DEF Moment, Time, NoTime, Rule
  <2>16. QED
    BY <2>6, <2>7, <2>11, <2>13, <2>14, <2>15
<1>2. QED
  BY <1>1, TypeCorrect, ClearInductive, PTL DEF Spec, ClearIsHeld

-----------------------------------------------------------------------------
(* The failover baseline is the set last announced or first seen.           *)
THEOREM BaselineAgrees == Spec => []BaselineIsTold
<1>1. Init => BaselineIsTold
  BY DEF Init, BaselineIsTold, NotReady
<1>2. TypeOK /\ BaselineIsTold /\ [Next]_vars => BaselineIsTold'
  <2> SUFFICES ASSUME TypeOK, BaselineIsTold, [Next]_vars PROVE BaselineIsTold'
    OBVIOUS
  <2>1. ASSUME UNCHANGED <<failover, told, torn>> PROVE BaselineIsTold'
    BY <2>1 DEF BaselineIsTold
  <2>2. CASE EvaluateFailover
    <3>1. CASE FailoverOff \/ FailoverSame
      BY <2>1, <2>2, <3>1 DEF EvaluateFailover, FailoverOff, FailoverSame
    <3>2. CASE FailoverBaseline
      BY <3>2 DEF FailoverBaseline, BaselineIsTold
    <3>3. CASE FailoverFires
      <4>1. failover'.set = tick.mwan
        BY <3>3 DEF TypeOK, FailoverState, FailoverFires
      <4>2. QED
        BY <3>3, <4>1 DEF FailoverFires, BaselineIsTold
    <3>4. QED
      BY <2>2, <3>1, <3>2, <3>3 DEF EvaluateFailover
  <2>3. CASE Restart
    <3>1. /\ told' = told
          /\ "failover_event" \notin torn' => "failover_event" \notin torn /\ failover' = failover
      BY <2>3, RestartKeeps
    <3>2. QED
      BY <3>1 DEF BaselineIsTold
  <2>4. CASE ~EvaluateFailover /\ ~Restart
    BY <2>1, <2>4 DEF Next, RuleTurn, vars, engineVars, historyVars, ClockTick, AverageMoves,
       SetRules, SetDishUnreachableSuppressUntil, BeginTick, ReadSuppression, EvaluateRule, EndTick,
       PersistState, PersistFails
  <2>5. QED
    BY <2>2, <2>3, <2>4
<1>3. QED
  BY <1>1, <1>2, TypeCorrect, PTL DEF Spec

-----------------------------------------------------------------------------
(* The cached average was read when it was current, and what it read as     *)
(* raised was raised then.                                                  *)
CacheInv ==
  /\ highAt <= now
  /\ average = "raised" => highAt = now
  /\ obstruction.at <= now
  /\ obstruction.at # NoTime /\ obstruction.level = "raised" => obstruction.at <= highAt

LEMMA CacheInductive == Spec => []CacheInv
<1>1. Init => CacheInv
  BY DEF Init, CacheInv, NoTime
<1>2. TypeOK /\ CacheInv /\ [Next]_vars => CacheInv'
  <2> SUFFICES ASSUME TypeOK, CacheInv, [Next]_vars PROVE CacheInv'
    OBVIOUS
  <2>1. ASSUME UNCHANGED <<now, average, obstruction, highAt>> PROVE CacheInv'
    BY <2>1 DEF CacheInv
  <2>2. /\ now \in Nat /\ highAt \in Int /\ highAt >= -1
        /\ obstruction \in [at : Moment, level : Levels]
        /\ obstruction.at \in Int /\ obstruction.at >= -1
    BY EngineAssumption DEF TypeOK, EngineAssumption, Moment, Time, NoTime
  <2>3. CASE ClockTick
    <3>1. /\ now' = now + 1 /\ UNCHANGED <<average, obstruction>>
          /\ highAt' = IF average = "raised" THEN now + 1 ELSE highAt
      BY <2>3 DEF ClockTick, engineVars
    <3>2. QED
      BY <2>2, <3>1 DEF CacheInv
  <2>4. ASSUME NEW level \in Averages, AverageMoves(level) PROVE CacheInv'
    <3>1. /\ UNCHANGED <<now, obstruction>> /\ average' = level
          /\ highAt' = IF level = "raised" THEN now ELSE highAt
      BY <2>4 DEF AverageMoves, engineVars
    <3>2. QED
      BY <2>2, <3>1 DEF CacheInv
  <2>5. CASE EvaluateRule
    <3>1. UNCHANGED <<now, average, highAt>>
      BY <2>5 DEF EvaluateRule
    <3>2. obstruction' = obstruction \/ obstruction' = [at |-> now, level |-> average]
      BY <2>5 DEF EvaluateRule, RefreshObstruction
    <3>3. QED
      BY <2>2, <3>1, <3>2 DEF CacheInv
  <2>6. CASE Restart
    <3>1. /\ UNCHANGED <<now, average, highAt>>
          /\ obstruction' = [at |-> NoTime, level |-> "unknown"]
      BY <2>6 DEF Restart
    <3>2. QED
      BY <2>2, <3>1 DEF CacheInv, NoTime
  <2>7. CASE ~ClockTick /\ (\A level \in Averages : ~AverageMoves(level))
             /\ ~EvaluateRule /\ ~Restart
    BY <2>1, <2>7 DEF Next, RuleTurn, vars, engineVars, historyVars, SetRules,
       SetDishUnreachableSuppressUntil, BeginTick, EvaluateFailover, ReadSuppression, EndTick,
       PersistState, PersistFails
  <2>8. QED
    BY <2>3, <2>4, <2>5, <2>6, <2>7
<1>3. QED
  BY <1>1, <1>2, TypeCorrect, PTL DEF Spec

(* obstruction_high fires only on an average that was high within CacheFor. *)
THEOREM ObstructionCurrent == Spec => ObstructionIsRecent
<1>1. TypeOK /\ CacheInv /\ [Next]_vars => [FiresRecent]_vars
  <2> DEFINE n == "obstruction_high"
  <2> SUFFICES ASSUME TypeOK, CacheInv, [Next]_vars, n \in Alerts,
                      ~states[n].active, states'[n].active, restarts' = restarts
               PROVE  highAt # NoTime /\ now - highAt <= CacheFor
    BY DEF FiresRecent
  <2>1. states' # states /\ restarts' = restarts /\ restarts \in Nat
    BY DEF TypeOK
  <2>2. EvaluateRule
    BY <2>1 DEF Next, RuleTurn, vars, engineVars, historyVars, ClockTick, AverageMoves, SetRules,
       SetDishUnreachableSuppressUntil, BeginTick, EvaluateFailover, ReadSuppression, EndTick,
       PersistState, PersistFails, Restart
  <2> DEFINE name == Catalog[tick.next]
             rule == tick.rules[name]
  <2>3. tick \in TickInProgress /\ name \in Alerts /\ rule \in Rule
    BY <2>2, RuleInTable DEF EvaluateRule
  <2>4. RuleRuns(name, rule)
    BY <2>2 DEF EvaluateRule, RuleRuns
  <2>5. states \in [Alerts -> AlertState]
    BY DEF TypeOK
  <2> HIDE DEF name, rule
  <2>6. n = name
    BY <2>4, <2>5 DEF RuleRuns, Disabled, Unknown, StillRaised, Fires,
       StaysQuiet, StartsClearing, KeepsClearing, Resolves, Keep
  <2>7. Fires(name, rule)
    BY <2>1, <2>4, <2>5, <2>6 DEF RuleRuns, Disabled, Unknown, StillRaised,
       StaysQuiet, StartsClearing, KeepsClearing, Resolves, Keep, Idle
  <2>8. ObstructionLevel = "raised"
    BY <2>6, <2>7 DEF Fires, Level, OutageAlerts
  <2>9. /\ now \in Nat /\ highAt \in Int /\ CacheFor \in Nat
        /\ obstruction.at \in Int /\ obstruction.at >= -1
    BY EngineAssumption DEF TypeOK, EngineAssumption, Moment, Time, NoTime
  <2>10. CASE CacheHit
    BY <2>8, <2>9, <2>10 DEF CacheHit, ObstructionLevel, CacheInv, NoTime
  <2>11. CASE ~CacheHit
    BY <2>8, <2>9, <2>11 DEF ObstructionLevel, CacheInv, NoTime
  <2>12. QED
    BY <2>10, <2>11
<1>2. QED
  BY <1>1, TypeCorrect, CacheInductive, PTL DEF Spec, ObstructionIsRecent

=============================================================================

--------------------------- MODULE Failover_proofs ---------------------------
(***************************************************************************)
(* Proofs about Failover, for any devices, interfaces and requests and any *)
(* bounds: its types, that two requests never write two plans, and that a  *)
(* plan a request reported as applied is the one mwan3 runs.               *)
(***************************************************************************)
EXTENDS Failover, FiniteSetTheorems, TLAPS

AnswerSet == {"none", "shown", "ok", "conflict", "error"}
Requesting == [at : Stages, primary : Names, answer : AnswerSet]
Hearing == [heard : BOOLEAN, online : SUBSET Interfaces]

Holding(r) ==
  request[r].at \in {"ask_locked", "show_locked", "batch", "reload", "refresh", "finish"}

(* Who is past the lock holds it, and writes a plan with a primary into a   *)
(* configuration it saw to be without one.                                 *)
HoldInv ==
  \A r \in Requests :
    /\ Holding(r) => applying = r
    /\ request[r].at \in {"batch", "reload"} => request[r].primary \in Devices
    /\ request[r].at = "batch" => plans = {} \/ blind

PlanInv == plans = {} \/ blind \/ \E p \in Devices : plans = {p}

FailoverInv == TypeOK /\ HoldInv /\ PlanInv /\ AppliedIsLoaded

-----------------------------------------------------------------------------
(* A step that leaves the plans alone and moves one request to a place     *)
(* where it neither holds the lock nor writes.                             *)
LEMMA Outside ==
  ASSUME FailoverInv, TypeOK', NEW r \in Requests,
         UNCHANGED <<plans, loaded, told, applying>>, blind => blind',
         ~Holding(r), ~Holding(r)',
         \A s \in Requests : s # r => request'[s] = request[s]
  PROVE  FailoverInv'
<1>1. HoldInv'
  BY DEF FailoverInv, HoldInv, Holding
<1>2. PlanInv'
  BY DEF FailoverInv, PlanInv
<1>3. AppliedIsLoaded'
  BY DEF FailoverInv, AppliedIsLoaded, Holding
<1> QED BY <1>1, <1>2, <1>3 DEF FailoverInv

(* The same of the request that holds the lock, until it releases it.      *)
LEMMA Inside ==
  ASSUME FailoverInv, TypeOK', NEW r \in Requests,
         UNCHANGED <<plans, loaded, told>>, blind => blind',
         Holding(r), request[r].at # "reload",
         request'[r].at \notin {"batch", "reload"},
         applying' = IF Holding(r)' THEN applying ELSE None,
         \A s \in Requests : s # r => request'[s] = request[s]
  PROVE  FailoverInv'
<1>0. applying = r /\ \A s \in Requests : s # r => ~Holding(s)
  BY DEF FailoverInv, HoldInv
<1>1. HoldInv'
  BY <1>0 DEF FailoverInv, HoldInv, Holding
<1>2. PlanInv'
  BY DEF FailoverInv, PlanInv
<1>3. AppliedIsLoaded'
  BY DEF FailoverInv, AppliedIsLoaded
<1> QED BY <1>1, <1>2, <1>3 DEF FailoverInv

LEMMA RequestType ==
  ASSUME request \in [Requests -> Requesting], NEW r \in Requests, NEW at \in Stages,
         NEW text \in AnswerSet,
         \/ request' = [request EXCEPT ![r].at = at]
         \/ request' = [request EXCEPT ![r] = [@ EXCEPT !.at = at, !.answer = text]]
         \/ request' = [request EXCEPT ![r].at = at, ![r].primary = interface]
         \/ request' = [request EXCEPT ![r] = [Idle EXCEPT !.at = at, !.primary = interface]]
         \/ request' = [request EXCEPT ![r] = [Idle EXCEPT !.at = at, !.answer = text]],
         interface \in Names
  PROVE  /\ request' \in [Requests -> Requesting]
         /\ request'[r].at = at
         /\ \A s \in Requests : s # r => request'[s] = request[s]
         /\ request' = [request EXCEPT ![r].at = at] => request'[r].primary = request[r].primary
<1>1. Idle \in Requesting
  BY DEF Idle, Requesting, Stages, Names, AnswerSet
<1>2. request[r] \in Requesting
  OBVIOUS
<1>3. request'[r] \in Requesting /\ request'[r].at = at
  <2>1. CASE request' = [request EXCEPT ![r].at = at]
    BY <1>2, <2>1 DEF Requesting
  <2>2. CASE request' = [request EXCEPT ![r] = [@ EXCEPT !.at = at, !.answer = text]]
    BY <1>2, <2>2 DEF Requesting
  <2>3. CASE request' = [request EXCEPT ![r].at = at, ![r].primary = interface]
    BY <1>2, <2>3 DEF Requesting
  <2>4. CASE request' = [request EXCEPT ![r] = [Idle EXCEPT !.at = at, !.primary = interface]]
    BY <1>1, <2>4 DEF Requesting
  <2>5. CASE request' = [request EXCEPT ![r] = [Idle EXCEPT !.at = at, !.answer = text]]
    BY <1>1, <2>5 DEF Requesting
  <2> QED BY <2>1, <2>2, <2>3, <2>4, <2>5
<1>4. \A s \in Requests : s # r => request'[s] = request[s]
  OBVIOUS
<1>5. request' \in [Requests -> Requesting]
  BY <1>3, <1>4
<1> QED BY <1>2, <1>3, <1>4, <1>5 DEF Requesting

LEMMA AnswerTypes ==
  ASSUME TypeOK, NEW c \in Callers
  PROVE  /\ Asks(c) => answer' \in [Callers -> Hearing]
         /\ Stores(c) => answer' \in [Callers -> Hearing]
<1>1. answer \in [Callers -> Hearing] /\ online \subseteq Interfaces
  BY DEF TypeOK, Hearing
<1>2. Unheard \in Hearing /\ [heard |-> TRUE, online |-> online] \in Hearing
  BY <1>1 DEF Unheard, Hearing
<1> QED BY <1>1, <1>2 DEF Asks, Stores

-----------------------------------------------------------------------------
(* The steps outside the daemon and of its loops. *)
LEMMA LoopStep ==
  ASSUME FailoverInv, \/ RouteMoves \/ LinkMoves \/ UserConfigures \/ UserResets
                      \/ Discover \/ RunAsks \/ RunStores
  PROVE  FailoverInv'
<1> USE DEF FailoverInv, world, monitor, manager
<1>1. TypeOK'
  <2>1. CASE RouteMoves \/ LinkMoves \/ UserConfigures \/ UserResets
    <3>1. changes' \in 0 .. MaxChanges
      BY <2>1, FailoverAssumption DEF FailoverAssumption, TypeOK, RouteMoves, LinkMoves,
         UserConfigures, UserResets, Changes
    <3> QED BY <2>1, <3>1 DEF TypeOK, RouteMoves, LinkMoves, UserConfigures, UserResets, Changes, Names
  <2>2. CASE Discover
    BY <2>2, FailoverAssumption DEF FailoverAssumption, Discover, Found, TypeOK, Names
  <2>3. CASE RunAsks \/ RunStores
    <3>1. Loop \in Callers
      BY DEF Callers
    <3>2. answer' \in [Callers -> Hearing]
      BY <2>3, <3>1, AnswerTypes DEF RunAsks, RunStores
    <3> QED BY <2>3, <3>2 DEF RunAsks, RunStores, TypeOK, Hearing
  <2> QED BY <2>1, <2>2, <2>3
<1>2. CASE UserResets
  BY <1>1, <1>2 DEF UserResets, Changes, HoldInv, Holding, PlanInv, AppliedIsLoaded
<1>3. CASE RouteMoves \/ LinkMoves \/ UserConfigures \/ Discover \/ RunAsks \/ RunStores
  <2>1. UNCHANGED <<plans, loaded, told, applying, request, blind>>
    BY <1>3 DEF RouteMoves, LinkMoves, UserConfigures, Changes, Discover, RunAsks, RunStores
  <2> QED BY <1>1, <2>1 DEF HoldInv, Holding, PlanInv, AppliedIsLoaded
<1> QED BY <1>2, <1>3

LEMMA FailsType == ASSUME TypeOK, Fails PROVE failed' \in 0 .. MaxFailures
BY FailoverAssumption DEF FailoverAssumption, TypeOK, Fails

(* The steps of a request that write nothing. *)
LEMMA AskStep ==
  ASSUME FailoverInv, NEW r \in Requests,
         Get(r) \/ ReportReturns(r) \/ Post(r) \/ AssistAsks(r) \/ ApplyRefreshes(r) \/ ApplyReturns(r)
  PROVE  FailoverInv'
<1> USE DEF world, monitor, manager
<1>0. /\ TypeOK /\ request \in [Requests -> Requesting] /\ r \in Callers /\ interface \in Names
      /\ "none" \in AnswerSet /\ "shown" \in AnswerSet /\ "ok" \in AnswerSet
  BY DEF FailoverInv, TypeOK, Requesting, AnswerSet, Callers
<1>1. CASE Get(r) \/ Post(r)
  <2>1. /\ request[r].at = "idle"
        /\ UNCHANGED <<world, plans, loaded, monitor, manager, answer, applying, changes, failed,
                       told, blind>>
    BY <1>1 DEF Get, Post
  <2>2. /\ request' \in [Requests -> Requesting] /\ request'[r].at \in {"report", "ask"}
        /\ \A s \in Requests : s # r => request'[s] = request[s]
    BY <1>0, <1>1, RequestType DEF Get, Post, Stages
  <2>3. TypeOK'
    BY <1>0, <2>1, <2>2 DEF TypeOK, Requesting, AnswerSet
  <2> QED BY <2>1, <2>2, <2>3, Outside DEF Holding
<1>2. CASE ReportReturns(r)
  <2>1. /\ request[r].at = "reported" /\ Stores(r)
        /\ UNCHANGED <<world, plans, loaded, monitor, applying, changes, failed, told, blind>>
    BY <1>2 DEF ReportReturns
  <2>2. /\ request' \in [Requests -> Requesting] /\ request'[r].at = "idle"
        /\ \A s \in Requests : s # r => request'[s] = request[s]
    BY <1>0, <1>2, RequestType DEF ReportReturns, Goes, Stages
  <2>3. TypeOK'
    BY <1>0, <2>1, <2>2, AnswerTypes DEF TypeOK, Requesting, AnswerSet, Hearing
  <2> QED BY <2>1, <2>2, <2>3, Outside DEF Holding
<1>3. CASE AssistAsks(r)
  <2>1. /\ request[r].at \in {"ask", "ask_locked", "report"}
        /\ answer' \in [Callers -> Hearing] /\ failed' \in 0 .. MaxFailures
        /\ UNCHANGED <<world, plans, loaded, monitor, manager, applying, changes, told, blind>>
    BY <1>0, <1>3, AnswerTypes, FailsType DEF AssistAsks, TypeOK, Hearing
  <2>2. /\ request' \in [Requests -> Requesting]
        /\ request'[r].at = CASE request[r].at = "ask" -> "show"
                              [] request[r].at = "ask_locked" -> "show_locked" [] OTHER -> "reported"
        /\ \A s \in Requests : s # r => request'[s] = request[s]
    <3>1. \E at \in Stages : /\ at = CASE request[r].at = "ask" -> "show"
                                       [] request[r].at = "ask_locked" -> "show_locked"
                                       [] OTHER -> "reported"
                             /\ request' = [request EXCEPT ![r].at = at]
      BY <1>3 DEF AssistAsks, Goes, Stages
    <3> QED BY <1>0, <3>1, RequestType
  <2>3. TypeOK'
    BY <1>0, <2>1, <2>2 DEF TypeOK, Requesting, AnswerSet, Hearing
  <2>4. CASE request[r].at \in {"ask", "report"}
    <3>1. request'[r].at \in {"show", "reported"}
      BY <2>2, <2>4
    <3> QED BY <2>1, <2>2, <2>3, <2>4, <3>1, Outside DEF Holding
  <2>5. CASE request[r].at = "ask_locked"
    <3>1. request'[r].at = "show_locked"
      BY <2>2, <2>5
    <3> QED BY <2>1, <2>2, <2>3, <2>5, <3>1, Inside DEF Holding
  <2> QED BY <2>1, <2>4, <2>5
<1>4. CASE ApplyRefreshes(r)
  <2>1. /\ request[r].at = "refresh"
        /\ answer' \in [Callers -> Hearing] /\ failed' \in 0 .. MaxFailures
        /\ UNCHANGED <<world, plans, loaded, monitor, manager, applying, changes, told, blind>>
    BY <1>0, <1>4, AnswerTypes, FailsType DEF ApplyRefreshes, TypeOK, Hearing
  <2>2. /\ request' \in [Requests -> Requesting] /\ request'[r].at = "finish"
        /\ \A s \in Requests : s # r => request'[s] = request[s]
    BY <1>0, <1>4, RequestType DEF ApplyRefreshes, Goes, Stages
  <2>3. TypeOK'
    BY <1>0, <2>1, <2>2 DEF TypeOK, Requesting, AnswerSet, Hearing
  <2> QED BY <2>1, <2>2, <2>3, Inside DEF Holding
<1>5. CASE ApplyReturns(r)
  <2>1. /\ request[r].at = "finish" /\ Stores(r) /\ applying' = None
        /\ UNCHANGED <<world, plans, loaded, monitor, changes, failed, told, blind>>
    BY <1>5 DEF ApplyReturns, Releases
  <2>2. /\ request' \in [Requests -> Requesting] /\ request'[r].at = "report"
        /\ \A s \in Requests : s # r => request'[s] = request[s]
    BY <1>0, <1>5, RequestType DEF ApplyReturns, Reports, Stages
  <2>3. TypeOK'
    BY <1>0, <2>1, <2>2, AnswerTypes DEF TypeOK, Requesting, AnswerSet, Hearing
  <2> QED BY <2>1, <2>2, <2>3, Inside DEF Holding
<1> QED BY <1>1, <1>2, <1>3, <1>4, <1>5

-----------------------------------------------------------------------------
(* The check of a plan: what it lets through has a primary, and no plan was *)
(* in the configuration it was shown.                                      *)
LEMMA ShowStep ==
  ASSUME FailoverInv, NEW r \in Requests, AssistShows(r)
  PROVE  FailoverInv'
<1> USE DEF world, monitor, manager
<1>0. /\ TypeOK /\ request \in [Requests -> Requesting] /\ r \in Callers /\ interface \in Names
      /\ "conflict" \in AnswerSet /\ request[r].at \in {"show", "show_locked"}
  BY DEF FailoverInv, TypeOK, Requesting, AnswerSet, Callers, AssistShows
<1>1. PICK shown \in BOOLEAN :
       /\ IF shown THEN UNCHANGED failed ELSE Fails
       /\ blind' = (blind \/ (~shown /\ ~Refuses(request[r].primary, shown)))
       /\ IF Refuses(request[r].primary, shown)
          THEN IF request[r].at = "show" THEN Answers(r, "conflict") /\ UNCHANGED applying
               ELSE Reports(r, "conflict") /\ Releases
          ELSE Goes(r, IF request[r].at = "show" THEN "lock" ELSE "batch") /\ UNCHANGED applying
  BY DEF AssistShows
<1> DEFINE refused == Refuses(request[r].primary, shown)
<1>2. Stores(r) /\ UNCHANGED <<world, plans, loaded, monitor, changes, told>>
  BY DEF AssistShows
<1>3. blind' \in BOOLEAN /\ (blind => blind') /\ (~shown /\ ~refused => blind')
  <2>1. blind \in BOOLEAN /\ shown \in BOOLEAN
    BY <1>0 DEF TypeOK
  <2> QED BY <1>1, <2>1, Zenon
<1>4. failed' \in 0 .. MaxFailures
  BY <1>0, <1>1, FailsType DEF TypeOK
<1>5. answer' \in [Callers -> Hearing]
  BY <1>0, <1>2, AnswerTypes
<1>6. CASE refused
  <2>1. /\ request' \in [Requests -> Requesting]
        /\ request'[r].at \in {"idle", "report"}
        /\ \A s \in Requests : s # r => request'[s] = request[s]
    BY <1>0, <1>1, <1>6, RequestType DEF Answers, Reports, Stages
  <2>2. applying' = IF request[r].at = "show" THEN applying ELSE None
    BY <1>0, <1>1, <1>6 DEF Releases
  <2>3. TypeOK'
    BY <1>0, <1>2, <1>3, <1>4, <1>5, <2>1, <2>2 DEF TypeOK, Requesting, AnswerSet, Hearing
  <2>4. CASE request[r].at = "show"
    BY <1>2, <1>3, <2>1, <2>2, <2>3, <2>4, Outside DEF Holding
  <2>5. CASE request[r].at = "show_locked"
    BY <1>2, <1>3, <2>1, <2>2, <2>3, <2>5, Inside DEF Holding
  <2> QED BY <1>0, <2>4, <2>5
<1>7. CASE ~refused
  <2>1. /\ request' \in [Requests -> Requesting] /\ applying' = applying
        /\ request'[r].at = IF request[r].at = "show" THEN "lock" ELSE "batch"
        /\ request'[r].primary = request[r].primary
        /\ \A s \in Requests : s # r => request'[s] = request[s]
    BY <1>0, <1>1, <1>7, RequestType DEF Goes, Stages, AnswerSet
  <2>2. TypeOK'
    BY <1>0, <1>2, <1>3, <1>4, <1>5, <2>1 DEF TypeOK, Requesting, AnswerSet, Hearing
  <2>3. CASE request[r].at = "show"
    BY <1>2, <1>3, <2>1, <2>2, <2>3, Outside DEF Holding
  <2>4. CASE request[r].at = "show_locked"
    <3>1. applying = r /\ \A s \in Requests : s # r => ~Holding(s)
      BY <2>4 DEF FailoverInv, HoldInv, Holding
    <3>2. request[r].primary \in Devices
      BY <1>0, <1>7 DEF Refuses, Requesting, Names
    <3>3. plans = {} \/ blind'
      BY <1>3, <1>7 DEF Refuses, HasCustomConfig
    <3>4. HoldInv'
      BY <1>2, <1>3, <2>1, <2>4, <3>1, <3>2, <3>3 DEF FailoverInv, HoldInv, Holding
    <3>5. PlanInv' /\ AppliedIsLoaded'
      BY <1>2, <1>3, <2>1, <2>4 DEF FailoverInv, PlanInv, AppliedIsLoaded
    <3> QED BY <2>2, <3>4, <3>5 DEF FailoverInv
  <2> QED BY <1>0, <2>3, <2>4
<1> QED BY <1>6, <1>7

LEMMA LockStep ==
  ASSUME FailoverInv, NEW r \in Requests, Locks(r)
  PROVE  FailoverInv'
<1> USE DEF world, monitor, manager
<1>1. /\ TypeOK /\ request \in [Requests -> Requesting] /\ interface \in Names
  BY DEF FailoverInv, TypeOK, Requesting, AnswerSet
<1>2. /\ request' \in [Requests -> Requesting] /\ request'[r].at = "ask_locked"
      /\ \A s \in Requests : s # r => request'[s] = request[s]
  BY <1>1, RequestType DEF Locks, Stages, AnswerSet
<1>3. request[r].at = "lock" /\ applying = None /\ applying' = r
      /\ UNCHANGED <<world, plans, loaded, monitor, manager, answer, changes, failed, told, blind>>
  BY DEF Locks
<1>4. TypeOK'
  BY <1>1, <1>2, <1>3 DEF TypeOK, Requesting, AnswerSet
<1>5. \A s \in Requests : ~Holding(s)
  BY <1>3, FailoverAssumption DEF FailoverAssumption, FailoverInv, HoldInv
<1>6. HoldInv'
  BY <1>2, <1>3, <1>5 DEF FailoverInv, HoldInv, Holding
<1>7. PlanInv' /\ AppliedIsLoaded'
  BY <1>2, <1>3 DEF FailoverInv, PlanInv, AppliedIsLoaded
<1> QED BY <1>4, <1>6, <1>7 DEF FailoverInv

(* The write of a plan, and the reload that makes mwan3 run it. *)
LEMMA WriteStep ==
  ASSUME FailoverInv, NEW r \in Requests, Batch(r) \/ Reload(r)
  PROVE  FailoverInv'
<1> USE DEF world, monitor, manager
<1>0. /\ TypeOK /\ request \in [Requests -> Requesting] /\ interface \in Names
      /\ "error" \in AnswerSet /\ request[r].at \in {"batch", "reload"}
  BY DEF FailoverInv, TypeOK, Requesting, AnswerSet, Batch, Reload
<1>1. /\ applying = r /\ request[r].primary \in Devices
      /\ \A s \in Requests : s # r => ~Holding(s)
  BY <1>0 DEF FailoverInv, HoldInv, Holding
<1>2. /\ request' \in [Requests -> Requesting]
      /\ request'[r].at \in {"reload", "refresh", "idle"}
      /\ request'[r].at = "reload" => request'[r].primary = request[r].primary
      /\ \A s \in Requests : s # r => request'[s] = request[s]
  BY <1>0, RequestType DEF Batch, Reload, Goes, Answers, Stages
<1>3. applying' = IF request'[r].at = "idle" THEN None ELSE applying
  <2>1. CASE Goes(r, "reload") \/ Goes(r, "refresh")
    <3>1. request'[r].at \in {"reload", "refresh"}
      BY <1>0, <2>1, RequestType DEF Goes, Stages
    <3>2. ~Answers(r, "error")
      <4>1. Answers(r, "error") => request'[r].at = "idle"
        BY <1>0, RequestType DEF Answers, Stages
      <4> QED BY <3>1, <4>1
    <3> QED BY <3>1, <3>2 DEF Batch, Reload
  <2>2. CASE Answers(r, "error")
    <3>1. request'[r].at = "idle"
      BY <1>0, <2>2, RequestType DEF Answers, Stages
    <3>2. ~Goes(r, "reload") /\ ~Goes(r, "refresh")
      BY <1>0, <3>1, RequestType DEF Goes, Stages
    <3> QED BY <3>1, <3>2 DEF Batch, Reload, Releases
  <2> QED BY <2>1, <2>2 DEF Batch, Reload
<1>4. /\ plans' \in {plans, plans \cup {request[r].primary}}
      /\ loaded' \in {loaded, plans} /\ told' \in {told, told \cup {request[r].primary}}
      /\ failed' \in 0 .. MaxFailures
      /\ UNCHANGED <<world, monitor, manager, answer, changes, blind>>
  BY <1>0, FailsType DEF Batch, Reload, TypeOK
<1>5. TypeOK'
  BY <1>0, <1>1, <1>2, <1>3, <1>4 DEF TypeOK, Requesting, AnswerSet
<1>6. HoldInv'
  BY <1>1, <1>2, <1>3, <1>4 DEF FailoverInv, HoldInv, Holding
<1>7. PlanInv'
  <2>1. CASE Batch(r)
    <3>1. plans = {} \/ blind
      BY <2>1 DEF FailoverInv, HoldInv, Batch
    <3> QED BY <1>1, <1>4, <3>1 DEF PlanInv
  <2>2. CASE Reload(r)
    BY <2>2 DEF Reload, FailoverInv, PlanInv
  <2> QED BY <2>1, <2>2
<1>8. AppliedIsLoaded'
  <2>1. \A p \in plans \ loaded : p \in told \/ (request[r].at = "reload" /\ request[r].primary = p)
    <3> SUFFICES ASSUME NEW p \in plans \ loaded, p \notin told
                 PROVE  request[r].at = "reload" /\ request[r].primary = p
      OBVIOUS
    <3>1. PICK s \in Requests : request[s].at = "reload" /\ request[s].primary = p
      BY DEF FailoverInv, AppliedIsLoaded
    <3>2. s = r
      BY <1>1, <3>1 DEF Holding
    <3> QED BY <3>1, <3>2
  <2>2. CASE request'[r].at = "reload"
    <3>1. Goes(r, "reload") /\ Batch(r)
      BY <1>0, <2>2, RequestType DEF Batch, Reload, Goes, Answers, Stages
    <3>2. /\ plans' = plans \cup {request[r].primary} /\ loaded' = loaded /\ told' = told
          /\ request[r].at = "batch"
      <4>1. ~Answers(r, "error")
        BY <1>0, <2>2, RequestType DEF Answers, Stages
      <4> QED BY <3>1, <4>1 DEF Batch
    <3> QED BY <1>2, <2>1, <2>2, <3>2 DEF AppliedIsLoaded
  <2>3. CASE request'[r].at = "refresh"
    <3>1. loaded' = plans /\ plans' = plans
      BY <1>0, <2>3, RequestType DEF Batch, Reload, Goes, Answers, Stages
    <3> QED BY <3>1 DEF AppliedIsLoaded
  <2>4. CASE request'[r].at = "idle"
    <3>1. told' = told \cup {request[r].primary} /\ loaded' = loaded
      BY <1>0, <2>4, RequestType DEF Batch, Reload, Goes, Answers, Stages
    <3> QED BY <1>4, <2>1, <3>1 DEF AppliedIsLoaded
  <2> QED BY <1>2, <2>2, <2>3, <2>4
<1> QED BY <1>5, <1>6, <1>7, <1>8 DEF FailoverInv

-----------------------------------------------------------------------------
LEMMA FailoverSafe == Spec => []FailoverInv
<1>1. Init => FailoverInv
  <2> SUFFICES ASSUME Init PROVE FailoverInv
    OBVIOUS
  <2> USE DEF Init
  <2>1. answer \in [Callers -> Hearing] /\ request \in [Requests -> Requesting]
    BY DEF Unheard, Hearing, Idle, Requesting, Stages, Names, AnswerSet
  <2>2. changes \in 0 .. MaxChanges /\ failed \in 0 .. MaxFailures
    BY FailoverAssumption DEF FailoverAssumption
  <2>3. TypeOK
    BY <2>1, <2>2 DEF TypeOK, Hearing, Requesting, AnswerSet, Names
  <2>4. HoldInv
    BY DEF HoldInv, Holding, Idle
  <2>5. PlanInv /\ AppliedIsLoaded
    BY DEF PlanInv, AppliedIsLoaded
  <2> QED BY <2>3, <2>4, <2>5 DEF FailoverInv
<1>2. FailoverInv /\ [Next]_vars => FailoverInv'
  <2> SUFFICES ASSUME FailoverInv, [Next]_vars PROVE FailoverInv'
    OBVIOUS
  <2>1. CASE UNCHANGED vars
    BY <2>1 DEF vars, world, monitor, manager, FailoverInv, TypeOK, HoldInv, Holding, PlanInv,
       AppliedIsLoaded
  <2> QED BY <2>1, LoopStep, AskStep, ShowStep, LockStep, WriteStep DEF Next, Handles
<1> QED BY <1>1, <1>2, PTL DEF Spec

(* The manager, the monitor and the requests have their types. *)
THEOREM FailoverTypes == Spec => []TypeOK
BY FailoverSafe, PTL DEF FailoverInv

(* Only a check that went on without the configuration lets a second plan   *)
(* in, however many requests are under way and wherever the primary moves.  *)
THEOREM OnePlanWritten == Spec => []OnePlan
<1>1. PlanInv => OnePlan
  <2>1. CASE plans = {}
    <3>1. Cardinality(plans) = 0
      BY <2>1, FS_EmptySet
    <3> QED BY <3>1 DEF OnePlan
  <2>2. CASE \E p \in Devices : plans = {p}
    <3>1. PICK p \in Devices : plans = {p}
      BY <2>2
    <3>2. Cardinality(plans) = 1
      BY <3>1, FS_Singleton
    <3> QED BY <3>2 DEF OnePlan
  <2> QED BY <2>1, <2>2 DEF PlanInv, OnePlan
<1> QED BY <1>1, FailoverSafe, PTL DEF FailoverInv

(* A plan in the configuration is run by mwan3, or its reload is under way, *)
(* or the caller was told of an error.                                     *)
THEOREM AppliedIsRun == Spec => []AppliedIsLoaded
BY FailoverSafe, PTL DEF FailoverInv
=============================================================================

------------------------------ MODULE Delivery ------------------------------
(***************************************************************************)
(* The notification dispatcher (internal/alert/delivery.go).               *)
(*                                                                         *)
(* The alert engine and the API enqueue, one at a time and without ever    *)
(* waiting, into a bounded queue that gives up its oldest entry; Run fans  *)
(* each notification out to one such queue for each configured endpoint,   *)
(* and a worker for each endpoint sends it, retrying where that may help.  *)
(* A full queue is drained by its receiver while its sender makes room.    *)
(***************************************************************************)
EXTENDS Integers, Sequences, FiniteSets

CONSTANTS
  QueueSize,    \* DeliveryOptions.QueueSize
  Attempts,     \* how often an endpoint is tried for one notification
  Answering,    \* the endpoints whose requests are known to end
  MaxEnqueued   \* bound on the notifications

Kinds  == {"webhook", "ntfy"}
Queues == {"central"} \cup Kinds

ASSUME DeliveryAssumption ==
  /\ QueueSize \in Nat \ {0}
  /\ Attempts \in [Kinds -> Nat \ {0}]
  /\ Answering \subseteq Kinds
  /\ MaxEnqueued \in Nat

VARIABLES
  enqueued,    \* number of notifications enqueued; they are 1, 2, ...
  queues,      \* what each queue holds
  pushing,     \* the send to each queue that found it full
  configured,  \* the endpoints that have a URL
  run,         \* where Run is
  fan,         \* the notification Run fans out, and to whom it still has to go
  worker,      \* where each endpoint's worker is
  job,         \* the notification it sends
  tries,       \* how often it has been tried
  stopped,     \* the context is cancelled
  heard,       \* history: what each endpoint received last, and how often
  taken,       \* history: what each worker took last
  lost         \* history: what each queue gave up last

queueVars   == <<queues, pushing, lost>>
workerVars  == <<worker, job, tries, heard, taken>>
deliveryVars == <<enqueued, queueVars, configured, run, fan, workerVars, stopped>>

None    == 0
NoPush  == [at |-> "idle", n |-> None]
NoFan   == [n |-> None, todo |-> <<>>]

DeliveryInit ==
  /\ enqueued = 0
  /\ queues = [q \in Queues |-> <<>>]
  /\ pushing = [q \in Queues |-> NoPush]
  /\ configured \in SUBSET Kinds
  /\ run = "select" /\ fan = NoFan
  /\ worker = [k \in Kinds |-> "select"]
  /\ job = [k \in Kinds |-> None] /\ tries = [k \in Kinds |-> 0]
  /\ stopped = FALSE
  /\ heard = [k \in Kinds |-> [n |-> None, times |-> 0]]
  /\ taken = [k \in Kinds |-> None] /\ lost = [q \in Queues |-> None]

-----------------------------------------------------------------------------
(* Sending to a queue: the three selects of Enqueue and enqueueEndpoint.   *)
Room(q) == Len(queues[q]) < QueueSize
Idle(q) == pushing[q] = NoPush

Send(q, n) ==
  /\ UNCHANGED lost
  /\ \/ /\ Room(q)
        /\ queues' = [queues EXCEPT ![q] = Append(@, n)]
        /\ UNCHANGED pushing
     \/ /\ ~Room(q)
        /\ pushing' = [pushing EXCEPT ![q] = [at |-> "full", n |-> n]]
        /\ UNCHANGED queues

DropNothing(q) ==
  /\ pushing[q].at = "full"
  /\ pushing' = [pushing EXCEPT ![q].at = "retry"]
  /\ UNCHANGED <<queues, lost>>
  /\ UNCHANGED <<enqueued, configured, run, fan, workerVars, stopped>>

(* The receiver may have emptied the queue since it was full. *)
DropOldest(q) ==
  /\ pushing[q].at = "full"
  /\ pushing' = [pushing EXCEPT ![q].at = "retry"]
  /\ IF queues[q] = <<>> THEN UNCHANGED <<queues, lost>>
     ELSE /\ queues' = [queues EXCEPT ![q] = Tail(@)]
          /\ lost' = [lost EXCEPT ![q] = Head(queues[q])]
  /\ UNCHANGED <<enqueued, configured, run, fan, workerVars, stopped>>

(* A queue that is full again loses the notification itself. *)
SendAgain(q) ==
  /\ pushing[q].at = "retry"
  /\ pushing' = [pushing EXCEPT ![q] = NoPush]
  /\ LET n == pushing[q].n IN
       IF Room(q) THEN queues' = [queues EXCEPT ![q] = Append(@, n)] /\ UNCHANGED lost
       ELSE lost' = [lost EXCEPT ![q] = n] /\ UNCHANGED queues
  /\ UNCHANGED <<enqueued, configured, run, fan, workerVars, stopped>>

-----------------------------------------------------------------------------
(* Enqueue, and the settings that change the endpoints: both hold the      *)
(* mutex throughout.                                                       *)
Enqueue ==
  /\ Idle("central") /\ enqueued < MaxEnqueued
  /\ enqueued' = enqueued + 1
  /\ Send("central", enqueued')
  /\ UNCHANGED <<configured, run, fan, workerVars, stopped>>

SetEndpoints(endpoints) ==
  /\ Idle("central")
  /\ configured' = endpoints
  /\ UNCHANGED <<enqueued, queueVars, run, fan, workerVars, stopped>>

-----------------------------------------------------------------------------
(* Run, which is busy while it sends to an endpoint's queue. *)
AtSelect == run = "select" /\ \A k \in Kinds : Idle(k)

Receive ==
  /\ AtSelect /\ queues["central"] # <<>>
  /\ run' = "read"
  /\ fan' = [n |-> Head(queues["central"]), todo |-> <<>>]
  /\ queues' = [queues EXCEPT !["central"] = Tail(@)]
  /\ UNCHANGED <<enqueued, pushing, lost, configured, workerVars, stopped>>

ForwardTo(todo) ==
  /\ run' = IF todo = <<>> THEN "select" ELSE "forward"
  /\ fan' = IF todo = <<>> THEN NoFan ELSE [fan EXCEPT !.todo = todo]

(* endpoints() waits for the mutex. *)
IfConfigured(k) == IF k \in configured THEN <<k>> ELSE <<>>
ReadEndpoints ==
  /\ run = "read" /\ Idle("central")
  /\ ForwardTo(IfConfigured("webhook") \o IfConfigured("ntfy"))
  /\ UNCHANGED <<enqueued, queueVars, configured, workerVars, stopped>>

ForwardWhenTaken ==
  /\ run = "forward"
  /\ \A k \in Kinds : Idle(k)
  /\ worker[Head(fan.todo)] = "select"
  /\ Send(Head(fan.todo), fan.n)
  /\ ForwardTo(Tail(fan.todo))
  /\ UNCHANGED <<enqueued, configured, workerVars, stopped>>

Forward ==
  /\ run = "forward"
  /\ \A k \in Kinds : Idle(k)
  /\ Send(Head(fan.todo), fan.n)
  /\ ForwardTo(Tail(fan.todo))
  /\ UNCHANGED <<enqueued, configured, workerVars, stopped>>

RunStops ==
  /\ AtSelect /\ stopped
  /\ run' = "waiting"
  /\ UNCHANGED <<enqueued, queueVars, configured, fan, workerVars, stopped>>

(* workers.Wait(). *)
RunReturns ==
  /\ run = "waiting" /\ \A k \in Kinds : worker[k] = "gone"
  /\ run' = "returned"
  /\ UNCHANGED <<enqueued, queueVars, configured, fan, workerVars, stopped>>

-----------------------------------------------------------------------------
(* The worker of one endpoint. *)
Finish(k) ==
  /\ worker' = [worker EXCEPT ![k] = "select"]
  /\ job' = [job EXCEPT ![k] = None]
  /\ tries' = [tries EXCEPT ![k] = 0]

(* With the context cancelled the request fails before it is sent. *)
TakeJob(k) ==
  /\ worker[k] = "select" /\ queues[k] # <<>>
  /\ queues' = [queues EXCEPT ![k] = Tail(@)]
  /\ taken' = [taken EXCEPT ![k] = Head(queues[k])]
  /\ IF stopped THEN UNCHANGED <<worker, job>>
     ELSE /\ worker' = [worker EXCEPT ![k] = "sending"]
          /\ job' = [job EXCEPT ![k] = Head(queues[k])]
  /\ UNCHANGED <<enqueued, pushing, lost, configured, run, fan, tries, heard, stopped>>

Hears(k, got) ==
  heard' = IF ~got THEN heard
           ELSE [heard EXCEPT ![k] = [n |-> job[k],
                   times |-> IF @.n = job[k] THEN @.times + 1 ELSE 1]]

(* A 2xx, or an answer that a retry would not change. *)
Answered(k) ==
  /\ worker[k] = "sending"
  /\ Hears(k, TRUE)
  /\ Finish(k)
  /\ UNCHANGED <<enqueued, queueVars, configured, run, fan, taken, stopped>>

FailsRequeueing(k) ==
  /\ worker[k] = "sending"
  /\ \E got \in BOOLEAN : Hears(k, got)
  /\ Room(k) /\ Idle(k)
  /\ queues' = [queues EXCEPT ![k] = Append(@, job[k])]
  /\ Finish(k)
  /\ UNCHANGED <<enqueued, pushing, lost, configured, run, fan, taken, stopped>>

(* A network error, a 429 or a 5xx.  The endpoint may have received the    *)
(* request all the same.                                                   *)
Fails(k) ==
  /\ worker[k] = "sending"
  /\ \E got \in BOOLEAN : Hears(k, got)
  /\ IF tries[k] + 1 < Attempts[k]
     THEN /\ tries' = [tries EXCEPT ![k] = @ + 1]
          /\ worker' = [worker EXCEPT ![k] = "sleeping"]
          /\ UNCHANGED job
     ELSE Finish(k)
  /\ UNCHANGED <<enqueued, queueVars, configured, run, fan, taken, stopped>>

Wakes(k) ==
  /\ worker[k] = "sleeping"
  /\ worker' = [worker EXCEPT ![k] = "sending"]
  /\ UNCHANGED <<enqueued, queueVars, configured, run, fan, job, tries, heard, taken, stopped>>

CancelledBetweenTries(k) ==
  /\ stopped /\ worker[k] = "sleeping"
  /\ Finish(k)
  /\ UNCHANGED <<enqueued, queueVars, configured, run, fan, heard, taken, stopped>>

(* The cancelled context ends the request, or the wait before the next. *)
Cancelled(k) ==
  /\ stopped /\ worker[k] \in {"sending", "sleeping"}
  /\ Finish(k)
  /\ UNCHANGED <<enqueued, queueVars, configured, run, fan, heard, taken, stopped>>

WorkerStops(k) ==
  /\ worker[k] = "select" /\ stopped
  /\ worker' = [worker EXCEPT ![k] = "gone"]
  /\ UNCHANGED <<enqueued, queueVars, configured, run, fan, job, tries, heard, taken, stopped>>

Stop ==
  /\ ~stopped
  /\ stopped' = TRUE
  /\ UNCHANGED <<enqueued, queueVars, configured, run, fan, workerVars>>

-----------------------------------------------------------------------------
Pushes(q) == DropOldest(q) \/ SendAgain(q)

RunStep ==
  \/ Receive
  \/ ReadEndpoints
  \/ Forward
  \/ RunReturns

Request(k) == Answered(k) \/ Fails(k)

DeliveryNext ==
  \/ Enqueue
  \/ \E endpoints \in SUBSET Kinds : SetEndpoints(endpoints)
  \/ \E q \in Queues : Pushes(q)
  \/ RunStep
  \/ RunStops
  \/ \E k \in Kinds :
       \/ TakeJob(k)
       \/ Request(k)
       \/ Wakes(k)
       \/ Cancelled(k)
       \/ WorkerStops(k)
  \/ Stop

(* Goroutines that can run do, a select does not pass a ready case over    *)
(* for ever, and a cancelled request returns.  Only the endpoints of       *)
(* Answering are trusted to end a request themselves.                      *)
DeliveryFairness ==
  /\ \A q \in Queues : WF_deliveryVars(Pushes(q))
  /\ WF_deliveryVars(RunStep) /\ SF_deliveryVars(RunStops)
  /\ \A k \in Kinds : /\ WF_deliveryVars(TakeJob(k)) /\ WF_deliveryVars(Wakes(k))
                      /\ WF_deliveryVars(Cancelled(k)) /\ WF_deliveryVars(WorkerStops(k))
  /\ \A k \in Answering : WF_deliveryVars(Request(k))

DeliverySpec == DeliveryInit /\ [][DeliveryNext]_deliveryVars /\ DeliveryFairness

-----------------------------------------------------------------------------
(* An endpoint hears notifications in the order they were raised, so that a *)
(* resolve never precedes its firing, and one of them at most as often as   *)
(* it may be tried: what is dropped or retried leaves the order alone.      *)
HeardInOrder ==
  [][\A k \in Kinds :
       heard'[k].n >= heard[k].n /\ heard'[k].times <= Attempts[k]]_deliveryVars

(* A full queue gives up an older notification for the newest, although its *)
(* receiver takes from it meanwhile: the newest is never the one lost.      *)
NewestIsKept ==
  /\ lost["central"] # None => lost["central"] < enqueued
  /\ \A k \in Kinds : lost[k] # None =>
       \E m \in {taken[k], pushing[k].n} \cup {queues[k][i] : i \in 1 .. Len(queues[k])} :
         m > lost[k]

Waits(n) ==
  \/ \E i \in 1 .. Len(queues["central"]) : queues["central"][i] = n
  \/ pushing["central"].n = n

(* README.md: the two endpoints use independent queues.  The newest         *)
(* notification reaches an endpoint that answers, even when requests to the *)
(* other never end, unless the endpoint is removed or the daemon stops.     *)
EndpointsAreIndependent ==
  \A k \in Answering : \A n \in 1 .. MaxEnqueued :
    (Waits(n) /\ enqueued = n /\ k \in configured)
      ~> (taken[k] = n \/ enqueued > n \/ k \notin configured \/ stopped)

(* Run returns once the daemon stops, whatever the endpoints do. *)
StopReturns == stopped ~> run = "returned"
=============================================================================

------------------------------ MODULE EventBus ------------------------------
(***************************************************************************)
(* The event bus (internal/event/bus.go), the handlers of GET /api/ws that *)
(* subscribe to it and the shutdown that waits for them                    *)
(* (internal/api/server.go, websocket and Close).                          *)
(*                                                                         *)
(* Publish runs in the evaluation loop and in the API handlers; it holds   *)
(* the mutex and must not wait for a client, so a subscriber whose buffer  *)
(* is full is dropped and its channel closed.  A handler takes an event    *)
(* and writes it to the connection, which takes time; the subscription may *)
(* be dropped meanwhile.  It leaves on a write error, on a closed channel, *)
(* when the client is gone and when the server shuts down, and cancels its *)
(* subscription, dropped or not.                                           *)
(***************************************************************************)
EXTENDS Integers, Sequences, FiniteSets

CONSTANTS
  Clients,      \* the connections
  Buffer,       \* Deps.WSBuffer
  MaxPublished  \* bound on the events published

ASSUME BusAssumption ==
  /\ IsFiniteSet(Clients)
  /\ Buffer \in Int /\ MaxPublished \in Nat

VARIABLES
  published,   \* number of events published; the events are 1, 2, ...
  subscribers, \* Bus.subscribers
  channel,     \* what the channel of each connection holds
  closes,      \* history: how often each channel was closed
  pc,          \* where each handler is
  writing,     \* the event a handler is writing
  sent,        \* history: the events written to each connection
  joined,      \* history: what had been published when it subscribed
  closed,      \* server.closed, and its context is cancelled
  wsDone,      \* the WaitGroup Close waits for
  waited       \* Close has returned

busVars     == <<published, subscribers, channel, closes>>
handlerVars == <<pc, writing, sent, joined>>
closeVars   == <<closed, waited>>
serverVars  == <<closeVars, wsDone>>
vars == <<busVars, handlerVars, serverVars>>

Never    == -1
NoEvent  == 0
Capacity == IF Buffer < 1 THEN 1 ELSE Buffer

(* A handler holds wsDone from its admission until it is done. *)
Admitted == {"accepted", "streaming", "writing", "failing", "leaving", "cancelled"}

Init ==
  /\ published = 0 /\ subscribers = {}
  /\ channel = [c \in Clients |-> <<>>]
  /\ closes = [c \in Clients |-> 0]
  /\ pc = [c \in Clients |-> "new"]
  /\ writing = [c \in Clients |-> NoEvent]
  /\ sent = [c \in Clients |-> <<>>]
  /\ joined = [c \in Clients |-> Never]
  /\ closed = FALSE /\ waited = FALSE /\ wsDone = 0

-----------------------------------------------------------------------------
(* The bus; each operation holds its mutex throughout. *)
Full(c) == Len(channel[c]) >= Capacity

PublishDroppingEvent ==
  /\ published < MaxPublished
  /\ published' = published + 1
  /\ channel' = [c \in Clients |->
       IF c \in subscribers /\ ~Full(c) THEN Append(channel[c], published') ELSE channel[c]]
  /\ UNCHANGED <<subscribers, closes, handlerVars, serverVars>>

Publish ==
  /\ published < MaxPublished
  /\ published' = published + 1
  /\ LET slow == {c \in subscribers : Full(c)} IN
       /\ channel' = [c \in Clients |->
            IF c \in subscribers \ slow THEN Append(channel[c], published') ELSE channel[c]]
       /\ subscribers' = subscribers \ slow
       /\ closes' = [c \in Clients |-> IF c \in slow THEN closes[c] + 1 ELSE closes[c]]
  /\ UNCHANGED <<handlerVars, serverVars>>

-----------------------------------------------------------------------------
(* The handler of one connection. *)
AdmitUnchecked(c) ==
  /\ pc[c] = "new"
  /\ wsDone' = wsDone + 1
  /\ pc' = [pc EXCEPT ![c] = "accepted"]
  /\ UNCHANGED <<busVars, writing, sent, joined, closeVars>>

Admit(c) ==
  /\ pc[c] = "new" /\ ~closed
  /\ wsDone' = wsDone + 1
  /\ pc' = [pc EXCEPT ![c] = "accepted"]
  /\ UNCHANGED <<busVars, writing, sent, joined, closeVars>>

Refuse(c) ==
  /\ pc[c] = "new" /\ closed
  /\ pc' = [pc EXCEPT ![c] = "done"]
  /\ UNCHANGED <<busVars, writing, sent, joined, serverVars>>

HandshakeFailsForgettingDone(c) ==
  /\ pc[c] = "accepted"
  /\ pc' = [pc EXCEPT ![c] = "done"]
  /\ UNCHANGED <<busVars, writing, sent, joined, serverVars>>

(* websocket.Accept fails; the deferred Done is not in place yet. *)
HandshakeFails(c) ==
  /\ pc[c] = "accepted"
  /\ pc' = [pc EXCEPT ![c] = "done"]
  /\ wsDone' = wsDone - 1
  /\ UNCHANGED <<busVars, writing, sent, joined, closeVars>>

Subscribe(c) ==
  /\ pc[c] = "accepted"
  /\ pc' = [pc EXCEPT ![c] = "streaming"]
  /\ subscribers' = subscribers \cup {c}
  /\ joined' = [joined EXCEPT ![c] = published]
  /\ UNCHANGED <<published, channel, closes, writing, sent, serverVars>>

(* The context of the write is the server's: once that is cancelled, a new *)
(* write cannot succeed, while one under way may still.                    *)
Take(c) ==
  /\ pc[c] = "streaming" /\ channel[c] # <<>>
  /\ pc' = [pc EXCEPT ![c] = IF closed THEN "failing" ELSE "writing"]
  /\ writing' = [writing EXCEPT ![c] = Head(channel[c])]
  /\ channel' = [channel EXCEPT ![c] = Tail(@)]
  /\ UNCHANGED <<published, subscribers, closes, sent, joined, serverVars>>

WriteSucceeds(c) ==
  /\ pc[c] = "writing"
  /\ pc' = [pc EXCEPT ![c] = "streaming"]
  /\ sent' = [sent EXCEPT ![c] = Append(@, writing[c])]
  /\ writing' = [writing EXCEPT ![c] = NoEvent]
  /\ UNCHANGED <<busVars, joined, serverVars>>

(* The connection broke, the write timed out or the server is closing. *)
WriteFails(c) ==
  /\ pc[c] \in {"writing", "failing"}
  /\ pc' = [pc EXCEPT ![c] = "leaving"]
  /\ writing' = [writing EXCEPT ![c] = NoEvent]
  /\ UNCHANGED <<busVars, sent, joined, serverVars>>

(* "client too slow": the channel was closed and what it held is written. *)
TooSlow(c) ==
  /\ pc[c] = "streaming" /\ channel[c] = <<>> /\ closes[c] > 0
  /\ pc' = [pc EXCEPT ![c] = "leaving"]
  /\ UNCHANGED <<busVars, writing, sent, joined, serverVars>>

GoingAway(c) ==
  /\ pc[c] = "streaming" /\ closed
  /\ pc' = [pc EXCEPT ![c] = "leaving"]
  /\ UNCHANGED <<busVars, writing, sent, joined, serverVars>>

(* The client closed the connection, or a status frame could not be sent. *)
ClientGone(c) ==
  /\ pc[c] = "streaming"
  /\ pc' = [pc EXCEPT ![c] = "leaving"]
  /\ UNCHANGED <<busVars, writing, sent, joined, serverVars>>

CancelUnchecked(c) ==
  /\ pc[c] = "leaving"
  /\ pc' = [pc EXCEPT ![c] = "cancelled"]
  /\ subscribers' = subscribers \ {c}
  /\ closes' = [closes EXCEPT ![c] = @ + 1]
  /\ UNCHANGED <<published, channel, writing, sent, joined, serverVars>>

(* The deferred cancel: the channel is closed unless Publish did already. *)
Cancel(c) ==
  /\ pc[c] = "leaving"
  /\ pc' = [pc EXCEPT ![c] = "cancelled"]
  /\ subscribers' = subscribers \ {c}
  /\ closes' = [closes EXCEPT ![c] = IF c \in subscribers THEN @ + 1 ELSE @]
  /\ UNCHANGED <<published, channel, writing, sent, joined, serverVars>>

Done(c) ==
  /\ pc[c] = "cancelled"
  /\ pc' = [pc EXCEPT ![c] = "done"]
  /\ wsDone' = wsDone - 1
  /\ UNCHANGED <<busVars, writing, sent, joined, closeVars>>

-----------------------------------------------------------------------------
(* server.Close: no handler is admitted any more, and those that were are  *)
(* waited for.                                                             *)
Close ==
  /\ ~closed
  /\ closed' = TRUE
  /\ UNCHANGED <<busVars, handlerVars, wsDone, waited>>

CloseReturns ==
  /\ closed /\ ~waited
  /\ wsDone = 0
  /\ waited' = TRUE
  /\ UNCHANGED <<busVars, handlerVars, wsDone, closed>>

Handler(c) ==
  \/ Subscribe(c)
  \/ Take(c)
  \/ WriteSucceeds(c)
  \/ WriteFails(c)
  \/ TooSlow(c)
  \/ GoingAway(c)
  \/ Cancel(c)
  \/ Done(c)

Next ==
  \/ Publish
  \/ \E c \in Clients :
       \/ Admit(c)
       \/ Refuse(c)
       \/ HandshakeFails(c)
       \/ Handler(c)
       \/ ClientGone(c)
  \/ Close
  \/ CloseReturns

(* The runtime schedules every goroutine that can run, and a write ends    *)
(* with its timeout at the latest.  Nothing obliges anyone to connect, to  *)
(* publish or to close.                                                    *)
Fairness ==
  /\ \A c \in Clients : WF_vars(Handler(c))
  /\ WF_vars(CloseReturns)

Spec == Init /\ [][Next]_vars /\ Fairness

-----------------------------------------------------------------------------
(* Types. *)
TypeOK ==
  /\ published \in Nat
  /\ subscribers \subseteq Clients
  /\ channel \in [Clients -> Seq(Nat)]
  /\ closes \in [Clients -> Nat]
  /\ pc \in [Clients -> {"new", "done"} \cup Admitted]
  /\ writing \in [Clients -> Nat]
  /\ sent \in [Clients -> Seq(Nat)]
  /\ joined \in [Clients -> Nat \cup {Never}]
  /\ closed \in BOOLEAN /\ waited \in BOOLEAN /\ wsDone \in Nat

(* Closing a closed channel panics, and so does sending on one.  Publish    *)
(* and the deferred cancel can both find the same subscriber to drop: each  *)
(* channel is closed at most once, and no subscriber's channel is closed.   *)
ChannelsAreSafe ==
  \A c \in Clients : closes[c] <= 1 /\ (c \in subscribers => closes[c] = 0)

(* Close returns only when every handler is gone: none outlives the server, *)
(* and none is admitted while Close waits.                                  *)
CloseWaits == waited => \A c \in Clients : pc[c] \notin Admitted

(* Close always returns, however many events wait to be written and however *)
(* slow the clients are.                                                    *)
CloseTerminates == closed ~> waited

(* The feed every client sees is the one EventFeed promises. *)
Feed == INSTANCE EventFeed WITH
  heard <- sent,
  over  <- {c \in Clients : pc[c] \in {"leaving", "cancelled", "done"}}

FeedIsWhole == Feed!Spec
=============================================================================

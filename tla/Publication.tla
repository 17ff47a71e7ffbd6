----------------------------- MODULE Publication -----------------------------
(***************************************************************************)
(* What Apply (cmd/starwatchd/main.go) does to the running dish poller     *)
(* (internal/dish/poller.go): SetLocationEnabled against a poll of the     *)
(* location in flight, and SetMapInterval's channel against the loop that  *)
(* reads it, for updates that are published at the same time.              *)
(***************************************************************************)
EXTENDS Settings

ASSUME PublicationAssumption == {"location_enabled", "poll_map"} \subseteq Options

VARIABLES
  location,      \* Snapshot.Location is there
  availability,  \* FieldAvailability[location]: "unknown", "yes" or "no"
  poll,          \* pollLocation: "idle", "asking" the dish, "answered"
  channel,       \* Poller.mapInterval, a channel of capacity one
  ticker,        \* the interval the map's ticker runs with
  stores         \* history: locations stored since it was last disabled

pollerVars == <<location, availability, poll, channel, ticker, stores>>
publicationVars == <<vars, pollerVars>>

Enabled == applied["location_enabled"] = 1

StartsPolling(config) ==
  /\ location' = FALSE /\ availability' = "unknown" /\ poll' = "idle"
  /\ channel' = <<>> /\ ticker' = config["poll_map"]
  /\ stores' = 0

PublicationInit ==
  /\ Init
  /\ location = FALSE /\ availability = "unknown" /\ poll = "idle"
  /\ channel = <<>> /\ ticker = Initial["poll_map"]
  /\ stores = 0

-----------------------------------------------------------------------------
AtSetter(r, options) ==
  request[r].at = "apply" /\ request[r].todo # <<>> /\ Head(request[r].todo) \in options

SetLocationEnabled(r) ==
  /\ AtSetter(r, {"location_enabled"})
  /\ Applies(r)
  /\ IF request[r].new["location_enabled"] = 1
     THEN UNCHANGED <<location, availability>> /\ stores' = 0
     ELSE location' = FALSE /\ availability' = "unknown" /\ UNCHANGED stores
  /\ UNCHANGED <<poll, channel, ticker>>

(* The value goes into the empty channel; a full one is drained first, and  *)
(* the second send waits for room.                                         *)
SetMapInterval(r) ==
  /\ AtSetter(r, {"poll_map"}) \/ request[r].at = "send"
  /\ channel = <<>>
  /\ Applies(r)
  /\ channel' = <<request[r].new["poll_map"]>>
  /\ UNCHANGED <<location, availability, poll, ticker, stores>>

FindsFull(r) ==
  /\ AtSetter(r, {"poll_map"}) /\ channel # <<>>
  /\ Goes(r, "drain")
  /\ UNCHANGED <<managerVars, applied, writes, doubtful, overlap, pollerVars>>

(* The drain without its default case. *)
DrainWaiting(r) ==
  /\ request[r].at = "drain" /\ channel # <<>>
  /\ channel' = <<>>
  /\ Goes(r, "send")
  /\ UNCHANGED <<managerVars, applied, writes, doubtful, overlap, location,
                 availability, poll, ticker, stores>>

(* The new value is dropped when the channel is full. *)
DrainKeeping(r) ==
  /\ request[r].at = "drain"
  /\ request' = [request EXCEPT ![r].at = "apply", ![r].todo = Tail(@)]
  /\ UNCHANGED <<managerVars, applied, writes, doubtful, overlap, pollerVars>>

Drain(r) ==
  /\ request[r].at = "drain"
  /\ channel' = <<>>
  /\ Goes(r, "send")
  /\ UNCHANGED <<managerVars, applied, writes, doubtful, overlap, location,
                 availability, poll, ticker, stores>>

OtherSetter(r) ==
  /\ AtSetter(r, Live \ {"location_enabled", "poll_map"})
  /\ Applies(r)
  /\ UNCHANGED pollerVars

-----------------------------------------------------------------------------
(* The poller's loop runs one of its polls or receives a new interval. *)
ReceiveInterval ==
  /\ running /\ poll = "idle" /\ channel # <<>>
  /\ ticker' = Head(channel) /\ channel' = <<>>
  /\ UNCHANGED <<vars, location, availability, poll, stores>>

(* The option is not looked at before the call. *)
AskLocationAlways ==
  /\ running /\ poll = "idle"
  /\ poll' = "asking"
  /\ UNCHANGED <<vars, location, availability, channel, ticker, stores>>

AskLocation ==
  /\ running /\ poll = "idle" /\ Enabled
  /\ poll' = "asking"
  /\ UNCHANGED <<vars, location, availability, channel, ticker, stores>>

LocationAnswered ==
  /\ poll = "asking"
  /\ poll' = "answered" /\ availability' = "yes"
  /\ UNCHANGED <<vars, location, channel, ticker, stores>>

(* The answer is stored without another look at the option. *)
StoreLocation ==
  /\ poll = "answered"
  /\ poll' = "idle" /\ location' = TRUE
  /\ stores' = IF Enabled THEN 0 ELSE stores + 1
  /\ UNCHANGED <<vars, availability, channel, ticker>>

(* Denied and unavailable count at once, other errors from the third on. *)
LocationFails ==
  /\ poll = "asking"
  /\ poll' = "idle"
  /\ availability' \in {availability, "no"}
  /\ UNCHANGED <<vars, location, channel, ticker, stores>>

RestartPoller ==
  /\ Restart
  /\ StartsPolling(memory')

Manages(r) ==
  /\ (\E patch \in Patches : Update(r, patch)) \/ RegenerateToken(r) \/ Writes(r) \/ Returns(r)
  /\ UNCHANGED pollerVars

Sets(r) == SetLocationEnabled(r) \/ SetMapInterval(r) \/ FindsFull(r) \/ Drain(r) \/ OtherSetter(r)

FinishesPoll == LocationAnswered \/ LocationFails \/ StoreLocation

PublicationNext ==
  \/ \E r \in Requests : Manages(r) \/ Sets(r)
  \/ ReceiveInterval \/ AskLocation \/ FinishesPoll
  \/ RestartPoller

(* Every call to the dish has a timeout, and Go hands a value received to a *)
(* waiting sender first; the loop's select does not starve a ready case.    *)
Fairness ==
  /\ WF_publicationVars(FinishesPoll) /\ SF_publicationVars(ReceiveInterval)
  /\ \A r \in Requests :
       /\ SF_publicationVars(Sets(r))
       /\ WF_publicationVars((Writes(r) \/ Returns(r)) /\ UNCHANGED pollerVars)

PublicationSpec == PublicationInit /\ [][PublicationNext]_publicationVars /\ Fairness

-----------------------------------------------------------------------------
PublicationTypeOK ==
  /\ TypeOK
  /\ location \in BOOLEAN /\ stores \in Nat
  /\ availability \in {"unknown", "yes", "no"}
  /\ poll \in {"idle", "asking", "answered"}
  /\ channel \in Seq(Nat) /\ Len(channel) <= 1
  /\ ticker \in Nat

(* Once no update is being published, the poller, the monitor, the engine,  *)
(* the dispatcher and the store work with the settings the manager holds,   *)
(* unless two publications overlapped, and the last map interval published  *)
(* is on its way to the ticker or has reached it.                           *)
AppliedIsStored ==
  (running /\ \A r \in Requests : ~Publishing(r)) =>
    /\ ~overlap => \A o \in Live : applied[o] = memory[o]
    /\ applied["poll_map"] = IF channel = <<>> THEN ticker ELSE Head(channel)

(* Once the location is disabled the poller stores one more at most, the    *)
(* answer to a call that was under way, until it is enabled again; and a   *)
(* location that is shown while disabled is that one.  That nothing is      *)
(* shown, as the design promises, is not so.                               *)
LocationStops ==
  ~Enabled => stores <= 1 /\ (location => stores = 1)

(* Every update that was accepted returns: no publisher waits for ever on   *)
(* the channel another one filled.                                          *)
UpdateReturns == \A r \in Requests : Publishing(r) ~> ~Publishing(r)
=============================================================================

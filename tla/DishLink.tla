------------------------------ MODULE DishLink ------------------------------
(***************************************************************************)
(* The daemon's link to the dish: the host route that a VPN displaces      *)
(* (internal/dishroute/manager.go), the poller's loop that discovers the   *)
(* dish, finds it lost and finds it again (internal/dish/poller.go), and   *)
(* the copies of the dish's obstruction map and configuration that the     *)
(* loop, the API and the controls refresh (controls.go,                    *)
(* internal/api/obstruction.go).  What the polls record is in              *)
(* OutageTimeline, the location in Publication.                            *)
(***************************************************************************)
EXTENDS Naturals, Sequences

CONSTANTS
  Devices,     \* network devices the WAN can be on
  None,        \* no device: the WAN is down or its gateway not on-link
  Requests,    \* API requests that can be in progress at once
  MaxChanges,  \* bound on the changes outside the daemon
  MaxWrites,   \* bound on the writes to the dish
  MaxFailures  \* bound on the failing commands and lost answers

ASSUME LinkAssumption ==
  /\ Devices # {} /\ None \notin Devices
  /\ {MaxChanges, MaxWrites, MaxFailures} \subseteq Nat

VARIABLES
  link,      \* whether the dish is powered and answers
  wan,       \* the WAN's device, as netifd knows it
  vpn,       \* whether the default route leads elsewhere
  routes,    \* the devices of the host routes to the dish
  device,    \* the dish's map and configuration, as versions
  topology, reachable, known,  \* Poller.snapshot: Topology, DishReachable, DeviceInfo # nil
  failures,  \* Poller.failures of the device info and the status
  copy,      \* Poller.snapshot.ObstructionMap and Config, 0: nil
  todo,      \* the calls the loop has still to make
  desired,   \* the device Manager.Ensure derived last, at first any
  asking,    \* what each caller has fetched and not stored, 0: nothing
  request,   \* how far each request is
  changes, failed,
  cleared,   \* history: the map's version when a clear was last accepted
  behind,    \* history: the callers that had fetched when it was
  excused    \* history: whether one of those stored the map

outside == <<link, wan, vpn, device, changes>>
poller == <<topology, reachable, known, failures>>
audit == <<cleared, behind, excused>>
vars == <<outside, routes, poller, copy, todo, desired, asking, request, failed, audit>>

Loop == "loop"
Callers == {Loop} \cup Requests
Copies == {"map", "config"}
Nothing == [what |-> "map", version |-> 0]
Discovery == <<"discover_or_stop", "status", "config", "map">>

Init ==
  /\ link \in BOOLEAN /\ wan \in Devices \cup {None} /\ vpn \in BOOLEAN
  /\ routes \in {{}} \cup {{d} : d \in Devices}
  /\ device = [c \in Copies |-> 1]
  /\ topology = "wan_only" /\ reachable = FALSE /\ known = FALSE
  /\ failures = [info |-> 0, status |-> 0]
  /\ copy = [c \in Copies |-> 0]
  /\ todo = <<"ensure">> \o Discovery /\ desired = CHOOSE d \in Devices : TRUE
  /\ asking = [c \in Callers |-> Nothing]
  /\ request = [r \in Requests |-> "idle"]
  /\ changes = 0 /\ failed = 0
  /\ cleared = 0 /\ behind = {} /\ excused = FALSE

(* The dish answers where the only route to it is the WAN's. *)
Answers == link /\ wan # None /\ (routes = {wan} \/ (routes = {} /\ ~vpn))

-----------------------------------------------------------------------------
Changes ==
  /\ changes < MaxChanges /\ changes' = changes + 1
  /\ UNCHANGED <<device, poller, copy, todo, desired, asking, request, failed, audit>>
LinkChanges == Changes /\ link' = ~link /\ UNCHANGED <<wan, vpn, routes>>
WANMoves == Changes /\ (\E d \in Devices \cup {None} : d # wan /\ wan' = d)
            /\ UNCHANGED <<link, vpn, routes>>
VPNChanges ==
  Changes /\ vpn' = ~vpn /\ (\E r \in SUBSET Devices : routes' = r) /\ UNCHANGED <<link, wan>>

-----------------------------------------------------------------------------
(* Manager.Ensure, one command at a time: it derives the route, looks, and  *)
(* flushes what is there before it adds its own.  A look that fails finds   *)
(* nothing there.                                                          *)
Fails == failed < MaxFailures /\ failed' = failed + 1
RouteMatches(d) == routes = {d}
Ensure ==
  /\ todo # <<>> /\ Head(todo) = "ensure"
  /\ \/ /\ wan # None /\ RouteMatches(wan) /\ todo' = Tail(todo) /\ UNCHANGED <<desired, failed>>
     \/ /\ wan # None /\ ~RouteMatches(wan) /\ desired' = wan
        /\ todo' = (IF routes = {} THEN <<"replace">> ELSE <<"flush", "replace">>) \o Tail(todo)
        /\ UNCHANGED failed
     \/ wan # None /\ Fails /\ desired' = wan /\ todo' = <<"replace">> \o Tail(todo)
     \/ wan = None /\ todo' = Tail(todo) /\ UNCHANGED <<desired, failed>>
     \/ Fails /\ todo' = Tail(todo) /\ UNCHANGED desired
  /\ UNCHANGED <<outside, routes, poller, copy, asking, request, audit>>

FlushRoutes ==
  /\ todo # <<>> /\ Head(todo) = "flush"
  /\ \/ routes' = {} /\ todo' = Tail(todo) /\ UNCHANGED failed
     \/ Fails /\ todo' = SubSeq(todo, 3, Len(todo)) /\ UNCHANGED routes
  /\ UNCHANGED <<outside, poller, copy, desired, asking, request, audit>>

ReplaceRoute ==
  /\ todo # <<>> /\ Head(todo) = "replace"
  /\ \/ routes' = routes \cup {desired} /\ UNCHANGED failed
     \/ Fails /\ UNCHANGED routes
  /\ todo' = Tail(todo)
  /\ UNCHANGED <<outside, poller, copy, desired, asking, request, audit>>

-----------------------------------------------------------------------------
(* The loop's ticks: all but the retry only with the dish there.  (The      *)
(* ticks of the history change nothing here.)                              *)
Idle == todo = <<>> /\ asking[Loop] = Nothing
Ticks(calls) ==
  /\ Idle /\ todo' = calls
  /\ UNCHANGED <<outside, routes, poller, copy, desired, asking, request, failed, audit>>
StatusTick == topology = "full" /\ Ticks(<<"status">>)
MetadataTick == topology = "full" /\ Ticks(<<"discover", "config">>)
MapTick == topology = "full" /\ Ticks(<<"map">>)
RetryTickWithoutRoute == topology = "wan_only" /\ Ticks(Discovery)
RetryTick == topology = "wan_only" /\ Ticks(<<"ensure">> \o Discovery)

(* A call of the loop, answered or not. *)
Counted(n) == IF n < 3 THEN n + 1 ELSE 3
Lost(field) == (field = "info" /\ ~known) \/ Counted(failures[field]) >= 3
Hears(field) ==
  \/ /\ Answers /\ failures' = [failures EXCEPT ![field] = 0]
     /\ topology' = "full" /\ reachable' = TRUE
     /\ known' = (known \/ field = "info") /\ UNCHANGED failed
  \/ /\ IF Answers THEN Fails ELSE UNCHANGED failed
     /\ failures' = [failures EXCEPT ![field] = Counted(@)]
     /\ topology' = IF Lost(field) THEN "wan_only" ELSE topology
     /\ reachable' = FALSE /\ UNCHANGED known

Discover ==
  /\ todo # <<>> /\ Head(todo) \in {"discover", "discover_or_stop"}
  /\ Hears("info")
  /\ todo' = IF failures'["info"] = 0 \/ Head(todo) = "discover" THEN Tail(todo) ELSE <<>>
  /\ UNCHANGED <<outside, routes, copy, desired, asking, request, audit>>
PollStatus ==
  /\ todo # <<>> /\ Head(todo) = "status"
  /\ Hears("status")
  /\ todo' = Tail(todo)
  /\ UNCHANGED <<outside, routes, copy, desired, asking, request, audit>>

(* RefreshObstructionMap and RefreshConfig: the call, and the store when it *)
(* was answered.                                                           *)
Asks(c, what) ==
  \/ Answers /\ asking' = [asking EXCEPT ![c] = [what |-> what, version |-> device[what]]]
     /\ UNCHANGED failed
  \/ (IF Answers THEN Fails ELSE UNCHANGED failed) /\ UNCHANGED asking
Stores(c) ==
  LET got == asking[c] IN
  /\ got # Nothing
  /\ copy' = [copy EXCEPT ![got.what] = got.version]
  /\ asking' = [asking EXCEPT ![c] = Nothing]
  /\ excused' = IF got.what = "map" THEN c \in behind ELSE excused
  /\ behind' = behind \ {c}
  /\ UNCHANGED cleared

LoopAsks ==
  /\ todo # <<>> /\ Head(todo) \in Copies /\ asking[Loop] = Nothing
  /\ Asks(Loop, Head(todo))
  /\ todo' = Tail(todo)
  /\ UNCHANGED <<outside, routes, poller, copy, desired, request, audit>>
LoopStores ==
  /\ Stores(Loop)
  /\ UNCHANGED <<outside, routes, poller, todo, desired, request, failed>>

-----------------------------------------------------------------------------
(* The API: the map is fetched when the copy is missing or old; a clear     *)
(* drops the copy; a setting is written and read back.                     *)
Goes(r, at) == request' = [request EXCEPT ![r] = at]
Begins(r) ==
  /\ request[r] = "idle"
  /\ \/ topology = "full" /\ reachable /\ Goes(r, "fetch")
     \/ Goes(r, "clear")
     \/ Goes(r, "set")
  /\ UNCHANGED <<outside, routes, poller, copy, todo, desired, asking, failed, audit>>

Writes(what) ==
  /\ Answers /\ device["map"] + device["config"] < MaxWrites + 2
  /\ device' = [device EXCEPT ![what] = @ + 1]
  /\ UNCHANGED <<link, wan, vpn, changes>>
Invalidate == copy' = [copy EXCEPT !["map"] = 0]
Accepted ==
  /\ cleared' = device'["map"] /\ excused' = FALSE
  /\ behind' = {c \in Callers : asking[c] # Nothing /\ asking[c].what = "map"}
ClearsAfterwards(r) ==
  /\ \/ request[r] = "clear" /\ Invalidate /\ Goes(r, "invalidate") /\ UNCHANGED <<outside, audit>>
     \/ request[r] = "invalidate" /\ Writes("map") /\ Accepted /\ Goes(r, "idle") /\ UNCHANGED copy
  /\ UNCHANGED <<routes, poller, todo, desired, asking, failed>>
Clears(r) ==
  /\ \/ /\ request[r] = "clear"
        /\ \/ Writes("map") /\ Goes(r, "invalidate") /\ UNCHANGED failed
           \/ Fails /\ (Writes("map") \/ UNCHANGED outside) /\ Goes(r, "idle")
           \/ ~Answers /\ Goes(r, "idle") /\ UNCHANGED <<outside, failed>>
        /\ UNCHANGED <<copy, audit>>
     \/ request[r] = "invalidate" /\ UNCHANGED <<outside, failed>>
        /\ Invalidate /\ Accepted /\ Goes(r, "idle")
  /\ UNCHANGED <<routes, poller, todo, desired, asking>>

WriteConfig(r) ==
  /\ request[r] = "set"
  /\ \/ Writes("config") /\ Goes(r, "readback") /\ UNCHANGED failed
     \/ Fails /\ (Writes("config") \/ UNCHANGED outside) /\ Goes(r, "idle")
     \/ ~Answers /\ Goes(r, "idle") /\ UNCHANGED <<outside, failed>>
  /\ UNCHANGED <<routes, poller, copy, todo, desired, asking, audit>>

RequestAsks(r) ==
  /\ request[r] \in {"fetch", "readback"}
  /\ Asks(r, IF request[r] = "fetch" THEN "map" ELSE "config")
  /\ Goes(r, IF asking'[r] = Nothing THEN "idle" ELSE "store")
  /\ UNCHANGED <<outside, routes, poller, copy, todo, desired, audit>>
RequestStores(r) ==
  /\ request[r] = "store" /\ Stores(r) /\ Goes(r, "idle")
  /\ UNCHANGED <<outside, routes, poller, todo, desired, failed>>

-----------------------------------------------------------------------------
Calls == Ensure \/ FlushRoutes \/ ReplaceRoute \/ Discover \/ PollStatus \/ LoopAsks \/ LoopStores
Handles(r) == Clears(r) \/ WriteConfig(r) \/ RequestAsks(r) \/ RequestStores(r)
Next ==
  \/ LinkChanges \/ WANMoves \/ VPNChanges
  \/ StatusTick \/ MetadataTick \/ MapTick \/ RetryTick
  \/ Calls
  \/ \E r \in Requests : Begins(r) \/ Handles(r)

(* A call returns, with its answer or at its timeout; the loop's select     *)
(* takes at random among the ticks that are due, so none is passed over for *)
(* ever.                                                                   *)
Fairness ==
  /\ WF_vars(Calls)
  /\ \A r \in Requests : WF_vars(Handles(r))
  /\ SF_vars(StatusTick) /\ SF_vars(MetadataTick) /\ SF_vars(MapTick) /\ SF_vars(RetryTick)
Spec == Init /\ [][Next]_vars /\ Fairness

-----------------------------------------------------------------------------
CallNames == {"ensure", "flush", "replace", "discover", "discover_or_stop", "status"} \cup Copies
TypeOK ==
  /\ link \in BOOLEAN /\ wan \in Devices \cup {None} /\ vpn \in BOOLEAN
  /\ routes \subseteq Devices /\ desired \in Devices
  /\ device \in [Copies -> 1 .. MaxWrites + 1] /\ copy \in [Copies -> 0 .. MaxWrites + 1]
  /\ topology \in {"wan_only", "full"} /\ reachable \in BOOLEAN /\ known \in BOOLEAN
  /\ failures \in [{"info", "status"} -> 0 .. 3]
  /\ todo \in Seq(CallNames)
  /\ asking \in [Callers -> [what : Copies, version : 0 .. MaxWrites + 1]]
  /\ request \in [Requests -> {"idle", "fetch", "clear", "invalidate", "set", "readback", "store"}]
  /\ changes \in 0 .. MaxChanges /\ failed \in 0 .. MaxFailures
  /\ cleared \in 0 .. MaxWrites + 1 /\ behind \subseteq Callers /\ excused \in BOOLEAN

(* After an accepted clear the map from before it is not shown again, but   *)
(* by a fetch that the dish had already answered when the clear was.       *)
ClearedMapIsGone == copy["map"] # 0 => copy["map"] >= cleared \/ excused

(* A route that leads to the dish stays: Ensure flushes only what it found  *)
(* not to be the WAN's, and a WAN that moved meanwhile is met next time.    *)
(* So once the dish is there, its WAN stays and the VPN is quiet, the       *)
(* daemon finds it for good and shows its map and its configuration.       *)
LinkRecovers ==
  <>[](link /\ wan # None) =>
     <>[](Answers /\ topology = "full" /\ \A c \in Copies : copy[c] = device[c])
=============================================================================

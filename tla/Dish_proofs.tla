---------------------------- MODULE Dish_proofs ----------------------------
(***************************************************************************)
(* Proofs about the two parts of the daemon that talk to the dish, for any *)
(* number of requests and any bounds.  DishLink, for any devices: its      *)
(* types, and that a map cleared on the dish is not shown again.           *)
(* SpeedTest: its types, that one test has one owner, that a result is     *)
(* recorded once and before it is announced, and that nothing is recorded  *)
(* after the daemon has waited.                                            *)
(***************************************************************************)
EXTENDS DishLink, SpeedTest, SequenceTheorems, TLAPS

Version == 0 .. MaxWrites + 1
Fetched == [what : Copies, version : Version]

-----------------------------------------------------------------------------
(* Of the versions that are known none is older than the last clear, except *)
(* with a caller that had it before.                                       *)
MapInv ==
  /\ cleared <= device["map"]
  /\ \A c \in Callers : asking[c] # Nothing /\ asking[c].what = "map" =>
       asking[c].version >= cleared \/ c \in behind
  /\ copy["map"] # 0 => copy["map"] >= cleared \/ excused

LEMMA FetchedTypes ==
  /\ Nothing \in Fetched
  /\ \A what \in Copies : TypeOK => [what |-> what, version |-> device[what]] \in Fetched
<1>1. Nothing \in Fetched
  BY LinkAssumption DEF LinkAssumption, Nothing, Fetched, Copies, Version
<1> QED BY <1>1, LinkAssumption DEF LinkAssumption, TypeOK, Fetched, Version

(* A call that asks the dish brings a version of it, or nothing. *)
LEMMA AskStep ==
  ASSUME TypeOK, NEW c \in Callers, NEW what \in Copies, Asks(c, what)
  PROVE  /\ asking' \in [Callers -> Fetched]
         /\ failed' \in 0 .. MaxFailures
         /\ \A d \in Callers : d # c => asking'[d] = asking[d]
         /\ \/ asking'[c] = asking[c]
            \/ asking'[c] = [what |-> what, version |-> device[what]]
<1>1. asking \in [Callers -> Fetched] /\ failed \in 0 .. MaxFailures /\ MaxFailures \in Nat
  BY LinkAssumption DEF LinkAssumption, TypeOK, Fetched, Version
<1>2. CASE Answers /\ asking' = [asking EXCEPT ![c] = [what |-> what, version |-> device[what]]]
           /\ UNCHANGED failed
  BY <1>1, <1>2, FetchedTypes
<1>3. CASE (IF Answers THEN Fails ELSE UNCHANGED failed) /\ UNCHANGED asking
  BY <1>1, <1>3 DEF Fails
<1> QED BY <1>2, <1>3 DEF Asks

LEMMA StoreStep ==
  ASSUME TypeOK, NEW c \in Callers, Stores(c)
  PROVE  /\ asking' \in [Callers -> Fetched] /\ copy' \in [Copies -> Version]
         /\ behind' \subseteq Callers /\ excused' \in BOOLEAN /\ UNCHANGED cleared
         /\ MapInv /\ UNCHANGED device => MapInv'
<1>1. /\ asking \in [Callers -> Fetched] /\ copy \in [Copies -> Version]
      /\ behind \subseteq Callers /\ excused \in BOOLEAN
  BY DEF TypeOK, Fetched, Version
<1>2. asking[c] \in Fetched /\ asking[c] # Nothing
  BY <1>1 DEF Stores
<1>3. asking[c].what \in Copies /\ asking[c].version \in Version
  BY <1>2 DEF Fetched
<1>4. /\ asking' = [asking EXCEPT ![c] = Nothing]
      /\ copy' = [copy EXCEPT ![asking[c].what] = asking[c].version]
      /\ excused' = IF asking[c].what = "map" THEN c \in behind ELSE excused
      /\ behind' = behind \ {c} /\ cleared' = cleared
  BY DEF Stores
<1>5. asking' \in [Callers -> Fetched] /\ copy' \in [Copies -> Version]
  BY <1>1, <1>3, <1>4, FetchedTypes
<1>6. behind' \subseteq Callers /\ excused' \in BOOLEAN
  <2>1. (c \in behind) \in BOOLEAN
    OBVIOUS
  <2>2. excused' \in BOOLEAN
    BY <1>1, <1>4, <2>1, Zenon
  <2> QED BY <1>1, <1>4, <2>2
<1>7. MapInv /\ UNCHANGED device => MapInv'
  <2> SUFFICES ASSUME MapInv, UNCHANGED device PROVE MapInv'
    OBVIOUS
  <2>1. \A d \in Callers : d # c => asking'[d] = asking[d]
    BY <1>1, <1>4
  <2>2. asking'[c] = Nothing
    BY <1>1, <1>4
  <2>3. copy'["map"] # 0 => copy'["map"] >= cleared' \/ excused'
    <3>1. CASE asking[c].what = "map"
      BY <1>1, <1>2, <1>4, <3>1 DEF MapInv, Copies
    <3>2. CASE asking[c].what # "map"
      BY <1>1, <1>3, <1>4, <3>2 DEF MapInv, Copies
    <3> QED BY <3>1, <3>2
  <2> QED BY <1>4, <2>1, <2>2, <2>3 DEF MapInv
<1> QED BY <1>4, <1>5, <1>6, <1>7

LEMMA AskInv ==
  ASSUME TypeOK, MapInv, NEW c \in Callers, NEW what \in Copies, Asks(c, what),
         todo' \in Seq(CallNames),
         request' \in [Requests -> {"idle", "fetch", "clear", "invalidate", "set", "readback", "store"}],
         UNCHANGED <<outside, routes, poller, copy, desired, audit>>
  PROVE  TypeOK' /\ MapInv'
<1> USE DEF poller, audit, outside
<1>1. /\ asking' \in [Callers -> Fetched] /\ failed' \in 0 .. MaxFailures
      /\ \A d \in Callers : d # c => asking'[d] = asking[d]
      /\ \/ asking'[c] = asking[c]
         \/ asking'[c] = [what |-> what, version |-> device[what]]
  BY AskStep
<1>2. TypeOK'
  BY <1>1 DEF TypeOK, Fetched, Version
<1>3. MapInv'
  BY <1>1 DEF MapInv
<1> QED BY <1>2, <1>3

LEMMA WriteStep ==
  ASSUME TypeOK, NEW what \in Copies, Writes(what)
  PROVE  /\ device' \in [Copies -> 1 .. MaxWrites + 1]
         /\ device'["map"] >= device["map"] /\ UNCHANGED <<link, wan, vpn, changes>>
<1>1. /\ device \in [Copies -> 1 .. MaxWrites + 1] /\ MaxWrites \in Nat
      /\ device["map"] + device["config"] < MaxWrites + 2
      /\ device' = [device EXCEPT ![what] = @ + 1]
  BY LinkAssumption DEF LinkAssumption, TypeOK, Writes
<1>2. what = "map" \/ what = "config"
  BY DEF Copies
<1>3. device["map"] \in 1 .. MaxWrites + 1 /\ device["config"] \in 1 .. MaxWrites + 1
  BY <1>1 DEF Copies
<1>4. device["map"] <= MaxWrites /\ device["config"] <= MaxWrites
  BY <1>1, <1>3
<1>5. device[what] + 1 \in 1 .. MaxWrites + 1
  BY <1>1, <1>2, <1>3, <1>4
<1> QED BY <1>1, <1>3, <1>5 DEF Writes, Copies

-----------------------------------------------------------------------------
(* The steps outside the daemon, the route's and the loop's. *)
LEMMA OutsideStep ==
  ASSUME TypeOK, MapInv, LinkChanges \/ WANMoves \/ VPNChanges
  PROVE  TypeOK' /\ MapInv'
<1> USE DEF poller, audit
<1>1. changes' \in 0 .. MaxChanges
  BY LinkAssumption DEF LinkAssumption, TypeOK, LinkChanges, WANMoves, VPNChanges, Changes
<1>2. link' \in BOOLEAN /\ wan' \in Devices \cup {None} /\ vpn' \in BOOLEAN /\ routes' \subseteq Devices
  BY DEF TypeOK, LinkChanges, WANMoves, VPNChanges
<1>3. UNCHANGED <<device, poller, copy, todo, desired, asking, request, failed, audit>>
  BY DEF LinkChanges, WANMoves, VPNChanges, Changes
<1>4. TypeOK'
  BY <1>1, <1>2, <1>3 DEF TypeOK
<1>5. MapInv'
  BY <1>3 DEF MapInv
<1> QED BY <1>4, <1>5

LEMMA CallSequences ==
  /\ Discovery \in Seq(CallNames) /\ <<"ensure">> \o Discovery \in Seq(CallNames)
  /\ <<"status">> \in Seq(CallNames) /\ <<"discover", "config">> \in Seq(CallNames)
  /\ <<"map">> \in Seq(CallNames)
  /\ <<"replace">> \in Seq(CallNames) /\ <<"flush", "replace">> \in Seq(CallNames)
<1>1. {"ensure", "flush", "replace", "discover", "discover_or_stop", "status", "map", "config"}
      \subseteq CallNames
  BY DEF CallNames, Copies
<1>2. Discovery \in Seq(CallNames)
  BY <1>1 DEF Discovery
<1> QED BY <1>1, <1>2

LEMMA TickStep ==
  ASSUME TypeOK, MapInv, StatusTick \/ MetadataTick \/ MapTick \/ RetryTick
  PROVE  TypeOK' /\ MapInv'
<1> USE DEF poller, audit, outside
<1>1. todo' \in Seq(CallNames)
  BY CallSequences DEF StatusTick, MetadataTick, MapTick, RetryTick, Ticks
<1>2. UNCHANGED <<outside, routes, poller, copy, desired, asking, request, failed, audit>>
  BY DEF StatusTick, MetadataTick, MapTick, RetryTick, Ticks
<1> QED BY <1>1, <1>2 DEF TypeOK, MapInv

LEMMA RouteStep ==
  ASSUME TypeOK, MapInv, Ensure \/ FlushRoutes \/ ReplaceRoute
  PROVE  TypeOK' /\ MapInv'
<1> USE DEF poller, audit, outside
<1>1. UNCHANGED <<outside, poller, copy, asking, request, audit>>
  BY DEF Ensure, FlushRoutes, ReplaceRoute
<1>2. failed' \in 0 .. MaxFailures
  <2>1. failed \in 0 .. MaxFailures /\ MaxFailures \in Nat
    BY LinkAssumption DEF LinkAssumption, TypeOK
  <2>2. failed' = failed \/ Fails
    BY DEF Ensure, FlushRoutes, ReplaceRoute
  <2> QED BY <2>1, <2>2 DEF Fails
<1>3. routes' \subseteq Devices /\ desired' \in Devices
  BY DEF TypeOK, Ensure, FlushRoutes, ReplaceRoute
<1>4. todo' \in Seq(CallNames)
  <2>1. todo \in Seq(CallNames) /\ todo # <<>>
    BY DEF TypeOK, Ensure, FlushRoutes, ReplaceRoute
  <2>2. Tail(todo) \in Seq(CallNames) /\ SubSeq(todo, 3, Len(todo)) \in Seq(CallNames)
    BY <2>1
  <2>3. /\ <<"replace">> \o Tail(todo) \in Seq(CallNames)
        /\ <<"flush", "replace">> \o Tail(todo) \in Seq(CallNames)
    BY <2>2, CallSequences
  <2> QED BY <2>2, <2>3 DEF Ensure, FlushRoutes, ReplaceRoute
<1>5. TypeOK'
  BY <1>1, <1>2, <1>3, <1>4 DEF TypeOK
<1> QED BY <1>1, <1>5 DEF MapInv

LEMMA LoopStep ==
  ASSUME TypeOK, MapInv, Discover \/ PollStatus \/ LoopAsks \/ LoopStores
  PROVE  TypeOK' /\ MapInv'
<1> USE DEF poller, audit, outside
<1>0. /\ failed \in 0 .. MaxFailures /\ failures \in [{"info", "status"} -> 0 .. 3]
      /\ MaxFailures \in Nat /\ todo \in Seq(CallNames) /\ Loop \in Callers
  BY LinkAssumption DEF LinkAssumption, TypeOK, Callers
<1>1. CASE Discover \/ PollStatus
  <2>1. ASSUME NEW field \in {"info", "status"}, Hears(field)
        PROVE  /\ failed' \in 0 .. MaxFailures /\ failures' \in [{"info", "status"} -> 0 .. 3]
               /\ topology' \in {"wan_only", "full"} /\ reachable' \in BOOLEAN /\ known' \in BOOLEAN
    <3>1. failures[field] \in 0 .. 3 /\ Counted(failures[field]) \in 0 .. 3
      BY <1>0 DEF Counted
    <3>2. failed' \in 0 .. MaxFailures
      BY <1>0, <2>1 DEF Hears, Fails
    <3>3. failures' \in [{"info", "status"} -> 0 .. 3]
      BY <1>0, <2>1, <3>1 DEF Hears
    <3>4. topology' \in {"wan_only", "full"} /\ reachable' \in BOOLEAN
      BY <2>1 DEF Hears, TypeOK
    <3>5. known' \in BOOLEAN
      BY <2>1, Zenon DEF Hears, TypeOK
    <3> QED BY <3>2, <3>3, <3>4, <3>5
  <2>2. \E field \in {"info", "status"} : Hears(field)
    BY <1>1 DEF Discover, PollStatus
  <2>5. todo # <<>> /\ Tail(todo) \in Seq(CallNames) /\ <<>> \in Seq(CallNames)
    BY <1>0, <1>1 DEF Discover, PollStatus
  <2>3. todo' \in Seq(CallNames) /\ UNCHANGED <<outside, routes, copy, desired, asking, request, audit>>
    BY <1>1, <2>5 DEF Discover, PollStatus
  <2>4. TypeOK'
    BY <2>1, <2>2, <2>3 DEF TypeOK
  <2> QED BY <2>3, <2>4 DEF MapInv
<1>2. CASE LoopAsks
  <2>1. Asks(Loop, Head(todo)) /\ Head(todo) \in Copies /\ todo' \in Seq(CallNames)
        /\ UNCHANGED <<outside, routes, poller, copy, desired, request, audit>>
    BY <1>0, <1>2 DEF LoopAsks
  <2>2. request' \in [Requests -> {"idle", "fetch", "clear", "invalidate", "set", "readback", "store"}]
    BY <2>1 DEF TypeOK
  <2> QED BY <1>0, <2>1, <2>2, AskInv
<1>3. CASE LoopStores
  <2>1. Stores(Loop) /\ UNCHANGED <<outside, routes, poller, todo, desired, request, failed>>
    BY <1>3 DEF LoopStores
  <2> QED BY <1>0, <2>1, StoreStep DEF TypeOK, Fetched, Version
<1> QED BY <1>1, <1>2, <1>3

-----------------------------------------------------------------------------
(* The requests of the API. *)
LEMMA RequestStep ==
  ASSUME TypeOK, MapInv, NEW r \in Requests, Begins(r) \/ Handles(r)
  PROVE  TypeOK' /\ MapInv'
<1> USE DEF poller, audit, outside
<1> DEFINE Places == {"idle", "fetch", "clear", "invalidate", "set", "readback", "store"}
<1>0. /\ failed \in 0 .. MaxFailures /\ MaxFailures \in Nat /\ MaxWrites \in Nat
      /\ request \in [Requests -> Places] /\ r \in Callers
      /\ "map" \in Copies /\ "config" \in Copies /\ copy \in [Copies -> Version]
      /\ device \in [Copies -> 1 .. MaxWrites + 1] /\ 0 \in Version
  BY LinkAssumption DEF LinkAssumption, TypeOK, Callers, Version, Copies
<1>1. request' \in [Requests -> Places]
  BY <1>0 DEF Begins, Handles, Goes, Clears, WriteConfig, RequestAsks, RequestStores
<1>2. CASE Begins(r)
  <2>1. UNCHANGED <<outside, routes, poller, copy, todo, desired, asking, failed, audit>>
    BY <1>2 DEF Begins
  <2> QED BY <1>1, <2>1 DEF TypeOK, MapInv
<1>3. CASE Clears(r)
  <2>1. UNCHANGED <<routes, poller, todo, desired, asking>>
    BY <1>3 DEF Clears
  <2>2. CASE request[r] = "clear"
    <3>1. /\ UNCHANGED <<copy, audit>> /\ failed' \in 0 .. MaxFailures
          /\ Writes("map") \/ UNCHANGED outside
      BY <1>0, <1>3, <2>2 DEF Clears, Fails
    <3>2. device' \in [Copies -> 1 .. MaxWrites + 1] /\ device'["map"] >= device["map"]
          /\ UNCHANGED <<link, wan, vpn, changes>>
      BY <1>0, <3>1, WriteStep
    <3>3. TypeOK'
      BY <1>1, <2>1, <3>1, <3>2 DEF TypeOK
    <3>4. cleared' <= device'["map"]
      BY <1>0, <3>1, <3>2 DEF MapInv, TypeOK
    <3> QED BY <2>1, <3>1, <3>3, <3>4 DEF MapInv
  <2>3. CASE request[r] = "invalidate"
    <3>1. /\ UNCHANGED <<outside, failed>> /\ copy' = [copy EXCEPT !["map"] = 0]
          /\ cleared' = device'["map"] /\ excused' = FALSE
          /\ behind' = {c \in Callers : asking[c] # Nothing /\ asking[c].what = "map"}
      BY <1>3, <2>3 DEF Clears, Invalidate, Accepted
    <3>2. copy' \in [Copies -> Version] /\ copy'["map"] = 0
      BY <1>0, <3>1
    <3>3. cleared' \in Version /\ behind' \subseteq Callers
      BY <1>0, <3>1 DEF Version
    <3>4. TypeOK'
      BY <1>1, <2>1, <3>1, <3>2, <3>3 DEF TypeOK, Version
    <3>5. cleared' <= device'["map"]
      BY <1>0, <3>1
    <3>6. MapInv'
      BY <2>1, <3>1, <3>2, <3>5 DEF MapInv
    <3> QED BY <3>4, <3>6
  <2> QED BY <1>3, <2>2, <2>3 DEF Clears
<1>4. CASE WriteConfig(r)
  <2>1. /\ UNCHANGED <<routes, poller, copy, todo, desired, asking, audit>>
        /\ failed' \in 0 .. MaxFailures
        /\ Writes("config") \/ UNCHANGED outside
    BY <1>0, <1>4 DEF WriteConfig, Fails
  <2>2. device' \in [Copies -> 1 .. MaxWrites + 1] /\ device'["map"] >= device["map"]
        /\ UNCHANGED <<link, wan, vpn, changes>>
    BY <1>0, <2>1, WriteStep
  <2>3. TypeOK'
    BY <1>1, <2>1, <2>2 DEF TypeOK
  <2>4. cleared' <= device'["map"]
    BY <1>0, <2>1, <2>2 DEF MapInv, TypeOK
  <2> QED BY <2>1, <2>3, <2>4 DEF MapInv
<1>5. CASE RequestAsks(r)
  <2>1. /\ \E what \in Copies : Asks(r, what)
        /\ UNCHANGED <<outside, routes, poller, copy, todo, desired, audit>>
    BY <1>0, <1>5 DEF RequestAsks
  <2> QED BY <1>0, <1>1, <2>1, AskInv DEF TypeOK
<1>6. CASE RequestStores(r)
  <2>1. Stores(r) /\ UNCHANGED <<outside, routes, poller, todo, desired, failed>>
    BY <1>6 DEF RequestStores
  <2> QED BY <1>0, <1>1, <2>1, StoreStep DEF TypeOK, Fetched, Version
<1> QED BY <1>2, <1>3, <1>4, <1>5, <1>6 DEF Handles

-----------------------------------------------------------------------------
LEMMA LinkInit == Init => TypeOK /\ MapInv
<1> SUFFICES ASSUME Init PROVE TypeOK /\ MapInv
  OBVIOUS
<1> USE DEF Init
<1>0. {MaxChanges, MaxWrites, MaxFailures} \subseteq Nat /\ Devices # {}
  BY LinkAssumption DEF LinkAssumption
<1>1. todo \in Seq(CallNames)
  BY CallSequences
<1>2. asking \in [Callers -> Fetched]
  BY FetchedTypes
<1>3. desired \in Devices /\ routes \subseteq Devices
  BY <1>0
<1>4. /\ device \in [Copies -> 1 .. MaxWrites + 1] /\ copy \in [Copies -> Version]
      /\ changes \in 0 .. MaxChanges /\ failed \in 0 .. MaxFailures /\ cleared \in Version
      /\ failures \in [{"info", "status"} -> 0 .. 3]
  BY <1>0 DEF Version
<1>5. TypeOK
  BY <1>1, <1>2, <1>3, <1>4 DEF TypeOK, Fetched, Version
<1>6. MapInv
  BY DEF MapInv, Nothing, Copies
<1> QED BY <1>5, <1>6

LEMMA LinkStep == TypeOK /\ MapInv /\ [Next]_vars => TypeOK' /\ MapInv'
<1> SUFFICES ASSUME TypeOK, MapInv, [Next]_vars PROVE TypeOK' /\ MapInv'
  OBVIOUS
<1>1. CASE UNCHANGED vars
  BY <1>1 DEF vars, outside, poller, audit, TypeOK, MapInv
<1> QED BY <1>1, OutsideStep, TickStep, RouteStep, LoopStep, RequestStep DEF Next, Calls

(* The poller, the route and the requests have their types. *)
THEOREM LinkTypes == Spec => []TypeOK
BY LinkInit, LinkStep, PTL DEF Spec

(* After an accepted clear no map from before it is shown, but one a caller *)
(* had fetched by then.                                                    *)
THEOREM ClearedMapStaysGone == Spec => []ClearedMapIsGone
<1>1. TypeOK /\ MapInv => ClearedMapIsGone
  BY DEF MapInv, ClearedMapIsGone
<1> QED BY <1>1, LinkInit, LinkStep, PTL DEF Spec

-----------------------------------------------------------------------------
(* The speed test.  Where a Start and its goroutine can be. *)
AskerType == [at : {"idle", "calling", "pausing"}, calls : Nat]
WorkerType ==
  [at : {"ended", "polling", "recording", "showing", "publishing"}, refused : Nat, result : Nat]

(* The types of the speed test. *)
SpeedTestTypes ==
  /\ up \in BOOLEAN /\ begun \in 0 .. MaxTests /\ active \in BOOLEAN
  /\ stage \in {"up", "cancelled", "waited"}
  /\ state \in {"idle", "running", "done", "error", "unsupported"}
  /\ asker \in [Askers -> AskerType] /\ worker \in [Askers -> WorkerType]
  /\ latest \in Nat /\ recorded \in Seq(Nat) /\ published \subseteq Nat

(* A Start hands its test to a goroutine that had none. *)
HandedOver == \A r \in Askers : asker[r].at # "idle" => worker[r].at = "ended"

(* The last test is not recorded while it runs or is asked for, which its  *)
(* only owner alone can do; and what is shown follows what is recorded.    *)
Unrecorded == \A i \in 1 .. Len(recorded) : recorded[i] < begun
Lists(s, t) == \E i \in 1 .. Len(s) : s[i] = t
ResultInv ==
  /\ \A i, j \in 1 .. Len(recorded) : i < j => recorded[i] < recorded[j]
  /\ \A i \in 1 .. Len(recorded) : recorded[i] <= begun
  /\ latest <= begun
  /\ active => Unrecorded
  /\ \A r \in Askers :
       /\ worker[r].at = "polling" => Unrecorded
       /\ worker[r].at = "recording" => ~active /\ Unrecorded /\ worker[r].result = begun
       /\ worker[r].at = "showing" =>
            Lists(recorded, worker[r].result) /\ latest <= worker[r].result
       /\ worker[r].at = "publishing" =>
            Lists(recorded, worker[r].result) /\ worker[r].result <= latest
  /\ \A t \in published : t <= latest /\ Lists(recorded, t)

(* Who polls when the daemon has waited is a latecomer, and hears nothing. *)
WaitInv == stage = "waited" => \A r \in Askers : worker[r].at \in {"ended", "polling"}

SpeedTestInv == SpeedTestTypes /\ HandedOver /\ OneTest /\ ResultInv /\ WaitInv

-----------------------------------------------------------------------------
(* Of the askers only one has a test, and it keeps the state "running".    *)
LEMMA SoleOwner ==
  ASSUME OneTest, NEW r \in Askers, Owns(r)
  PROVE  state = "running" /\ \A s \in Askers \ {r} : ~Owns(s)
BY DEF OneTest

(* A test begins only while it is asked for. *)
LEMMA BeginsUnrecorded ==
  ASSUME SpeedTestTypes, ResultInv, TestBegins
  PROVE  /\ begun' \in 0 .. MaxTests /\ begun <= begun' /\ active' = TRUE /\ up' = up
         /\ \A i \in 1 .. Len(recorded) : recorded[i] < begun'
<1>1. /\ begun \in Nat /\ begun <= MaxTests /\ MaxTests \in Nat /\ recorded \in Seq(Nat)
  BY SpeedTestAssumption DEF SpeedTestTypes, SpeedTestAssumption
<1>2. \A i \in 1 .. Len(recorded) : recorded[i] \in Nat /\ recorded[i] <= begun
  BY <1>1 DEF ResultInv
<1>3. CASE active /\ UNCHANGED dish
  BY <1>1, <1>3 DEF ResultInv, Unrecorded, dish
<1>4. CASE ~active /\ begun < MaxTests /\ begun' = begun + 1 /\ active' = TRUE /\ UNCHANGED up
  BY <1>1, <1>2, <1>4
<1> QED BY <1>3, <1>4 DEF TestBegins

(* The dish and the daemon's stop leave every Start and goroutine alone. *)
LEMMA QuietStep ==
  ASSUME SpeedTestInv, DishChanges \/ Cancel \/ Wait \/ UNCHANGED speedTestVars
  PROVE  SpeedTestInv'
<1>1. UNCHANGED <<begun, state, asker, worker, latest, recorded, published>>
  BY DEF DishChanges, Cancel, Wait, speedTestVars, outputs, dish
<1>2. /\ up' \in BOOLEAN /\ active' \in BOOLEAN /\ (active' => active)
      /\ stage' \in {"up", "cancelled", "waited"}
  <2>1. up \in BOOLEAN /\ active \in BOOLEAN /\ stage \in {"up", "cancelled", "waited"}
    BY DEF SpeedTestInv, SpeedTestTypes
  <2>2. CASE DishChanges
    <3>1. up' \in BOOLEAN
      BY <2>1, <2>2, Zenon DEF DishChanges
    <3>2. (UNCHANGED active \/ active' = FALSE) /\ UNCHANGED stage
      BY <2>2 DEF DishChanges
    <3>3. active' \in BOOLEAN /\ (active' => active)
      <4>1. CASE UNCHANGED active
        BY <2>1, <4>1
      <4>2. CASE active' = FALSE
        BY <4>2
      <4> QED BY <3>2, <4>1, <4>2
    <3> QED BY <2>1, <3>1, <3>2, <3>3
  <2>3. CASE Cancel \/ Wait \/ UNCHANGED speedTestVars
    <3>1. UNCHANGED <<up, active>> /\ stage' \in {stage, "cancelled", "waited"}
      BY <2>3 DEF Cancel, Wait, speedTestVars, dish
    <3> QED BY <2>1, <3>1
  <2> QED BY <2>2, <2>3
<1>3. SpeedTestTypes' /\ HandedOver' /\ OneTest'
  BY <1>1, <1>2 DEF SpeedTestInv, SpeedTestTypes, HandedOver, OneTest, Owns
<1>4. ResultInv'
  BY <1>1, <1>2 DEF SpeedTestInv, ResultInv, Unrecorded, Lists
<1>5. WaitInv'
  <2>1. CASE Wait
    BY <1>1, <2>1 DEF Wait, WaitInv, Ended
  <2>2. CASE ~Wait
    <3>1. stage' = "waited" => stage = "waited"
      BY <2>2 DEF DishChanges, Cancel, speedTestVars
    <3> QED BY <1>1, <3>1 DEF SpeedTestInv, WaitInv
  <2> QED BY <2>1, <2>2
<1> QED BY <1>3, <1>4, <1>5 DEF SpeedTestInv

LEMMA StartStep ==
  ASSUME SpeedTestInv, NEW r \in Askers, Start(r)
  PROVE  SpeedTestInv'
<1>1. /\ asker' = [asker EXCEPT ![r] = [at |-> "calling", calls |-> 1]] /\ state' = "running"
      /\ worker[r].at = "ended" /\ state # "running"
      /\ UNCHANGED <<up, begun, active, stage, worker, latest, recorded, published>>
  BY DEF Start, Allowed, Ended, dish, outputs
<1>2. SpeedTestTypes'
  BY <1>1 DEF SpeedTestInv, SpeedTestTypes, AskerType
<1>3. /\ asker'[r].at = "calling"
      /\ \A s \in Askers \ {r} : asker'[s] = asker[s]
  BY <1>1 DEF SpeedTestInv, SpeedTestTypes
<1>4. HandedOver'
  BY <1>1, <1>3 DEF SpeedTestInv, HandedOver
<1>5. \A s \in Askers : ~Owns(s)
  BY <1>1 DEF SpeedTestInv, OneTest
<1>6. OneTest'
  BY <1>1, <1>3, <1>5 DEF OneTest, Owns
<1>7. ResultInv' /\ WaitInv'
  BY <1>1 DEF SpeedTestInv, ResultInv, WaitInv, Unrecorded, Lists
<1> QED BY <1>2, <1>4, <1>6, <1>7 DEF SpeedTestInv

(* A call of a Start: the dish may begin the test, and the Start goes on,  *)
(* ends, or hands over to its goroutine.                                   *)
LEMMA CallStep ==
  ASSUME SpeedTestInv, NEW r \in Askers, StartGoesOn(r)
  PROVE  SpeedTestInv'
<1> DEFINE over == asker'[r].at = "idle"
           handed == worker'[r].at = "polling"
<1>1. asker[r].at # "idle" /\ worker[r].at = "ended" /\ asker[r] \in AskerType
  BY DEF SpeedTestInv, SpeedTestTypes, HandedOver, StartGoesOn, StartAccepted, CallFails,
         CallsAgain, GivesUp
<1>2. SpeedTestTypes /\ ResultInv /\ OneTest /\ HandedOver /\ WaitInv
  BY DEF SpeedTestInv
<1>3. state = "running" /\ \A s \in Askers \ {r} : ~Owns(s)
  BY <1>1, <1>2, SoleOwner DEF Owns
<1>4. /\ \E a \in AskerType : asker' = [asker EXCEPT ![r] = a]
      /\ \/ UNCHANGED worker
         \/ worker' = [worker EXCEPT ![r] = Polls] /\ TestBegins /\ asker' = [asker EXCEPT ![r] = NotAsking]
  <2>1. CASE StartAccepted(r)
    <3>1. NotAsking \in AskerType
      BY DEF NotAsking, AskerType
    <3> QED BY <2>1, <3>1 DEF StartAccepted
  <2>2. CASE CallFails(r)
    <3>1. UNCHANGED worker
      BY <2>2 DEF CallFails
    <3>2. CASE asker' = [asker EXCEPT ![r].at = "pausing"]
      <4>1. asker' = [asker EXCEPT ![r] = [at |-> "pausing", calls |-> asker[r].calls]]
        <5>1. [asker[r] EXCEPT !.at = "pausing"] = [at |-> "pausing", calls |-> asker[r].calls]
          BY <1>1 DEF AskerType
        <5>2. asker' = [asker EXCEPT ![r] = [asker[r] EXCEPT !.at = "pausing"]]
          BY <3>2
        <5> QED BY <5>1, <5>2
      <4>2. [at |-> "pausing", calls |-> asker[r].calls] \in AskerType
        BY <1>1 DEF AskerType
      <4> QED BY <3>1, <4>1, <4>2
    <3>3. CASE asker' = [asker EXCEPT ![r] = NotAsking]
      BY <3>1, <3>3 DEF NotAsking, AskerType
    <3> QED BY <2>2, <3>2, <3>3 DEF CallFails, Returns
  <2>3. CASE CallsAgain(r)
    <3>1. asker' = [asker EXCEPT ![r] = [at |-> "calling", calls |-> asker[r].calls + 1]]
      BY <2>3 DEF CallsAgain
    <3>2. [at |-> "calling", calls |-> asker[r].calls + 1] \in AskerType
      BY <1>1 DEF AskerType
    <3> QED BY <2>3, <3>1, <3>2 DEF CallsAgain
  <2>4. CASE GivesUp(r)
    BY <2>4 DEF GivesUp, Returns, NotAsking, AskerType
  <2> QED BY <2>1, <2>2, <2>3, <2>4 DEF StartGoesOn
<1>5. /\ \A s \in Askers \ {r} : asker'[s] = asker[s] /\ worker'[s] = worker[s]
      /\ asker' \in [Askers -> AskerType] /\ worker' \in [Askers -> WorkerType]
      /\ worker'[r].at = "ended" \/ (worker'[r].at = "polling" /\ TestBegins /\ over)
  <2>1. Polls \in WorkerType /\ Polls.at = "polling"
    BY DEF Polls, WorkerType
  <2> QED BY <1>1, <1>2, <1>4, <2>1 DEF SpeedTestTypes, NotAsking
<1>6. /\ (UNCHANGED dish) \/ TestBegins
      /\ UNCHANGED <<stage, latest, recorded, published>>
      /\ state' \in {"running", "error", "unsupported"}
      /\ state' = "running" <=> (~over \/ handed)
  <2>1. CASE StartAccepted(r)
    BY <1>2, <1>3, <2>1 DEF StartAccepted, outputs, SpeedTestTypes, Polls
  <2>2. CASE CallFails(r)
    <3>1. CASE asker' = [asker EXCEPT ![r].at = "pausing"] /\ UNCHANGED state
      BY <1>1, <1>2, <1>3, <2>2, <3>1 DEF CallFails, outputs, SpeedTestTypes
    <3>2. CASE Returns(r, "unsupported") \/ Returns(r, "error")
      BY <1>1, <1>2, <2>2, <3>2 DEF CallFails, Returns, outputs, SpeedTestTypes, NotAsking
    <3> QED BY <2>2, <3>1, <3>2 DEF CallFails
  <2>3. CASE CallsAgain(r)
    BY <1>2, <1>3, <2>3 DEF CallsAgain, outputs, SpeedTestTypes
  <2>4. CASE GivesUp(r)
    BY <1>1, <1>2, <2>4 DEF GivesUp, Returns, outputs, SpeedTestTypes, NotAsking
  <2> QED BY <2>1, <2>2, <2>3, <2>4 DEF StartGoesOn
<1>7. /\ begun' \in 0 .. MaxTests /\ begun <= begun' /\ active' \in BOOLEAN /\ up' \in BOOLEAN
      /\ active' => \A i \in 1 .. Len(recorded) : recorded[i] < begun'
      /\ TestBegins => \A i \in 1 .. Len(recorded) : recorded[i] < begun'
  <2>1. CASE UNCHANGED dish
    <3>1. UNCHANGED <<up, begun, active>>
      BY <2>1 DEF dish
    <3>2. TestBegins => \A i \in 1 .. Len(recorded) : recorded[i] < begun'
      BY <1>2, BeginsUnrecorded
    <3>3. up \in BOOLEAN /\ active \in BOOLEAN /\ begun \in 0 .. MaxTests /\ begun <= begun
      BY <1>2, SpeedTestAssumption DEF SpeedTestTypes, SpeedTestAssumption
    <3> QED BY <1>2, <3>1, <3>2, <3>3 DEF ResultInv, Unrecorded
  <2>2. CASE TestBegins
    BY <1>2, <2>2, BeginsUnrecorded DEF SpeedTestTypes
  <2> QED BY <1>6, <2>1, <2>2
<1>8. SpeedTestTypes'
  BY <1>2, <1>5, <1>6, <1>7 DEF SpeedTestTypes
<1>9. HandedOver'
  BY <1>2, <1>5 DEF HandedOver
<1>10. OneTest'
  <2>1. \A s \in Askers \ {r} : ~Owns(s)'
    BY <1>3, <1>5 DEF Owns
  <2>2. Owns(r)' <=> state' = "running"
    BY <1>5, <1>6 DEF Owns
  <2> QED BY <2>1, <2>2 DEF OneTest
<1>11. ResultInv'
  <2>1. /\ \A i \in 1 .. Len(recorded) : recorded[i] <= begun'
        /\ latest <= begun'
    <3>1. \A i \in 1 .. Len(recorded) : recorded[i] \in Nat /\ recorded[i] <= begun
      BY <1>2 DEF SpeedTestTypes, ResultInv
    <3>2. begun \in Nat /\ begun' \in Nat /\ latest \in Nat /\ latest <= begun
      BY <1>2, <1>7 DEF SpeedTestTypes, ResultInv
    <3> QED BY <1>7, <3>1, <3>2
  <2>2. \A s \in Askers \ {r} : worker[s].at \notin {"polling", "recording", "showing"}
    BY <1>3 DEF Owns
  <2> QED BY <1>2, <1>5, <1>6, <1>7, <2>1, <2>2 DEF ResultInv, Unrecorded, Lists
<1>12. WaitInv'
  BY <1>2, <1>5, <1>6 DEF WaitInv
<1> QED BY <1>8, <1>9, <1>10, <1>11, <1>12 DEF SpeedTestInv

(* The goroutine polls. *)
LEMMA PollStep ==
  ASSUME SpeedTestInv, NEW r \in Askers, Cancelled(r) \/ Poll(r)
  PROVE  SpeedTestInv'
<1>1. /\ worker[r].at = "polling" /\ asker[r].at = "idle"
      /\ UNCHANGED <<up, begun, active, stage, asker, latest, recorded, published>>
  BY DEF SpeedTestInv, HandedOver, Cancelled, Poll, Refused, PollFails, Answered, WorkerEnds,
         dish, outputs
<1>2. SpeedTestTypes /\ ResultInv /\ OneTest /\ HandedOver /\ WaitInv /\ worker[r] \in WorkerType
  BY DEF SpeedTestInv, SpeedTestTypes
<1>3. state = "running" /\ \A s \in Askers \ {r} : ~Owns(s)
  BY <1>1, <1>2, SoleOwner DEF Owns
<1>4. Ended \in WorkerType /\ Ended.at = "ended"
  BY DEF Ended, WorkerType
<1>5. \E w \in WorkerType :
        /\ worker' = [worker EXCEPT ![r] = w]
        /\ \/ w.at = "ended" /\ state' \in {"error", "unsupported"}
           \/ w.at = "polling" /\ state' = state
           \/ /\ w.at = "recording" /\ state' = state
              /\ w.result = begun /\ ~active /\ stage = "up"
  <2>1. CASE Cancelled(r) \/ PollFails(r)
    <3>1. worker' = [worker EXCEPT ![r] = Ended] /\ state' = "error"
      BY <2>1 DEF Cancelled, PollFails, WorkerEnds
    <3> QED BY <1>4, <3>1
  <2>2. CASE Refused(r)
    <3>1. CASE WorkerEnds(r, "unsupported")
      <4>1. worker' = [worker EXCEPT ![r] = Ended] /\ state' = "unsupported"
        BY <3>1 DEF WorkerEnds
      <4> QED BY <1>4, <4>1
    <3>2. CASE worker' = [worker EXCEPT ![r].refused = @ + 1] /\ UNCHANGED state
      <4> DEFINE w == [at |-> "polling", refused |-> worker[r].refused + 1, result |-> worker[r].result]
      <4>1. w \in WorkerType /\ worker' = [worker EXCEPT ![r] = w]
        <5>1. w = [worker[r] EXCEPT !.refused = @ + 1] /\ w \in WorkerType
          BY <1>1, <1>2 DEF WorkerType
        <5>2. worker' = [worker EXCEPT ![r] = [worker[r] EXCEPT !.refused = @ + 1]]
          BY <3>2
        <5> QED BY <5>1, <5>2
      <4> QED BY <3>2, <4>1
    <3> QED BY <2>2, <3>1, <3>2 DEF Refused
  <2>3. CASE Answered(r)
    <3> DEFINE w == IF active THEN Polls ELSE [at |-> "recording", refused |-> 0, result |-> begun]
    <3>1. worker' = [worker EXCEPT ![r] = w] /\ UNCHANGED state /\ stage = "up"
      BY <2>3 DEF Answered, Done
    <3>2. w \in WorkerType
      BY <1>2 DEF SpeedTestTypes, Polls, WorkerType
    <3>3. w.at = "polling" \/ (w.at = "recording" /\ w.result = begun /\ ~active)
      BY DEF Polls
    <3> HIDE DEF w
    <3> QED BY <3>1, <3>2, <3>3
  <2> QED BY <2>1, <2>2, <2>3 DEF Poll
<1>6. /\ \A s \in Askers \ {r} : worker'[s] = worker[s]
      /\ worker' \in [Askers -> WorkerType]
      /\ \/ worker'[r].at = "ended" /\ state' \in {"error", "unsupported"}
         \/ worker'[r].at = "polling" /\ state' = state
         \/ /\ worker'[r].at = "recording" /\ state' = state
            /\ worker'[r].result = begun /\ ~active /\ stage = "up"
  BY <1>2, <1>5 DEF SpeedTestTypes
<1>7. SpeedTestTypes'
  BY <1>1, <1>2, <1>6 DEF SpeedTestTypes
<1>8. HandedOver'
  BY <1>1, <1>2, <1>6 DEF HandedOver
<1>9. OneTest'
  BY <1>1, <1>3, <1>6 DEF OneTest, Owns
<1>10. ResultInv'
  BY <1>1, <1>2, <1>6 DEF ResultInv, Unrecorded, Lists
<1>11. WaitInv'
  BY <1>1, <1>2, <1>6 DEF WaitInv
<1> QED BY <1>7, <1>8, <1>9, <1>10, <1>11 DEF SpeedTestInv

(* A result on its way. *)
LEMMA FinishStep ==
  ASSUME SpeedTestInv, NEW r \in Askers, Finishes(r)
  PROVE  SpeedTestInv'
<1>1. SpeedTestTypes /\ ResultInv /\ OneTest /\ HandedOver /\ WaitInv /\ worker[r] \in WorkerType
  BY DEF SpeedTestInv, SpeedTestTypes
<1>2. /\ UNCHANGED <<up, begun, active, stage, asker>>
      /\ worker[r].at \in {"recording", "showing", "publishing"} /\ asker[r].at = "idle"
  BY <1>1 DEF Finishes, Record, Show, Publish, dish, HandedOver
<1>3. /\ recorded \in Seq(Nat) /\ begun \in Nat /\ latest \in Nat /\ worker[r].result \in Nat
      /\ \A i \in 1 .. Len(recorded) : recorded[i] \in Nat
  BY <1>1 DEF SpeedTestTypes, WorkerType
<1>4. WaitInv'
  BY <1>1, <1>2 DEF WaitInv, Finishes, Record, Show, Publish, Ended, SpeedTestTypes
<1>5. CASE Record(r)
  <2>1. /\ recorded' = Append(recorded, worker[r].result)
        /\ worker' = [worker EXCEPT ![r] = [worker[r] EXCEPT !.at = "showing"]]
        /\ UNCHANGED <<state, latest, published>> /\ worker[r].at = "recording"
    BY <1>5 DEF Record
  <2>2. /\ \A s \in Askers \ {r} : worker'[s] = worker[s]
        /\ worker'[r].at = "showing" /\ worker'[r].result = worker[r].result
        /\ worker' \in [Askers -> WorkerType]
    BY <1>1, <2>1 DEF SpeedTestTypes, WorkerType
  <2>3. state = "running" /\ \A s \in Askers \ {r} : ~Owns(s)
    BY <1>1, <2>1, SoleOwner DEF Owns
  <2>4. /\ recorded' \in Seq(Nat) /\ Len(recorded') = Len(recorded) + 1 /\ Len(recorded) \in Nat
        /\ \A i \in 1 .. Len(recorded) : recorded'[i] = recorded[i]
        /\ recorded'[Len(recorded) + 1] = begun
    BY <1>1, <1>3, <2>1 DEF ResultInv
  <2>5. /\ ~active /\ worker[r].result = begun
        /\ \A i \in 1 .. Len(recorded) : recorded[i] < begun
    BY <1>1, <2>1 DEF ResultInv, Unrecorded
  <2>6. \A i \in 1 .. Len(recorded') : i \in 1 .. Len(recorded) \/ i = Len(recorded) + 1
    BY <2>4
  <2>7. SpeedTestTypes' /\ HandedOver' /\ OneTest'
    BY <1>1, <1>2, <2>1, <2>2, <2>3, <2>4 DEF SpeedTestTypes, HandedOver, OneTest, Owns
  <2>8. \A i, j \in 1 .. Len(recorded') : i < j => recorded'[i] < recorded'[j]
    <3> SUFFICES ASSUME NEW i \in 1 .. Len(recorded'), NEW j \in 1 .. Len(recorded'), i < j
                 PROVE  recorded'[i] < recorded'[j]
      OBVIOUS
    <3>1. i \in 1 .. Len(recorded)
      BY <2>4
    <3>2. CASE j \in 1 .. Len(recorded)
      BY <1>1, <2>4, <3>1, <3>2 DEF ResultInv
    <3>3. CASE j = Len(recorded) + 1
      BY <2>4, <2>5, <3>1, <3>3
    <3> QED BY <2>6, <3>2, <3>3
  <2>9. \A i \in 1 .. Len(recorded') : recorded'[i] <= begun
    <3>1. begun \in Int /\ \A i \in 1 .. Len(recorded) : recorded[i] <= begun
      BY <1>1, <1>3 DEF ResultInv, SpeedTestTypes
    <3> QED BY <2>4, <2>6, <3>1
  <2>10. \A t : Lists(recorded, t) => Lists(recorded', t)
    <3>1. \A i \in 1 .. Len(recorded) : i \in 1 .. Len(recorded')
      BY <2>4
    <3> QED BY <2>4, <3>1 DEF Lists
  <2>11. Lists(recorded', begun)
    <3>1. Len(recorded) + 1 \in 1 .. Len(recorded')
      BY <2>4
    <3> QED BY <1>2, <2>4, <3>1 DEF Lists
  <2>12. \A s \in Askers \ {r} : worker[s].at \notin {"polling", "recording", "showing"}
    BY <2>3 DEF Owns
  <2>13. ResultInv'
    <3>1. \A s \in Askers \ {r} :
            worker'[s].at = "publishing" =>
              Lists(recorded', worker'[s].result) /\ worker'[s].result <= latest'
      BY <1>1, <2>1, <2>2, <2>10 DEF ResultInv
    <3>2. \A t \in published' : t <= latest' /\ Lists(recorded', t)
      BY <1>1, <2>1, <2>10 DEF ResultInv
    <3>3. Lists(recorded', worker'[r].result) /\ latest' <= worker'[r].result /\ latest' <= begun'
      BY <1>1, <1>2, <2>1, <2>2, <2>5, <2>11 DEF ResultInv
    <3> QED BY <1>2, <2>1, <2>2, <2>5, <2>8, <2>9, <2>12, <3>1, <3>2, <3>3 DEF ResultInv
  <2> QED BY <1>4, <2>7, <2>13 DEF SpeedTestInv
<1>6. CASE Show(r)
  <2>1. /\ latest' = worker[r].result /\ state' = "done" /\ worker[r].at = "showing"
        /\ worker' = [worker EXCEPT ![r] = [worker[r] EXCEPT !.at = "publishing"]]
        /\ UNCHANGED <<recorded, published>>
    BY <1>6 DEF Show
  <2>2. /\ \A s \in Askers \ {r} : worker'[s] = worker[s]
        /\ worker'[r].at = "publishing" /\ worker'[r].result = worker[r].result
        /\ worker' \in [Askers -> WorkerType]
    BY <1>1, <2>1 DEF SpeedTestTypes, WorkerType
  <2>3. \A s \in Askers \ {r} : ~Owns(s)
    BY <1>1, <2>1, SoleOwner DEF Owns
  <2>4. SpeedTestTypes' /\ HandedOver' /\ OneTest'
    BY <1>1, <1>2, <1>3, <2>1, <2>2, <2>3 DEF SpeedTestTypes, HandedOver, OneTest, Owns
  <2>5. Lists(recorded, worker[r].result) /\ latest <= latest' /\ latest' <= begun
    <3>1. Lists(recorded, worker[r].result) /\ latest <= worker[r].result
      BY <1>1, <2>1 DEF ResultInv
    <3> QED BY <1>1, <2>1, <3>1 DEF Lists, ResultInv
  <2>6. ASSUME NEW t \in Nat, t <= latest PROVE t <= latest'
    BY <1>3, <2>1, <2>5, <2>6
  <2>7. ResultInv'
    <3>1. \A s \in Askers : worker[s].result \in Nat
      BY <1>1 DEF SpeedTestTypes, WorkerType
    <3>2. published \subseteq Nat
      BY <1>1 DEF SpeedTestTypes
    <3>3. \A s \in Askers \ {r} : worker[s].at \notin {"polling", "recording", "showing"}
      BY <2>3 DEF Owns
    <3>4. \A s \in Askers :
            worker'[s].at = "publishing" =>
              Lists(recorded', worker'[s].result) /\ worker'[s].result <= latest'
      BY <1>1, <1>3, <2>1, <2>2, <2>5, <2>6, <3>1 DEF ResultInv, Lists
    <3>5. \A t \in published' : t <= latest' /\ Lists(recorded', t)
      BY <1>1, <2>1, <2>6, <3>2 DEF ResultInv, Lists
    <3> QED BY <1>1, <1>2, <2>1, <2>2, <2>5, <3>3, <3>4, <3>5 DEF ResultInv, Unrecorded
  <2> QED BY <1>4, <2>4, <2>7 DEF SpeedTestInv
<1>7. CASE Publish(r)
  <2>1. /\ published' = published \cup {worker[r].result} /\ worker[r].at = "publishing"
        /\ worker' = [worker EXCEPT ![r] = Ended]
        /\ UNCHANGED <<state, latest, recorded>>
    BY <1>7 DEF Publish
  <2>2. /\ \A s \in Askers \ {r} : worker'[s] = worker[s]
        /\ worker'[r].at = "ended" /\ worker' \in [Askers -> WorkerType]
    BY <1>1, <2>1 DEF SpeedTestTypes, WorkerType, Ended
  <2>3. SpeedTestTypes'
    BY <1>1, <1>2, <1>3, <2>1, <2>2 DEF SpeedTestTypes
  <2>5. \A s \in Askers : Owns(s)' = Owns(s)
    BY <1>1, <1>2, <2>1, <2>2 DEF Owns
  <2>6. HandedOver' /\ OneTest'
    BY <1>1, <1>2, <2>1, <2>2, <2>5 DEF HandedOver, OneTest
  <2>4. ResultInv'
    BY <1>1, <1>2, <2>1, <2>2 DEF ResultInv, Unrecorded, Lists
  <2> QED BY <1>4, <2>3, <2>4, <2>6 DEF SpeedTestInv
<1> QED BY <1>5, <1>6, <1>7 DEF Finishes

LEMMA SpeedTestSafe == SpeedTestSpec => []SpeedTestInv
<1>1. SpeedTestInit => SpeedTestInv
  <2> SUFFICES ASSUME SpeedTestInit PROVE SpeedTestInv
    OBVIOUS
  <2>1. SpeedTestTypes
    <3>1. NotAsking \in AskerType /\ Ended \in WorkerType
      BY DEF NotAsking, Ended, AskerType, WorkerType
    <3>2. active \in BOOLEAN /\ up \in BOOLEAN
      BY Zenon DEF SpeedTestInit
    <3>3. recorded \in Seq(Nat) /\ begun \in 0 .. MaxTests
      BY SpeedTestAssumption DEF SpeedTestInit, SpeedTestAssumption
    <3> QED BY <3>1, <3>2, <3>3 DEF SpeedTestInit, SpeedTestTypes
  <2>2. HandedOver /\ OneTest /\ WaitInv
    BY DEF SpeedTestInit, HandedOver, OneTest, Owns, WaitInv, NotAsking, Ended
  <2>3. ResultInv
    BY DEF SpeedTestInit, ResultInv, Ended
  <2> QED BY <2>1, <2>2, <2>3 DEF SpeedTestInv
<1>2. SpeedTestInv /\ [SpeedTestNext]_speedTestVars => SpeedTestInv'
  BY QuietStep, StartStep, CallStep, PollStep, FinishStep DEF SpeedTestNext
<1> QED BY <1>1, <1>2, PTL DEF SpeedTestSpec

(* The askers, the goroutines and the results have their types. *)
THEOREM SpeedTestTypeCorrect == SpeedTestSpec => []SpeedTestTypes
BY SpeedTestSafe, PTL DEF SpeedTestInv

(* A test shown as running has exactly one owner, for any number of Starts *)
(* and goroutines, whatever calls fail and whenever the daemon stops.      *)
THEOREM OneTestAtATime == SpeedTestSpec => []OneTest
BY SpeedTestSafe, PTL DEF SpeedTestInv

(* A test is recorded once and in its order, and a client told of a result *)
(* is shown that one or a later.                                           *)
THEOREM ResultsRecordedOnce == SpeedTestSpec => []ResultsOnce
<1>1. SpeedTestInv => ResultsOnce
  <2> SUFFICES ASSUME SpeedTestInv PROVE ResultsOnce
    OBVIOUS
  <2>1. DOMAIN recorded = 1 .. Len(recorded)
    BY DEF SpeedTestInv, SpeedTestTypes
  <2> QED BY <2>1 DEF SpeedTestInv, ResultInv, ResultsOnce, Lists, ToSet
<1> QED BY <1>1, SpeedTestSafe, PTL

(* Nothing is recorded once the daemon has waited: a goroutine that begins *)
(* late finds its context cancelled and never has a result.                *)
THEOREM NothingRecordedLate == SpeedTestSpec => NothingAfterWait
<1>1. ASSUME SpeedTestInv, [SpeedTestNext]_speedTestVars, stage = "waited"
      PROVE  UNCHANGED recorded
  <2>1. ASSUME NEW r \in Askers PROVE worker[r].at # "recording"
    BY <1>1 DEF SpeedTestInv, WaitInv
  <2>2. CASE UNCHANGED speedTestVars
    BY <2>2 DEF speedTestVars, outputs
  <2>3. CASE DishChanges \/ Cancel \/ Wait
    BY <2>3 DEF DishChanges, Cancel, Wait, outputs
  <2>4. ASSUME NEW r \in Askers,
               Start(r) \/ StartGoesOn(r) \/ Cancelled(r) \/ Poll(r) \/ Finishes(r)
        PROVE  UNCHANGED recorded
    BY <2>1, <2>4
       DEF Start, StartGoesOn, StartAccepted, CallFails, CallsAgain, GivesUp, Cancelled, Poll,
           Refused, PollFails, Answered, WorkerEnds, Finishes, Record, Show, Publish, outputs
  <2> QED BY <1>1, <2>2, <2>3, <2>4 DEF SpeedTestNext
<1> QED BY <1>1, SpeedTestSafe, PTL DEF SpeedTestSpec, NothingAfterWait
=============================================================================

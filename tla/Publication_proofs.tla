-------------------------- MODULE Publication_proofs --------------------------
(***************************************************************************)
(* Proofs about Publication, for any set of requests, options, updates and *)
(* values: its types, what a power failure leaves of the settings, that    *)
(* the running parts work with what is stored, and that polls of a disabled *)
(* location stop.                                                          *)
(***************************************************************************)
EXTENDS Publication, SequenceTheorems, TLAPS

Requesting == [at : Stages, new : Config, todo : Seq(Live)]

(* Who writes holds the lock, and what was renamed is in place. *)
LockInv ==
  /\ \A r \in Requests : request[r].at \in {"rename", "sync"} => lock = r
  /\ \A r \in Requests : request[r].at = "sync" => file = request[r].new

(* PowerLossKeepsSettings, also after a load that was refused. *)
DurableInv ==
  \A config \in durable : \A o \in Options : o \notin doubtful => config[o] = memory[o]

(* A publisher inside SetMapInterval is at that setter. *)
SetterInv ==
  \A r \in Requests : request[r].at \in {"drain", "send"} =>
    request[r].todo # <<>> /\ Head(request[r].todo) = "poll_map"

(* A poll under way while the location is disabled is the only one that can *)
(* still store it.                                                         *)
LocationInv ==
  /\ Enabled => stores = 0
  /\ ~Enabled => /\ stores <= 1 /\ (poll # "idle" => stores = 0)
                 /\ location => stores = 1

(* Where the last interval applied is. *)
ChannelInv ==
  IF channel # <<>> THEN Head(channel) = applied["poll_map"]
  ELSE ticker = applied["poll_map"] \/ \E r \in Requests : request[r].at = "send"

-----------------------------------------------------------------------------
(* Apply calls its setters in one order, for options that exist. *)
LEMMA ApplyingType == Applying \in Seq(Live) /\ Live \subseteq Options
<1>1. \A o : Setter(o) \in Seq(Options)
  BY DEF Setter
<1>2. Applying \in Seq(Options)
  BY <1>1 DEF Applying
<1>3. Live \subseteq Options
  BY <1>2 DEF Live
<1>4. Applying \in Seq(Live)
  BY <1>2 DEF Live
<1> QED BY <1>3, <1>4

LEMMA WithType ==
  ASSUME NEW config \in Config, NEW patch \in Patches
  PROVE  With(config, patch) \in Config
<1>1. \A o \in Options : With(config, patch)[o] \in Values
  BY SettingsAssumption DEF With, Config, SettingsAssumption
<1> QED BY <1>1 DEF With, Config

LEMMA EmptyChannel == <<>> \in Seq(Nat) /\ Len(<<>>) <= 1
OBVIOUS

(* Replacing one request's record keeps the type of them all. *)
LEMMA RequestType ==
  ASSUME request \in [Requests -> Requesting], NEW r \in Requests, NEW new \in Requesting,
         request' = [request EXCEPT ![r] = new]
  PROVE  request' \in [Requests -> Requesting]
OBVIOUS

LEMMA IdleType == Idle \in Requesting
<1>1. Initial \in Config /\ <<>> \in Seq(Live)
  BY SettingsAssumption DEF SettingsAssumption
<1> QED BY <1>1 DEF Idle, Requesting, Stages

-----------------------------------------------------------------------------
(* Every step keeps the types of the manager, of the requests and of the   *)
(* poller.                                                                 *)
LEMMA TypeStep == PublicationTypeOK /\ [PublicationNext]_publicationVars => PublicationTypeOK'
<1> SUFFICES ASSUME PublicationTypeOK, [PublicationNext]_publicationVars
             PROVE  PublicationTypeOK'
  OBVIOUS
<1> USE DEF PublicationTypeOK, TypeOK, pollerVars, managerVars
<1>0. /\ Initial \in Config /\ MaxWrites \in Nat /\ Top \in Nat
      /\ request \in [Requests -> Requesting]
      /\ Values \subseteq Nat /\ 0 \in Values /\ 1 \in Values
      /\ "poll_map" \in Options /\ "location_enabled" \in Options
  BY SettingsAssumption, PublicationAssumption
     DEF SettingsAssumption, PublicationAssumption, Requesting, Values
<1>1. ASSUME NEW r \in Requests, Manages(r) PROVE PublicationTypeOK'
  <2>1. ASSUME Locks(r), NEW new \in Config, NEW todo \in Seq(Live),
               request' = [request EXCEPT ![r] = [at |-> "rename", new |-> new, todo |-> todo]],
               UNCHANGED pollerVars
        PROVE  PublicationTypeOK'
    <3>1. request' \in [Requests -> Requesting]
      BY <1>0, <2>1, RequestType DEF Requesting, Stages
    <3> QED BY <1>0, <2>1, <3>1 DEF Locks, Requesting
  <2>2. ASSUME NEW patch \in Patches, Update(r, patch), UNCHANGED pollerVars
        PROVE PublicationTypeOK'
    BY <2>1, <2>2, WithType, ApplyingType DEF Update
  <2>3. CASE RegenerateToken(r) /\ UNCHANGED pollerVars
    <3>1. [memory EXCEPT !["token"] = IF @ = 0 THEN 1 ELSE 0] \in Config
      BY <1>0, <2>3 DEF RegenerateToken, Config
    <3>2. <<>> \in Seq(Live)
      OBVIOUS
    <3> QED BY <2>1, <2>3, <3>1, <3>2 DEF RegenerateToken
  <2>4. CASE Rename(r) /\ UNCHANGED pollerVars
    <3>1. request[r] \in Requesting
      BY <1>0
    <3>2. request[r].new \in Config /\ [request[r] EXCEPT !.at = "sync"] \in Requesting
      BY <3>1 DEF Requesting, Stages
    <3>3. request' = [request EXCEPT ![r] = [request[r] EXCEPT !.at = "sync"]]
      BY <1>0, <2>4 DEF Rename, Goes
    <3>4. request' \in [Requests -> Requesting]
      BY <1>0, <3>2, <3>3, RequestType
    <3> QED BY <2>4, <3>2, <3>4 DEF Rename, Requesting
  <2>5. CASE SyncDirectory(r) /\ UNCHANGED pollerVars
    <3>1. request[r] \in Requesting
      BY <1>0
    <3>2. request[r].new \in Config /\ [request[r] EXCEPT !.at = "apply"] \in Requesting
      BY <3>1 DEF Requesting, Stages
    <3>3. \/ request' = [request EXCEPT ![r] = [request[r] EXCEPT !.at = "apply"]]
          \/ request' = [request EXCEPT ![r] = Idle]
      BY <1>0, <2>5 DEF SyncDirectory, Goes, Ends
    <3>4. request' \in [Requests -> Requesting]
      BY <1>0, <3>2, <3>3, RequestType, IdleType
    <3>5. overlap' \in BOOLEAN
      BY <2>5 DEF SyncDirectory, Publishing
    <3> QED BY <2>5, <3>2, <3>4, <3>5 DEF SyncDirectory, Requesting
  <2>6. CASE (WriteFails(r) \/ Returns(r)) /\ UNCHANGED pollerVars
    <3>1. request' \in [Requests -> Requesting]
      BY <1>0, <2>6, RequestType, IdleType DEF WriteFails, Returns, Ends
    <3> QED BY <2>6, <3>1 DEF WriteFails, Returns, Requesting
  <2> QED BY <1>1, <2>2, <2>3, <2>4, <2>5, <2>6 DEF Manages, Writes
<1>2. ASSUME NEW r \in Requests, Applies(r)
      PROVE  TypeOK' /\ request[r].new \in Config
    <3>1. request[r] \in Requesting
      BY <1>0
    <3>2. /\ request[r].new \in Config /\ Tail(request[r].todo) \in Seq(Live)
          /\ Head(request[r].todo) \in Options
      <4>1. request[r].new \in Config /\ request[r].todo \in Seq(Live) /\ request[r].todo # <<>>
        BY <1>2, <3>1 DEF Requesting, Applies
      <4>2. Head(request[r].todo) \in Live /\ Tail(request[r].todo) \in Seq(Live)
        BY <4>1
      <4> QED BY <4>1, <4>2, ApplyingType
    <3>6. [request[r] EXCEPT !.at = "apply", !.todo = Tail(@)] \in Requesting
      BY <3>1, <3>2 DEF Requesting, Stages
    <3>3. request' = [request EXCEPT ![r] = [request[r] EXCEPT !.at = "apply", !.todo = Tail(@)]]
      BY <1>0, <1>2 DEF Applies
    <3>4. request' \in [Requests -> Requesting]
      BY <1>0, <3>6, <3>3, RequestType
    <3>5. applied' \in Config
      BY <1>2, <3>2 DEF Applies, Config
    <3> QED BY <1>2, <3>2, <3>4, <3>5 DEF Applies, Requesting
<1>3. ASSUME NEW r \in Requests, Sets(r) PROVE PublicationTypeOK'
  <2>1. CASE SetLocationEnabled(r)
    <3>1. location' \in BOOLEAN /\ availability' \in {"unknown", "yes", "no"} /\ stores' \in Nat
      <4>1. CASE request[r].new["location_enabled"] = 1
        <5>1. UNCHANGED <<location, availability>> /\ stores' = 0
          BY <2>1, <4>1, Zenon DEF SetLocationEnabled
        <5> QED BY <5>1
      <4>2. CASE request[r].new["location_enabled"] # 1
        <5>1. location' = FALSE /\ availability' = "unknown" /\ UNCHANGED stores
          BY <2>1, <4>2, Zenon DEF SetLocationEnabled
        <5> QED BY <5>1
      <4> QED BY <4>1, <4>2
    <3>2. UNCHANGED <<poll, channel, ticker>>
      BY <2>1 DEF SetLocationEnabled
    <3> QED BY <1>2, <2>1, <3>1, <3>2 DEF SetLocationEnabled
  <2>2. CASE SetMapInterval(r)
    <3>1. request[r].new["poll_map"] \in Nat
      BY <1>0, <1>2, <2>2 DEF SetMapInterval, Config
    <3> QED BY <1>2, <2>2, <3>1 DEF SetMapInterval
  <2>3. CASE FindsFull(r) \/ Drain(r)
    <3>1. request[r] \in Requesting
      BY <1>0
    <3>2. /\ [request[r] EXCEPT !.at = "drain"] \in Requesting
          /\ [request[r] EXCEPT !.at = "send"] \in Requesting
      BY <3>1 DEF Requesting, Stages
    <3>3. request' \in [Requests -> Requesting]
      BY <1>0, <2>3, <3>2, RequestType DEF FindsFull, Drain, Goes
    <3>4. channel' \in Seq(Nat) /\ Len(channel') <= 1
      BY <2>3, EmptyChannel DEF FindsFull, Drain
    <3> QED BY <2>3, <3>3, <3>4 DEF FindsFull, Drain, Requesting
  <2>4. CASE OtherSetter(r)
    BY <1>2, <2>4 DEF OtherSetter
  <2> QED BY <1>3, <2>1, <2>2, <2>3, <2>4 DEF Sets
<1>4. CASE ReceiveInterval \/ AskLocation \/ FinishesPoll \/ UNCHANGED publicationVars
  <2>1. channel # <<>> => Head(channel) \in Nat
    BY HeadTailProperties
  <2>2. CASE StoreLocation
    <3>1. stores' \in Nat /\ UNCHANGED <<vars, availability, channel, ticker>>
      BY <2>2 DEF StoreLocation
    <3> QED BY <2>2, <3>1 DEF StoreLocation, vars
  <2>3. CASE ReceiveInterval \/ AskLocation \/ LocationAnswered \/ LocationFails
             \/ UNCHANGED publicationVars
    BY <2>1, <2>3, EmptyChannel DEF ReceiveInterval, AskLocation, LocationAnswered, LocationFails,
       vars, publicationVars
  <2> QED BY <1>4, <2>2, <2>3 DEF FinishesPoll
<1>5. CASE RestartPoller
  <2>1. request' \in [Requests -> Requesting]
    BY <1>5, IdleType DEF RestartPoller, Restart
  <2>2. memory' \in Config /\ memory'["poll_map"] \in Nat
    BY <1>0, <1>5 DEF RestartPoller, Restart, Config
  <2>3. running' \in BOOLEAN
    BY <1>5, Zenon DEF RestartPoller, Restart, Loads
  <2>4. file' \in Config /\ durable' \subseteq Config /\ applied' \in Config
    BY <1>5 DEF RestartPoller, Restart
  <2> QED BY <1>5, <2>1, <2>2, <2>3, <2>4, EmptyChannel DEF RestartPoller, Restart, StartsPolling, Requesting
<1> QED BY <1>1, <1>3, <1>4, <1>5 DEF PublicationNext

(* The settings, the requests, the poller and its channel have their types. *)
THEOREM Types == PublicationSpec => []PublicationTypeOK
<1>1. PublicationInit => PublicationTypeOK
  <2> SUFFICES ASSUME PublicationInit PROVE PublicationTypeOK
    OBVIOUS
  <2>1. Initial \in Config /\ Initial["poll_map"] \in Nat /\ MaxWrites \in Nat
    BY SettingsAssumption, PublicationAssumption
       DEF SettingsAssumption, PublicationAssumption, Config, Values
  <2>2. request \in [Requests -> Requesting]
    BY IdleType DEF PublicationInit, Init
  <2>3. channel \in Seq(Nat) /\ Len(channel) <= 1
    BY EmptyChannel DEF PublicationInit
  <2>5. durable \subseteq Config /\ writes \in 0 .. MaxWrites
    BY <2>1 DEF PublicationInit, Init
  <2>4. TypeOK
    BY <2>1, <2>2, <2>5 DEF PublicationInit, Init, TypeOK, Requesting
  <2> QED BY <2>1, <2>3, <2>4 DEF PublicationInit, PublicationTypeOK
<1> QED BY <1>1, TypeStep, PTL DEF PublicationSpec
-----------------------------------------------------------------------------
(* What the manager's own steps do to the lock, the file and the settings. *)
LEMMA LockStep ==
  ASSUME PublicationTypeOK, LockInv, DurableInv, [PublicationNext]_publicationVars
  PROVE  LockInv' /\ DurableInv'
<1> USE DEF pollerVars, managerVars
<1>0. request \in [Requests -> Requesting] /\ Nobody \notin Requests
  BY SettingsAssumption DEF SettingsAssumption, PublicationTypeOK, TypeOK, Requesting
<1>1. ASSUME NEW r \in Requests, Manages(r) PROVE LockInv' /\ DurableInv'
  <2>1. CASE (\E patch \in Patches : Update(r, patch)) \/ RegenerateToken(r)
    <3>1. /\ lock = Nobody /\ lock' = r /\ UNCHANGED <<file, durable, memory, doubtful>>
          /\ \A s \in Requests : s # r => request'[s] = request[s]
          /\ request'[r].at = "rename"
      BY <1>0, <2>1 DEF Update, RegenerateToken, Locks
    <3> QED BY <1>0, <3>1 DEF LockInv, DurableInv
  <2>2. CASE Rename(r)
    <3>1. /\ lock = r /\ lock' = r /\ file' = request'[r].new
          /\ durable' = durable \cup {request[r].new} /\ memory' = memory
          /\ doubtful' = doubtful \cup {o \in Options : request[r].new[o] # memory[o]}
          /\ \A s \in Requests : s # r => request'[s] = request[s]
      BY <1>0, <2>2 DEF Rename, Goes, LockInv, Requesting
    <3>2. LockInv'
      BY <1>0, <3>1 DEF LockInv
    <3>3. DurableInv'
      BY <3>1 DEF DurableInv
    <3> QED BY <3>2, <3>3
  <2>3. CASE SyncDirectory(r)
    <3>1. /\ lock = r /\ file = request[r].new /\ durable' = {file} /\ memory' = file
          /\ file' = file /\ request'[r].at \in {"apply", "idle"}
          /\ \A s \in Requests : s # r => request'[s] = request[s]
      BY <1>0, <2>3 DEF SyncDirectory, Goes, Ends, Idle, LockInv, Requesting
    <3> QED BY <1>0, <3>1 DEF LockInv, DurableInv
  <2>4. CASE WriteFails(r)
    <3>1. /\ lock = r /\ UNCHANGED <<file, durable, memory, doubtful>>
          /\ request'[r].at = "idle"
          /\ \A s \in Requests : s # r => request'[s] = request[s]
      BY <1>0, <2>4 DEF WriteFails, Ends, Idle, LockInv
    <3> QED BY <1>0, <3>1 DEF LockInv, DurableInv
  <2>5. CASE Returns(r)
    BY <1>0, <2>5 DEF Returns, Ends, Idle, LockInv, DurableInv
  <2> QED BY <1>1, <2>1, <2>2, <2>3, <2>4, <2>5 DEF Manages, Writes
<1>2. ASSUME NEW r \in Requests, Sets(r) PROVE LockInv' /\ DurableInv'
  <2>1. /\ UNCHANGED <<lock, file, durable, memory, doubtful>>
        /\ request'[r].at \notin {"rename", "sync"}
        /\ \A s \in Requests : s # r => request'[s] = request[s]
    BY <1>0, <1>2 DEF Sets, SetLocationEnabled, SetMapInterval, FindsFull, Drain, OtherSetter,
                      Applies, Goes, Requesting
  <2> QED BY <1>0, <2>1 DEF LockInv, DurableInv
<1>3. CASE ReceiveInterval \/ AskLocation \/ FinishesPoll \/ UNCHANGED publicationVars
  BY <1>3 DEF ReceiveInterval, AskLocation, FinishesPoll, LocationAnswered, LocationFails,
              StoreLocation, vars, publicationVars, LockInv, DurableInv
<1>4. CASE RestartPoller
  BY <1>4 DEF RestartPoller, Restart, Idle, LockInv, DurableInv
<1> QED BY <1>1, <1>2, <1>3, <1>4 DEF PublicationNext

(* Whatever moment the power fails at, the options outside a write that was *)
(* not acknowledged are found as the daemon works with them: a write never  *)
(* ends half, and one that failed is not taken over.                       *)
THEOREM PowerLossSafe == PublicationSpec => []PowerLossKeepsSettings
<1>1. PublicationInit => LockInv /\ DurableInv
  BY DEF PublicationInit, Init, Idle, LockInv, DurableInv
<1>2. PublicationTypeOK /\ LockInv /\ DurableInv /\ [PublicationNext]_publicationVars
      => LockInv' /\ DurableInv'
  BY LockStep
<1>3. DurableInv => PowerLossKeepsSettings
  BY DEF DurableInv, PowerLossKeepsSettings
<1> QED BY <1>1, <1>2, <1>3, Types, PTL DEF PublicationSpec
-----------------------------------------------------------------------------
(* A publisher in the middle of SetMapInterval stays at that setter. *)
LEMMA SetterStep ==
  ASSUME PublicationTypeOK, SetterInv, [PublicationNext]_publicationVars
  PROVE  SetterInv'
<1> USE DEF pollerVars, managerVars
<1>0. request \in [Requests -> Requesting]
  BY DEF PublicationTypeOK, TypeOK, Requesting
<1>1. ASSUME NEW r \in Requests, Manages(r) PROVE SetterInv'
  <2>1. /\ request'[r].at \notin {"drain", "send"}
        /\ \A s \in Requests : s # r => request'[s] = request[s]
    <3>1. CASE (\E patch \in Patches : Update(r, patch)) \/ RegenerateToken(r)
      BY <1>0, <3>1 DEF Update, RegenerateToken
    <3>2. CASE Rename(r) \/ SyncDirectory(r)
      <4>1. \/ request' = [request EXCEPT ![r].at = "sync"]
            \/ request' = [request EXCEPT ![r].at = "apply"]
            \/ request' = [request EXCEPT ![r] = Idle]
        BY <3>2 DEF Rename, SyncDirectory, Goes, Ends
      <4> QED BY <1>0, <4>1 DEF Idle, Requesting
    <3>3. CASE WriteFails(r) \/ Returns(r)
      BY <1>0, <3>3 DEF WriteFails, Returns, Ends, Idle
    <3> QED BY <1>1, <3>1, <3>2, <3>3 DEF Manages, Writes
  <2> QED BY <1>0, <2>1 DEF SetterInv
<1>2. ASSUME NEW r \in Requests, Sets(r) PROVE SetterInv'
  <2>1. CASE SetLocationEnabled(r) \/ SetMapInterval(r) \/ OtherSetter(r)
    <3>1. /\ request'[r].at = "apply" /\ \A s \in Requests : s # r => request'[s] = request[s]
      BY <1>0, <2>1 DEF SetLocationEnabled, SetMapInterval, OtherSetter, Applies, Requesting
    <3> QED BY <1>0, <3>1 DEF SetterInv
  <2>2. CASE FindsFull(r) \/ Drain(r)
    <3>1. /\ request[r].todo # <<>> /\ Head(request[r].todo) = "poll_map"
      BY <2>2 DEF FindsFull, Drain, AtSetter, SetterInv
    <3>2. /\ request'[r].todo = request[r].todo
          /\ \A s \in Requests : s # r => request'[s] = request[s]
      BY <1>0, <2>2 DEF FindsFull, Drain, Goes, Requesting
    <3> QED BY <1>0, <3>1, <3>2 DEF SetterInv
  <2> QED BY <1>2, <2>1, <2>2 DEF Sets
<1>3. CASE ReceiveInterval \/ AskLocation \/ FinishesPoll \/ UNCHANGED publicationVars
  BY <1>3 DEF ReceiveInterval, AskLocation, FinishesPoll, LocationAnswered, LocationFails,
              StoreLocation, vars, publicationVars, SetterInv
<1>4. CASE RestartPoller
  BY <1>4 DEF RestartPoller, Restart, Idle, SetterInv
<1> QED BY <1>1, <1>2, <1>3, <1>4 DEF PublicationNext

(* What a setter of Apply leaves of the other options. *)
LEMMA AppliesOne ==
  ASSUME PublicationTypeOK, NEW r \in Requests, Applies(r)
  PROVE  /\ Head(request[r].todo) \in Options
         /\ applied'[Head(request[r].todo)] = request[r].new[Head(request[r].todo)]
         /\ \A o \in Options : o # Head(request[r].todo) => applied'[o] = applied[o]
<1>1. request[r].todo \in Seq(Live) /\ request[r].todo # <<>>
  BY DEF PublicationTypeOK, TypeOK, Applies
<1>2. Head(request[r].todo) \in Options
  BY <1>1, ApplyingType, HeadTailProperties
<1>3. applied \in Config
  BY DEF PublicationTypeOK, TypeOK
<1> QED BY <1>2, <1>3 DEF Applies, Config

(* Every step keeps a disabled location hidden, and knows of the polls that *)
(* outlived the permission.                                                *)
LEMMA LocationStep ==
  ASSUME PublicationTypeOK, SetterInv, LocationInv, [PublicationNext]_publicationVars
  PROVE  LocationInv'
<1> USE DEF pollerVars, managerVars, LocationInv, Enabled
<1>0. "location_enabled" \in Options /\ stores \in Nat /\ location \in BOOLEAN
  BY PublicationAssumption DEF PublicationAssumption, PublicationTypeOK
<1>1. ASSUME NEW r \in Requests, Manages(r) PROVE LocationInv'
  BY <1>1 DEF Manages, Writes, Update, RegenerateToken, Locks, Rename, SyncDirectory, WriteFails,
              Returns
<1>2. ASSUME NEW r \in Requests, Sets(r) PROVE LocationInv'
  <2>1. CASE SetLocationEnabled(r)
    <3>1. Applies(r) /\ Head(request[r].todo) = "location_enabled"
      BY <2>1 DEF SetLocationEnabled, AtSetter
    <3>2. applied'["location_enabled"] = request[r].new["location_enabled"]
      BY <3>1, AppliesOne
    <3> QED BY <1>0, <2>1, <3>2 DEF SetLocationEnabled
  <2>2. CASE SetMapInterval(r) \/ OtherSetter(r)
    <3>1. Applies(r) /\ Head(request[r].todo) # "location_enabled"
      BY <2>2 DEF SetMapInterval, OtherSetter, AtSetter, SetterInv
    <3>2. applied'["location_enabled"] = applied["location_enabled"]
      BY <1>0, <3>1, AppliesOne
    <3> QED BY <2>2, <3>2 DEF SetMapInterval, OtherSetter
  <2>3. CASE FindsFull(r) \/ Drain(r)
    BY <2>3 DEF FindsFull, Drain
  <2> QED BY <1>2, <2>1, <2>2, <2>3 DEF Sets
<1>3. CASE ReceiveInterval \/ AskLocation \/ FinishesPoll \/ UNCHANGED publicationVars
  BY <1>3 DEF ReceiveInterval, AskLocation, FinishesPoll, LocationAnswered, LocationFails,
              StoreLocation, vars, publicationVars
<1>4. CASE RestartPoller
  BY <1>4 DEF RestartPoller, StartsPolling
<1> QED BY <1>1, <1>2, <1>3, <1>4 DEF PublicationNext

(* Once the location is disabled, one answer at most is still stored until  *)
(* it is enabled again, and what is shown of it meanwhile is that answer.   *)
THEOREM LocationStopsSafe == PublicationSpec => []LocationStops
<1>1. PublicationInit => SetterInv /\ LocationInv
  BY DEF PublicationInit, Init, Idle, SetterInv, LocationInv
<1>2. /\ PublicationTypeOK /\ SetterInv /\ LocationInv /\ [PublicationNext]_publicationVars
         => SetterInv' /\ LocationInv'
  BY SetterStep, LocationStep
<1>3. LocationInv => LocationStops
  BY DEF LocationInv, LocationStops
<1> QED BY <1>1, <1>2, <1>3, Types, PTL DEF PublicationSpec
-----------------------------------------------------------------------------
(* Every step keeps the way of the last interval: it waits in the channel,  *)
(* or the ticker has it, or a publisher that drained it is about to send.   *)
LEMMA ChannelStep ==
  ASSUME PublicationTypeOK, SetterInv, ChannelInv, [PublicationNext]_publicationVars
  PROVE  ChannelInv'
<1> USE DEF pollerVars, managerVars
<1>0. "poll_map" \in Options /\ request \in [Requests -> Requesting] /\ channel \in Seq(Nat)
  BY PublicationAssumption DEF PublicationAssumption, PublicationTypeOK, TypeOK, Requesting
<1>1. ASSUME NEW r \in Requests, Manages(r) PROVE ChannelInv'
  <2>1. UNCHANGED <<applied, channel, ticker>> /\ request[r].at # "send"
    <3>1. CASE (\E patch \in Patches : Update(r, patch)) \/ RegenerateToken(r)
      BY <1>1, <3>1 DEF Manages, Update, RegenerateToken, Locks, Idle
    <3>2. CASE Rename(r) \/ SyncDirectory(r) \/ WriteFails(r) \/ Returns(r)
      BY <1>1, <3>2 DEF Manages, Rename, SyncDirectory, WriteFails, Returns
    <3> QED BY <1>1, <3>1, <3>2 DEF Manages, Writes
  <2>2. \A s \in Requests : s # r => request'[s] = request[s]
    BY <1>0, <1>1 DEF Manages, Writes, Update, RegenerateToken, Rename, SyncDirectory, WriteFails,
                      Returns, Goes, Ends
  <2> QED BY <2>1, <2>2 DEF ChannelInv
<1>2. ASSUME NEW r \in Requests, Sets(r) PROVE ChannelInv'
  <2>1. CASE SetLocationEnabled(r) \/ OtherSetter(r)
    <3>1. /\ Applies(r) /\ Head(request[r].todo) # "poll_map" /\ request[r].at = "apply"
          /\ UNCHANGED <<channel, ticker>>
      BY <2>1 DEF SetLocationEnabled, OtherSetter, AtSetter
    <3>2. applied'["poll_map"] = applied["poll_map"]
      BY <1>0, <3>1, AppliesOne
    <3>3. \A s \in Requests : s # r => request'[s] = request[s]
      BY <1>0, <3>1 DEF Applies
    <3> QED BY <3>1, <3>2, <3>3 DEF ChannelInv
  <2>2. CASE SetMapInterval(r)
    <3>1. Applies(r) /\ Head(request[r].todo) = "poll_map"
      BY <2>2 DEF SetMapInterval, AtSetter, SetterInv
    <3>2. applied'["poll_map"] = request[r].new["poll_map"]
      BY <3>1, AppliesOne
    <3>3. channel' # <<>> /\ Head(channel') = request[r].new["poll_map"]
      BY <2>2 DEF SetMapInterval
    <3> QED BY <3>2, <3>3 DEF ChannelInv
  <2>3. CASE FindsFull(r)
    BY <1>0, <2>3 DEF FindsFull, ChannelInv
  <2>4. CASE Drain(r)
    <3>1. request'[r].at = "send" /\ channel' = <<>>
      BY <1>0, <2>4 DEF Drain, Goes, Requesting
    <3> QED BY <3>1 DEF ChannelInv
  <2> QED BY <1>2, <2>1, <2>2, <2>3, <2>4 DEF Sets
<1>3. CASE ReceiveInterval
  BY <1>3 DEF ReceiveInterval, vars, ChannelInv
<1>4. CASE AskLocation \/ FinishesPoll \/ UNCHANGED publicationVars
  BY <1>4 DEF AskLocation, FinishesPoll, LocationAnswered, LocationFails, StoreLocation, vars,
              publicationVars, ChannelInv
<1>5. CASE RestartPoller
  BY <1>5 DEF RestartPoller, Restart, StartsPolling, ChannelInv
<1> QED BY <1>1, <1>2, <1>3, <1>4, <1>5 DEF PublicationNext

(* What a request that publishes, or is about to, has in hand. *)
HasLeft(r, o) == \E i \in DOMAIN request[r].todo : request[r].todo[i] = o
PlanInv ==
  \A r \in Requests : request[r].at \in {"rename", "sync"} =>
    \/ request[r].todo = Applying
    \/ request[r].todo = <<>> /\ \A o \in Live : request[r].new[o] = memory[o]

(* Without overlap there is one publisher at most, its settings are the     *)
(* manager's, and what it has not left to do is applied.                   *)
AppliedInv ==
  ~overlap =>
    /\ \A r, s \in Requests : Publishing(r) /\ Publishing(s) => r = s
    /\ \A r \in Requests : Publishing(r) => \A o \in Live : request[r].new[o] = memory[o]
    /\ \A o \in Live : \/ applied[o] = memory[o]
                       \/ \E r \in Requests : Publishing(r) /\ HasLeft(r, o)

(* A token is not one of the settings Apply hands on. *)
LEMMA TokenIsNotLive == "token" \notin Live
<1> DEFINE Handed == {"location_enabled", "poll_map", "probe_interval", "outage_started_secs",
                      "webhook_url", "minute_days"}
<1>1. ASSUME NEW o \in Handed PROVE Setter(o) \in Seq(Handed)
  <2> HIDE DEF Handed
  <2> QED BY DEF Setter
<1>2. Applying \in Seq(Handed)
  <2> HIDE DEF Handed
  <2>1. {"location_enabled", "poll_map", "probe_interval", "outage_started_secs", "webhook_url",
         "minute_days"} \subseteq Handed
    BY DEF Handed
  <2> QED BY <1>1, <2>1 DEF Applying
<1>3. \A i \in DOMAIN Applying : Applying[i] \in Handed
  BY <1>2
<1> QED BY <1>3 DEF Live

(* What the manager's steps do to one request; the others are left alone. *)
LEMMA ManagerStep ==
  ASSUME PublicationTypeOK, LockInv, PlanInv, NEW r \in Requests, Manages(r)
  PROVE  /\ PlanInv'
         /\ applied' = applied
         /\ \/ ~Publishing(r) /\ ~Publishing(r)' /\ overlap' = overlap
               /\ \A o \in Live : memory'[o] = memory[o]
            \/ ~Publishing(r) /\ Publishing(r)' /\ request'[r].todo = Applying
               /\ memory' = request'[r].new
               /\ overlap' = \E s \in Requests \ {r} : Publishing(s)
            \/ Publishing(r) /\ request[r].todo = <<>> /\ ~Publishing(r)'
               /\ overlap' = overlap /\ memory' = memory
<1> USE DEF pollerVars, managerVars
<1>0. request \in [Requests -> Requesting]
  BY DEF PublicationTypeOK, TypeOK, Requesting
<1>1. CASE (\E patch \in Patches : Update(r, patch)) \/ RegenerateToken(r)
  <2>1. /\ lock = Nobody /\ UNCHANGED <<memory, applied, overlap>> /\ request[r].at = "idle"
        /\ request'[r].at = "rename" /\ \A s \in Requests : s # r => request'[s] = request[s]
    BY <1>0, <1>1 DEF Update, RegenerateToken, Locks, Idle
  <2>2. \/ request'[r].todo = Applying
        \/ request'[r].todo = <<>> /\ \A o \in Live : request'[r].new[o] = memory[o]
    <3>1. CASE \E patch \in Patches : Update(r, patch)
      BY <1>0, <3>1 DEF Update
    <3>2. CASE RegenerateToken(r)
      <4>1. memory \in Config /\ Live \subseteq Options
        BY ApplyingType DEF PublicationTypeOK, TypeOK
      <4>2. \A o \in Live : [memory EXCEPT !["token"] = IF @ = 0 THEN 1 ELSE 0][o] = memory[o]
        BY <4>1, TokenIsNotLive DEF Config
      <4> QED BY <1>0, <3>2, <4>2 DEF RegenerateToken
    <3> QED BY <1>1, <3>1, <3>2
  <2> QED BY <1>0, <2>1, <2>2 DEF PlanInv, Publishing, LockInv
<1>2. CASE Rename(r)
  <2>1. /\ UNCHANGED <<memory, applied, overlap>> /\ request[r].at = "rename"
        /\ request'[r].at = "sync" /\ request'[r].todo = request[r].todo
        /\ request'[r].new = request[r].new
        /\ \A s \in Requests : s # r => request'[s] = request[s]
    BY <1>0, <1>2 DEF Rename, Goes, Requesting
  <2> QED BY <1>0, <2>1 DEF PlanInv, Publishing
<1>3. CASE SyncDirectory(r)
  <2>1. /\ request[r].at = "sync" /\ lock = r /\ applied' = applied /\ memory' = request[r].new
        /\ \A s \in Requests : s # r => request'[s] = request[s]
        /\ \A s \in Requests : s # r => request[s].at \notin {"rename", "sync"}
    BY <1>0, <1>3 DEF SyncDirectory, Goes, Ends, LockInv
  <2>2. CASE request[r].todo = <<>>
    <3>1. request'[r].at = "idle" /\ overlap' = overlap
      BY <1>0, <1>3, <2>2 DEF SyncDirectory, Ends, Idle
    <3>2. \A o \in Live : memory'[o] = memory[o]
      <4>1. CASE Applying = <<>>
        BY <4>1 DEF Live
      <4>2. CASE Applying # <<>>
        BY <2>1, <2>2, <4>2 DEF PlanInv
      <4> QED BY <4>1, <4>2
    <3> QED BY <2>1, <3>1, <3>2 DEF PlanInv, Publishing
  <2>3. CASE request[r].todo # <<>>
    <3>1. request'[r].at = "apply" /\ request'[r].new = request[r].new
          /\ request'[r].todo = request[r].todo
      BY <1>0, <1>3, <2>3 DEF SyncDirectory, Goes, Requesting
    <3>2. request[r].todo = Applying
      BY <2>1, <2>3 DEF PlanInv
    <3>3. overlap' = \E s \in Requests \ {r} : Publishing(s)
      BY <1>3, <2>3 DEF SyncDirectory
    <3> QED BY <2>1, <3>1, <3>2, <3>3 DEF PlanInv, Publishing
  <2> QED BY <2>2, <2>3
<1>4. CASE WriteFails(r) \/ Returns(r)
  <2>1. UNCHANGED <<memory, applied, overlap>>
        /\ \/ request[r].at \in {"rename", "sync"}
           \/ request[r].at = "apply" /\ request[r].todo = <<>>
    BY <1>4 DEF WriteFails, Returns
  <2>2. request'[r].at = "idle" /\ \A s \in Requests : s # r => request'[s] = request[s]
    BY <1>0, <1>4 DEF WriteFails, Returns, Ends, Idle
  <2> QED BY <1>0, <2>1, <2>2 DEF PlanInv, Publishing
<1> QED BY <1>1, <1>2, <1>3, <1>4 DEF Manages, Writes

(* A publisher takes one setting over, or goes on within SetMapInterval. *)
LEMMA SetterTakes ==
  ASSUME PublicationTypeOK, SetterInv, NEW r \in Requests, Sets(r)
  PROVE  /\ UNCHANGED <<memory, overlap>> /\ Publishing(r) /\ Publishing(r)'
         /\ \A s \in Requests : s # r => request'[s] = request[s]
         /\ request'[r].new = request[r].new
         /\ \/ applied' = applied /\ request'[r].todo = request[r].todo
            \/ /\ request[r].todo # <<>> /\ request'[r].todo = Tail(request[r].todo)
               /\ Applies(r)
<1> USE DEF pollerVars, managerVars
<1>0. request \in [Requests -> Requesting]
  BY DEF PublicationTypeOK, TypeOK, Requesting
<1>1. CASE FindsFull(r) \/ Drain(r)
  BY <1>0, <1>1 DEF FindsFull, Drain, Goes, Publishing, Requesting, AtSetter
<1>2. CASE SetLocationEnabled(r) \/ SetMapInterval(r) \/ OtherSetter(r)
  <2>1. Applies(r)
    BY <1>2 DEF SetLocationEnabled, SetMapInterval, OtherSetter
  <2> QED BY <1>0, <2>1 DEF Applies, Publishing, Requesting
<1> QED BY <1>1, <1>2 DEF Sets

LEMMA AppliedStep ==
  ASSUME PublicationTypeOK, LockInv, SetterInv, PlanInv, AppliedInv,
         [PublicationNext]_publicationVars
  PROVE  PlanInv' /\ AppliedInv'
<1> USE DEF pollerVars, managerVars
<1>0. request \in [Requests -> Requesting] /\ Live \subseteq Options
  BY ApplyingType DEF PublicationTypeOK, TypeOK, Requesting
<1>1. ASSUME NEW r \in Requests, Manages(r) PROVE PlanInv' /\ AppliedInv'
  <2>1. PlanInv' /\ applied' = applied /\ \A s \in Requests : s # r => request'[s] = request[s]
    <3>1. \A s \in Requests : s # r => request'[s] = request[s]
      BY <1>0, <1>1 DEF Manages, Writes, Update, RegenerateToken, Rename, SyncDirectory, WriteFails,
                        Returns, Goes, Ends
    <3> QED BY <1>1, <3>1, ManagerStep
  <2>2. CASE ~Publishing(r) /\ ~Publishing(r)' /\ overlap' = overlap
             /\ \A o \in Live : memory'[o] = memory[o]
    BY <2>1, <2>2 DEF AppliedInv, Publishing, HasLeft
  <2>3. CASE Publishing(r)' /\ request'[r].todo = Applying /\ memory' = request'[r].new
             /\ overlap' = \E s \in Requests \ {r} : Publishing(s)
    <3>1. \A o \in Live : HasLeft(r, o)'
      BY <2>3 DEF HasLeft, Live
    <3>2. overlap' <=> \E s \in Requests \ {r} : Publishing(s)'
      BY <2>1, <2>3 DEF Publishing
    <3>3. ~overlap' => \A s \in Requests : Publishing(s)' => s = r
      BY <3>2
    <3> QED BY <2>1, <2>3, <3>1, <3>3 DEF AppliedInv
  <2>4. CASE Publishing(r) /\ request[r].todo = <<>> /\ ~Publishing(r)'
             /\ overlap' = overlap /\ memory' = memory
    <3>1. \A o \in Live : ~HasLeft(r, o)
      BY <2>4 DEF HasLeft
    <3> QED BY <2>1, <2>4, <3>1 DEF AppliedInv, Publishing, HasLeft
  <2> QED BY <1>1, <2>1, <2>2, <2>3, <2>4, ManagerStep
<1>2. ASSUME NEW r \in Requests, Sets(r) PROVE PlanInv' /\ AppliedInv'
  <2>1. /\ UNCHANGED <<memory, overlap>> /\ Publishing(r) /\ Publishing(r)'
        /\ \A s \in Requests : s # r => request'[s] = request[s]
        /\ request'[r].new = request[r].new
    BY <1>2, SetterTakes
  <2>2. PlanInv'
    BY <2>1 DEF PlanInv, Publishing
  <2>3. CASE applied' = applied /\ request'[r].todo = request[r].todo
    <3>1. \A s \in Requests : (Publishing(s) <=> Publishing(s)')
                              /\ request'[s].new = request[s].new
                              /\ \A o \in Live : HasLeft(s, o) <=> HasLeft(s, o)'
      BY <2>1, <2>3 DEF Publishing, HasLeft
    <3> QED BY <2>1, <2>2, <2>3, <3>1 DEF AppliedInv
  <2>4. CASE Applies(r) /\ request[r].todo # <<>> /\ request'[r].todo = Tail(request[r].todo)
    <3>1. /\ applied'[Head(request[r].todo)] = request[r].new[Head(request[r].todo)]
          /\ \A o \in Live : o # Head(request[r].todo) => applied'[o] = applied[o]
      BY <1>0, <2>4, AppliesOne
    <3>2. \A o \in Live : HasLeft(r, o) /\ o # Head(request[r].todo) => HasLeft(r, o)'
      <4>1. ASSUME NEW t \in Seq(Live), t # <<>>, NEW i \in DOMAIN t, t[i] # Head(t)
            PROVE  \E j \in DOMAIN Tail(t) : Tail(t)[j] = t[i]
        <5>1. i \in 2 .. Len(t)
          BY <4>1
        <5>2. i - 1 \in DOMAIN Tail(t) /\ Tail(t)[i - 1] = t[i]
          BY <4>1, <5>1
        <5> QED BY <5>2
      <4>2. request[r].todo \in Seq(Live)
        BY <1>0 DEF Requesting
      <4> QED BY <2>4, <4>1, <4>2 DEF HasLeft
    <3>3. \A s \in Requests : (Publishing(s) <=> Publishing(s)')
                              /\ request'[s].new = request[s].new
      BY <2>1 DEF Publishing
    <3>4. ASSUME ~overlap', NEW o \in Live
          PROVE  \/ applied'[o] = memory'[o]
                 \/ \E s \in Requests : Publishing(s)' /\ HasLeft(s, o)'
      <4>1. CASE o = Head(request[r].todo)
        BY <2>1, <3>1, <3>4, <4>1 DEF AppliedInv
      <4>2. CASE o # Head(request[r].todo) /\ applied[o] = memory[o]
        BY <2>1, <3>1, <4>2
      <4>3. CASE o # Head(request[r].todo) /\ \E s \in Requests : Publishing(s) /\ HasLeft(s, o)
        BY <2>1, <3>2, <3>4, <4>3 DEF AppliedInv
      <4> QED BY <2>1, <3>4, <4>1, <4>2, <4>3 DEF AppliedInv
    <3> QED BY <2>1, <2>2, <3>3, <3>4 DEF AppliedInv
  <2> QED BY <1>2, <2>3, <2>4, SetterTakes
<1>3. CASE ReceiveInterval \/ AskLocation \/ FinishesPoll \/ UNCHANGED publicationVars
  BY <1>3 DEF ReceiveInterval, AskLocation, FinishesPoll, LocationAnswered, LocationFails,
              StoreLocation, vars, publicationVars, PlanInv, AppliedInv, Publishing, HasLeft
<1>4. CASE RestartPoller
  BY <1>4 DEF RestartPoller, Restart, Idle, PlanInv, AppliedInv, Publishing
<1> QED BY <1>1, <1>2, <1>3, <1>4 DEF PublicationNext

(* When no update is being published, the running parts work with the       *)
(* manager's settings, unless the last publications overlapped; and the     *)
(* last map interval is the ticker's or waits for it.                      *)
THEOREM AppliedSafe == PublicationSpec => []AppliedIsStored
<1>1. PublicationInit => LockInv /\ DurableInv /\ SetterInv /\ ChannelInv /\ PlanInv /\ AppliedInv
  <2> SUFFICES ASSUME PublicationInit
               PROVE  LockInv /\ DurableInv /\ SetterInv /\ ChannelInv /\ PlanInv /\ AppliedInv
    OBVIOUS
  <2> QED BY DEF PublicationInit, Init, Idle, LockInv, DurableInv, SetterInv, ChannelInv, PlanInv,
                 AppliedInv, Publishing
<1>2. /\ PublicationTypeOK /\ LockInv /\ DurableInv /\ SetterInv /\ ChannelInv /\ PlanInv
      /\ AppliedInv /\ [PublicationNext]_publicationVars
      => LockInv' /\ DurableInv' /\ SetterInv' /\ ChannelInv' /\ PlanInv' /\ AppliedInv'
  BY LockStep, SetterStep, ChannelStep, AppliedStep
<1>3. ChannelInv /\ AppliedInv => AppliedIsStored
  BY DEF ChannelInv, AppliedInv, AppliedIsStored, Publishing
<1> QED BY <1>1, <1>2, <1>3, Types, PTL DEF PublicationSpec
=============================================================================

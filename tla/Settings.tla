------------------------------ MODULE Settings ------------------------------
(***************************************************************************)
(* The settings manager (internal/config/manager.go): PUT /api/config and  *)
(* the token's regeneration, the replacement of the UCI file in steps any  *)
(* of which can fail, the publication of the new settings to the running   *)
(* parts after the unlock, and the load of the file by the next process.   *)
(***************************************************************************)
EXTENDS Naturals, Sequences

CONSTANTS
  Requests,  \* the API requests that can be in progress at once
  Options,   \* the options that are explored
  Patches,   \* the updates that are asked for: values for some options
  Initial,   \* the settings the first process loads
  Top,       \* the largest value Load admits; Top + 1 stands for all above it
  MaxWrites  \* bound on the replacements of the file

Values == 0 .. Top + 1

Switches   == {"location_enabled"}
Cadences   == {"poll_map", "probe_interval", "minute_days", "quarter_days"}
Holds      == {"outage_started_secs", "dish_unreachable_secs", "path_clear_secs"}
Thresholds == {"path_loss_percent", "path_rtt_ms", "obstruction_percent"}
Addresses  == {"webhook_url", "ntfy_url"}
Batteries  == {"capacity_wh", "state_of_charge_percent", "reserve_percent",
               "conversion_efficiency_percent"}
Writable   == Switches \cup Cadences \cup Holds \cup Thresholds \cup Addresses \cup Batteries

(* What applyUpdate accepts and what the parsers of Load accept.  Every     *)
(* other option is managed by a restart.                                   *)
Accepts(option) ==
  CASE option \in Switches   -> {0, 1}
    [] option \in Cadences   -> Values \ {0}
    [] option \in Holds \cup Thresholds \cup Addresses -> Values
    [] option \in {"state_of_charge_percent", "reserve_percent"} -> 0 .. Top
    [] option \in {"capacity_wh", "conversion_efficiency_percent"} -> 1 .. Top
    [] OTHER -> {}
Parses(option) ==
  CASE option \in Switches -> {0, 1}
    [] option \in Cadences \cup Holds -> 1 .. Top
    [] option \in Thresholds -> 0 .. Top
    [] option \in Batteries -> Accepts(option)
    [] option \in Addresses -> Values
    [] OTHER -> {0, 1}
Loads(config) == \A o \in Options : config[o] \in Parses(o)

Config == [Options -> Values]

Nobody == "nobody"

ASSUME SettingsAssumption ==
  /\ Nobody \notin Requests
  /\ Top \in Nat \ {0}
  /\ Initial \in Config /\ Loads(Initial)
  /\ \A p \in Patches : DOMAIN p \subseteq Options /\ \A o \in DOMAIN p : p[o] \in Values
  /\ MaxWrites \in Nat

VARIABLES
  running,   \* the daemon loaded its settings and runs
  file,      \* what /etc/config/starwatch holds
  durable,   \* what it may hold after a power failure
  memory,    \* Manager.config, and the settings in Manager.source
  lock,      \* the request that holds Manager.mu
  request,   \* what each request is doing
  applied,   \* the settings last handed to the running parts
  writes,    \* replacements of the file so far
  doubtful,  \* history: options renamed into place by a write not acknowledged
  overlap    \* history: the last update was published while another was

managerVars == <<running, file, durable, memory, lock>>
vars == <<managerVars, request, applied, writes, doubtful, overlap>>

Idle == [at |-> "idle", new |-> Initial, todo |-> <<>>]

(* Apply's setters, in order: poller, WAN monitor, engine, dispatcher, store. *)
Setter(option) == IF option \in Options THEN <<option>> ELSE <<>>
Applying ==
  Setter("location_enabled") \o Setter("poll_map") \o Setter("probe_interval")
  \o Setter("outage_started_secs") \o Setter("webhook_url") \o Setter("minute_days")
Live == {Applying[i] : i \in DOMAIN Applying}

Init ==
  /\ running = TRUE
  /\ file = Initial /\ durable = {Initial} /\ memory = Initial
  /\ lock = Nobody
  /\ request = [r \in Requests |-> Idle]
  /\ applied = Initial
  /\ writes = 0 /\ doubtful = {} /\ overlap = FALSE

-----------------------------------------------------------------------------
With(config, patch) == [o \in Options |-> IF o \in DOMAIN patch THEN patch[o] ELSE config[o]]
Goes(r, at) == request' = [request EXCEPT ![r].at = at]
Ends(r) == request' = [request EXCEPT ![r] = Idle]

Locks(r) ==
  /\ running /\ lock = Nobody /\ request[r] = Idle
  /\ writes < MaxWrites
  /\ lock' = r /\ writes' = writes + 1
  /\ UNCHANGED <<running, file, durable, memory, applied, doubtful, overlap>>

(* An update any part of which is refused leaves no trace. *)
Update(r, patch) ==
  /\ \A o \in DOMAIN patch : patch[o] \in Accepts(o)
  /\ Locks(r)
  /\ request' = [request EXCEPT ![r] =
       [at |-> "rename", new |-> With(memory, patch), todo |-> Applying]]

(* Of the fresh token only that it is another one is kept. *)
RegenerateToken(r) ==
  /\ "token" \in Options
  /\ Locks(r)
  /\ request' = [request EXCEPT ![r] =
       [at |-> "rename", new |-> [memory EXCEPT !["token"] = IF @ = 0 THEN 1 ELSE 0],
        todo |-> <<>>]]

-----------------------------------------------------------------------------
(* atomicWrite: a synced temporary file, an error in which leaves nothing,  *)
(* is renamed over the old one, and then the directory is synced.          *)
Rename(r) ==
  /\ request[r].at = "rename"
  /\ file' = request[r].new
  /\ durable' = durable \cup {request[r].new}
  /\ doubtful' = doubtful \cup {o \in Options : request[r].new[o] # memory[o]}
  /\ Goes(r, "sync")
  /\ UNCHANGED <<running, memory, lock, applied, writes, overlap>>

Publishing(r) == request[r].at \in {"apply", "drain", "send"}

(* Only now the new settings are the manager's; the lock is released. *)
SyncDirectory(r) ==
  /\ request[r].at = "sync"
  /\ durable' = {file}
  /\ memory' = request[r].new
  /\ lock' = Nobody
  /\ doubtful' = {}
  /\ overlap' = IF request[r].todo = <<>> THEN overlap
                ELSE \E s \in Requests \ {r} : Publishing(s)
  /\ IF request[r].todo = <<>> THEN Ends(r) ELSE Goes(r, "apply")
  /\ UNCHANGED <<running, file, applied, writes>>

(* The manager takes the candidate over although its write failed. *)
WriteFailsTakingOver(r) ==
  /\ request[r].at \in {"rename", "sync"}
  /\ lock' = Nobody
  /\ memory' = request[r].new
  /\ Ends(r)
  /\ UNCHANGED <<running, file, durable, applied, writes, doubtful, overlap>>

WriteFails(r) ==
  /\ request[r].at \in {"rename", "sync"}
  /\ lock' = Nobody
  /\ Ends(r)
  /\ UNCHANGED <<running, file, durable, memory, applied, writes, doubtful, overlap>>

-----------------------------------------------------------------------------
(* One setter of Apply takes its value over. *)
Applies(r) ==
  /\ request[r].at \in {"apply", "send"} /\ request[r].todo # <<>>
  /\ LET option == Head(request[r].todo) IN
       applied' = [applied EXCEPT ![option] = request[r].new[option]]
  /\ request' = [request EXCEPT ![r].at = "apply", ![r].todo = Tail(@)]
  /\ UNCHANGED <<managerVars, writes, doubtful, overlap>>

Returns(r) ==
  /\ request[r].at = "apply" /\ request[r].todo = <<>>
  /\ Ends(r)
  /\ UNCHANGED <<managerVars, applied, writes, doubtful, overlap>>

(* The daemon or the router stops and the next process loads the file. *)
Restart ==
  /\ \E config \in durable :
       /\ file' = config /\ durable' = {config}
       /\ memory' = config /\ applied' = config
       /\ running' = Loads(config)
  /\ lock' = Nobody
  /\ request' = [r \in Requests |-> Idle]
  /\ doubtful' = {} /\ overlap' = FALSE
  /\ UNCHANGED writes

Writes(r) == Rename(r) \/ SyncDirectory(r) \/ WriteFails(r)

-----------------------------------------------------------------------------
Stages == {"idle", "rename", "sync", "apply", "drain", "send"}

TypeOK ==
  /\ running \in BOOLEAN
  /\ file \in Config /\ durable \subseteq Config /\ memory \in Config /\ applied \in Config
  /\ lock \in Requests \cup {Nobody}
  /\ request \in [Requests -> [at : Stages, new : Config, todo : Seq(Live)]]
  /\ writes \in 0 .. MaxWrites
  /\ doubtful \subseteq Options /\ overlap \in BOOLEAN

(* Whatever moment the power fails at, the file that is found afterwards is *)
(* a whole one and holds the settings the daemon works with, up to the      *)
(* options of a write that was renamed into place and not acknowledged      *)
(* (atomicWrite: an error after the rename leaves the new file).            *)
PowerLossKeepsSettings ==
  running => \A config \in durable : \A o \in Options :
               o \notin doubtful => config[o] = memory[o]
=============================================================================

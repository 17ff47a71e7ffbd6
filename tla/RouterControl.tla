---------------------------- MODULE RouterControl ----------------------------
(***************************************************************************)
(* The guarded writes to the Starlink router: PATCH /api/router/... with   *)
(* its checks against the polled snapshot (internal/api/router_control.go),*)
(* the controller that reads, checks the revision, writes and reads back   *)
(* (internal/dish/router_control.go), and the poller that keeps the        *)
(* snapshot (internal/dish/router.go, router_model.go).  The router has    *)
(* another writer, the vendor's app, and does not promise to enforce the   *)
(* revision.                                                               *)
(***************************************************************************)
EXTENDS Naturals

CONSTANTS
  Requests,    \* the API requests, each one PATCH
  Mutations,   \* the mutations that are asked for
  AppWrites,   \* what the app changes: records [field, value]
  Initial,     \* the router's configuration at first
  MaxChanges,  \* bound on the changes of the configuration
  MaxFailures  \* bound on the failing calls to the router

(* One client's ClientConfig, with the numbers of Starwatch's and of the    *)
(* user's schedules in it; the two BSSs of one band, in the order the       *)
(* router lists them; a radio's widths and one other scalar.  Values are    *)
(* numbers: 0 is what is not there, a flag that is off, an empty secret, an *)
(* open network.                                                           *)
BSSs == {"first", "second"}
Client == {"client"} \X {"stored", "name", "own", "user"}
Networks == BSSs \X {"ssid", "security", "password", "hidden"}
Radios == {"radio"} \X {"ht", "vht"}
Fields == Client \cup Networks \cup Radios \cup {<<"router", "steering">>}
Unset == 0
Open == 0

Stored == <<"client", "stored">>
GivenName == <<"client", "name">>
Own == <<"client", "own">>
User == <<"client", "user">>

Config == [Fields -> Nat]

(* What the snapshot shows of it; the radios in it come with another call. *)
Displayed == BSSs \X {"ssid", "security", "hidden"} \cup Radios
Display == [Displayed -> Nat]

ASSUME RouterAssumption ==
  /\ Initial \in Config /\ AppWrites \subseteq [field : Fields, value : Nat]
  /\ MaxChanges \in Nat /\ MaxFailures \in Nat

VARIABLES
  config,       \* the router's configuration
  incarnation,  \* its incarnation, which every change advances
  live,         \* the router's client list: the client's name and Blocked
  snapshot,     \* RouterPoller.snapshot, as far as a request reads it
  failures,     \* RouterPoller.failures of the status, at most 3
  request,      \* what each request is doing
  failed,       \* failing calls so far
  chosen,       \* history: what was last chosen for each field
  raced         \* history: fields a write took back that changed since its read

router == <<config, incarnation, live>>
poller == <<snapshot, failures>>
vars == <<router, poller, request, failed, chosen, raced>>

None == [kind |-> "none"]
Shown(c) == [f \in Displayed |-> c[f]]
Idle == [at |-> "idle", mutation |-> None, revision |-> 0, base |-> Initial,
         shown |-> Shown(Initial), answer |-> "none", changed |-> FALSE, foreign |-> FALSE]

Init ==
  /\ config = Initial /\ incarnation = 1
  /\ live = [name |-> Initial[GivenName], blocked |-> Initial[Own] > 0]
  /\ snapshot = [reachable |-> FALSE, revision |-> 0, shown |-> Shown(Initial)]
  /\ failures = 0
  /\ request = [r \in Requests |-> Idle]
  /\ failed = 0
  /\ chosen = Initial /\ raced = {}

-----------------------------------------------------------------------------
(* A network is addressed by its name, ssid, and asked for what set holds;  *)
(* one that is opened loses its secret.                                    *)
Opens(m) == "security" \in DOMAIN m.set /\ m.set["security"] = Open
Wanted(m) ==
  [k \in DOMAIN m.set \cup (IF Opens(m) THEN {"password"} ELSE {}) |->
     IF k = "password" /\ Opens(m) THEN Unset ELSE m.set[k]]
Renames(m) == "ssid" \in DOMAIN m.set
NewName(m) == IF Renames(m) THEN m.set["ssid"] ELSE m.ssid

(* The BSSs that bear the name in a configuration, and the one meant.       *)
Named(m, c) == {b \in BSSs : c[<<b, "ssid">>] = m.ssid}
Meant(m, c) == CHOOSE b \in Named(m, c) : TRUE

(* What a mutation asks for, in the configuration it is merged into, and    *)
(* the fields its request to the router carries: the client's whole        *)
(* ClientConfig, all networks, or one scalar.                              *)
Target(m, c) ==
  CASE m.kind = "rename"  -> {GivenName}
    [] m.kind \in {"block", "unblock"} -> {Own}
    [] m.kind = "network" -> {Meant(m, c)} \X DOMAIN Wanted(m)
    [] m.kind = "width"   -> {<<"radio", IF m.value \in {20, 40} THEN "ht" ELSE "vht">>}
    [] m.kind = "scalar"  -> {m.field}

Carries(m, c) ==
  CASE m.kind \in {"rename", "block", "unblock"} -> Client
    [] m.kind = "network" -> Networks
    [] OTHER -> Target(m, c)

Asked(m, field) ==
  CASE m.kind = "block"   -> 1
    [] m.kind = "unblock" -> 0
    [] m.kind = "network" -> Wanted(m)[field[2]]
    [] OTHER -> m.value

ASSUME MutationsAssumption ==
  \A m \in Mutations :
    \/ m.kind \in {"block", "unblock"}
    \/ m.kind \in {"rename", "width"} /\ m.value \in Nat
    \/ m.kind = "scalar" /\ m.value \in Nat /\ m.field = <<"router", "steering">>
    \/ /\ m.kind = "network" /\ m.ssid \in Nat
       /\ DOMAIN m.set \subseteq {"ssid", "security", "password", "hidden"}
       /\ \A k \in DOMAIN m.set : m.set[k] \in Nat

(* The request holds the address and the name, not the rest of the client. *)
RequestUnmerged(m, base) ==
  [f \in Carries(m, base) |->
     IF f \in Target(m, base) THEN Asked(m, f) ELSE IF f = Stored THEN 1 ELSE Initial[f]]

(* The request is read-merged: from the configuration read just before. *)
Request(m, base) ==
  [f \in Carries(m, base) |->
     IF f \in Target(m, base) THEN Asked(m, f) ELSE IF f = Stored THEN 1 ELSE base[f]]

(* The networks are written only when the name addresses exactly one of     *)
(* them, no other has the new name, and every credential among them is     *)
(* known; a secret alone is for a network that has one.                    *)
Addresses(m, c) ==
  /\ \E b \in BSSs : Named(m, c) = {b}
  /\ Renames(m) => \A b \in BSSs \ Named(m, c) : c[<<b, "ssid">>] # NewName(m)
HasCredentials(m, c) ==
  /\ \A b \in BSSs \ {Meant(m, c)} :
       c[<<b, "security">>] # Open => c[<<b, "password">>] # Unset
  /\ "security" \in DOMAIN m.set /\ ~Opens(m)
       => IF "password" \in DOMAIN m.set THEN m.set["password"] # Unset
          ELSE c[<<Meant(m, c), "password">>] # Unset
Encodes(m, c) ==
  "password" \in DOMAIN m.set /\ "security" \notin DOMAIN m.set
    => c[<<Meant(m, c), "security">>] # Open
Refusal(m, c) ==
  IF m.kind # "network" THEN "none"
  ELSE IF ~Addresses(m, c) THEN "unsupported"
  ELSE IF ~HasCredentials(m, c) THEN "credentials"
  ELSE IF ~Encodes(m, c) THEN "unsupported" ELSE "none"

(* The readback of a network looks one up by the old or the new name, and   *)
(* judges the first that it meets; the secrets are not compared.           *)
Found(m, read) ==
  LET borne(b) == read[<<b, "ssid">>] \in {m.ssid, NewName(m)} IN
  IF borne("first") THEN {"first"} ELSE {b \in BSSs : borne(b)}
Judged(m) == [k \in DOMAIN Wanted(m) \ {"password"} |-> Wanted(m)[k]]
Agrees(m, read, b) == \A k \in DOMAIN Judged(m) : read[<<b, k>>] = Judged(m)[k]

(* Whatever bears one of the two names will do. *)
ConfigMatchesEither(m, read) ==
  IF m.kind = "network" THEN
    \E b \in Found(m, read) : \A k \in DOMAIN Judged(m) \ {"ssid"} : read[<<b, k>>] = Judged(m)[k]
  ELSE \A f \in Target(m, read) : read[f] = Asked(m, f)

(* Of a client the stored configuration must be there, and the live list    *)
(* agree as well.                                                          *)
ConfigMatches(m, read) ==
  IF m.kind = "network" THEN \E b \in Found(m, read) : Agrees(m, read, b)
  ELSE /\ \A f \in Target(m, read) : read[f] = Asked(m, f)
       /\ m.kind \in {"rename", "block", "unblock"} => read[Stored] = 1
LiveMatches(m) ==
  /\ m.kind = "rename" => live.name = m.value
  /\ m.kind \in {"block", "unblock"} => live.blocked = (m.kind = "block")

-----------------------------------------------------------------------------
Goes(r, at) == request' = [request EXCEPT ![r].at = at]
Answers(r, answer) ==
  request' = [request EXCEPT ![r] = [@ EXCEPT !.at = "answered", !.answer = answer]]

(* The handler: the body was valid and confirmed, the snapshot reaches the  *)
(* router and has the caller's revision and, for a client, the client.     *)
Patch(r, m) ==
  /\ request[r].at = "idle"
  /\ snapshot.reachable /\ incarnation <= MaxChanges
  /\ request' = [request EXCEPT ![r] =
       [Idle EXCEPT !.at = "read", !.mutation = m, !.revision = snapshot.revision,
                    !.shown = snapshot.shown]]
  /\ UNCHANGED <<router, poller, failed, chosen, raced>>

ReadUnchecked(r) ==
  /\ request[r].at = "read"
  /\ request' = [request EXCEPT ![r].base = config, ![r].at = "write"]
  /\ UNCHANGED <<router, poller, failed, chosen, raced>>

(* The controller reads the configuration and checks the revision again. *)
Read(r) ==
  LET m == request[r].mutation IN
  /\ request[r].at = "read"
  /\ IF incarnation # request[r].revision THEN Answers(r, "stale")
     ELSE IF Refusal(m, config) # "none" THEN Answers(r, Refusal(m, config))
     ELSE request' = [request EXCEPT ![r].base = config,
                        ![r].at = IF m.kind = "unblock" THEN "clients" ELSE "write"]
  /\ UNCHANGED <<router, poller, failed, chosen, raced>>

(* A block that a user's schedule may explain is not taken for ours. *)
ReadClients(r) ==
  /\ request[r].at = "clients"
  /\ IF live.blocked /\ request[r].base[User] > 0 THEN Answers(r, "managed") ELSE Goes(r, "write")
  /\ UNCHANGED <<router, poller, failed, chosen, raced>>

(* What the router does with a write. *)
Stores(r) ==
  LET sent == Request(request[r].mutation, request[r].base)
      target == Target(request[r].mutation, request[r].base)
      taken == {f \in DOMAIN sent \ target : sent[f] # config[f]} IN
  /\ config' = [f \in Fields |-> IF f \in DOMAIN sent THEN sent[f] ELSE config[f]]
  /\ incarnation' = incarnation + 1
  /\ chosen' = [f \in Fields |-> IF f \in target THEN sent[f]
                ELSE IF f = Stored /\ f \in DOMAIN sent THEN 1 ELSE chosen[f]]
  /\ raced' = (raced \cup {f \in taken : config[f] # request[r].base[f]}) \ target
  /\ UNCHANGED live
Ignores == UNCHANGED <<router, chosen, raced>>

(* Somebody else changed the router: before the readback, or after it. *)
Changed(s) ==
  [s EXCEPT !.foreign = (@ \/ s.at \in {"clients", "write", "readback"}),
            !.changed = (@ \/ s.at \in {"relist", "answered"})]
Write(r) ==
  /\ request[r].at = "write"
  /\ \/ Stores(r) /\ request' = [s \in Requests |->
                       IF s = r THEN [request[s] EXCEPT !.at = "readback"] ELSE Changed(request[s])]
     \/ Ignores /\ Goes(r, "readback")
  /\ UNCHANGED <<poller, failed>>

(* The answer to the write is lost, or the router refuses it. *)
WriteFails(r) ==
  /\ request[r].at = "write" /\ failed < MaxFailures
  /\ failed' = failed + 1
  /\ \E answer \in {"unsupported", "upstream"} :
       \/ Stores(r) /\ request' = [s \in Requests |->
            IF s = r THEN [request[s] EXCEPT !.at = "answered", !.answer = answer]
            ELSE Changed(request[s])]
       \/ Ignores /\ Answers(r, answer)
  /\ UNCHANGED poller

ReadFails(r) ==
  /\ request[r].at \in {"read", "clients", "readback", "relist"} /\ failed < MaxFailures
  /\ failed' = failed + 1
  /\ Answers(r, "upstream")
  /\ UNCHANGED <<router, poller, chosen, raced>>

Readback(r) ==
  LET m == request[r].mutation IN
  /\ request[r].at = "readback"
  /\ request' = [request EXCEPT
       ![r].base = IF m.kind = "network" THEN @ ELSE config,
       ![r].at = IF m.kind \in {"rename", "block", "unblock"} THEN "relist" ELSE "answered",
       ![r].answer = IF m.kind \in {"rename", "block", "unblock"} THEN "none"
                     ELSE IF ConfigMatches(m, config) THEN "accepted" ELSE "unconfirmed"]
  /\ UNCHANGED <<router, poller, failed, chosen, raced>>

Relist(r) ==
  LET m == request[r].mutation IN
  /\ request[r].at = "relist"
  /\ Answers(r, IF ConfigMatches(m, request[r].base) /\ LiveMatches(m)
                THEN "accepted" ELSE "unconfirmed")
  /\ UNCHANGED <<router, poller, failed, chosen, raced>>

-----------------------------------------------------------------------------
AppChanges(w) ==
  /\ incarnation <= MaxChanges
  /\ config[w.field] # w.value
  /\ config' = [config EXCEPT ![w.field] = w.value]
  /\ incarnation' = incarnation + 1
  /\ chosen' = [chosen EXCEPT ![w.field] = w.value]
  /\ raced' = raced \ {w.field}
  /\ request' = [s \in Requests |-> Changed(request[s])]
  /\ UNCHANGED <<live, poller, failed>>

(* A user's schedule blocks the client at some times, ours at all times. *)
LiveFollows ==
  /\ \E blocked \in {config[Own] > 0, config[Own] > 0 \/ config[User] > 0} :
       live' = [name |-> config[GivenName], blocked |-> blocked]
  /\ UNCHANGED <<config, incarnation, poller, request, failed, chosen, raced>>

(* One round of the poller: each call succeeds or fails for itself.  What   *)
(* failed keeps its last value, the radios that of an older revision; the   *)
(* third failure of the status in a row makes the router unreachable.      *)
Counted(n, ok) == IF ok THEN 0 ELSE IF n < 3 THEN n + 1 ELSE 3
Poll ==
  /\ \E status, read, radios \in BOOLEAN :
       /\ failed' = IF status /\ read /\ radios THEN failed ELSE failed + 1
       /\ failures' = Counted(failures, status)
       /\ snapshot' =
            [reachable |-> status \/ (snapshot.reachable /\ failures' < 3),
             revision |-> IF read THEN incarnation ELSE snapshot.revision,
             shown |-> [f \in Displayed |->
                IF read /\ (f \in Radios => radios) THEN config[f] ELSE snapshot.shown[f]]]
  /\ failed' <= MaxFailures
  /\ UNCHANGED <<router, request, chosen, raced>>

(* The gateway is unknown or does not answer: every call counts as failed. *)
PollFails ==
  /\ failed < MaxFailures
  /\ failed' = failed + 1
  /\ failures' = Counted(failures, FALSE)
  /\ snapshot' = [snapshot EXCEPT !.reachable = @ /\ failures' < 3]
  /\ UNCHANGED <<router, request, chosen, raced>>

Controller(r) ==
  \/ Read(r) \/ ReadClients(r) \/ Write(r) \/ Readback(r) \/ Relist(r)
  \/ WriteFails(r) \/ ReadFails(r)

Next ==
  \/ \E r \in Requests : (\E m \in Mutations : Patch(r, m)) \/ Controller(r)
  \/ \E w \in AppWrites : AppChanges(w)
  \/ LiveFollows \/ Poll \/ PollFails

Spec == Init /\ [][Next]_vars

-----------------------------------------------------------------------------
Stages == {"idle", "read", "clients", "write", "readback", "relist", "answered"}
AnswerSet == {"none", "accepted", "stale", "unsupported", "credentials", "managed",
              "upstream", "unconfirmed"}

Exchange ==
  [at : Stages, mutation : Mutations \cup {None}, revision : Nat, base : Config,
   shown : Display, answer : AnswerSet, changed : BOOLEAN,
   foreign : BOOLEAN]
TypeOK ==
  /\ config \in Config /\ chosen \in Config /\ raced \subseteq Fields
  /\ incarnation \in Nat /\ live \in [name : Nat, blocked : BOOLEAN]
  /\ snapshot \in [reachable : BOOLEAN, revision : Nat, shown : Display]
  /\ failures \in 0 .. 3 /\ failed \in Nat
  /\ request \in [Requests -> Exchange]

(* A write changes what it was asked to change: a schedule, a name, an SSID *)
(* or a credential that somebody else chose is there afterwards, except one *)
(* that changed between the controller's read and its write (the window the *)
(* API documents).                                                         *)
ForeignChangesKept == \A f \in Fields : config[f] # chosen[f] => f \in raced

(* What a request answered with accepted asked for is in force until        *)
(* somebody changes the router again, whatever the router did with the     *)
(* write (the secret of a network aside, which is never compared).  Of a   *)
(* network that is said of one that bears the name asked for; that it is   *)
(* the one addressed, only if nobody else changed the router between the   *)
(* controller's read and its readback, which looks for the name.           *)
AcceptedHolds ==
  \A r \in Requests :
    LET m == request[r].mutation IN
    request[r].answer = "accepted" /\ ~request[r].changed =>
      IF m.kind = "network" THEN
        /\ \E b \in BSSs : config[<<b, "ssid">>] = NewName(m) /\ Agrees(m, config, b)
        /\ ~request[r].foreign => Agrees(m, config, Meant(m, request[r].base))
      ELSE \A f \in Target(m, config) : config[f] = Asked(m, f)

(* What is written is merged into the networks that the caller was shown:   *)
(* a change he could not have seen makes the revision stale.  (Not so the   *)
(* radios, which a poll may leave behind the revision it shows.)           *)
Shows(shown, c) == \A f \in Displayed \ Radios : shown[f] = c[f]
WritesWhatWasShown ==
  \A r \in Requests :
    request[r].at \in {"clients", "write"} => Shows(request[r].shown, request[r].base)
=============================================================================

------------------------ MODULE RouterControl_proofs ------------------------
(***************************************************************************)
(* Proofs about RouterControl, for any requests, mutations and app writes  *)
(* and any bounds: its types, that a write is merged into what the caller  *)
(* was shown, that it takes nothing else back, and that what was answered  *)
(* with accepted is in force.                                              *)
(***************************************************************************)
EXTENDS RouterControl, TLAPS

(* A revision that is still the router's stands for the configuration that *)
(* was shown with it; once it was checked, the merge starts from there.    *)
ShownInv ==
  /\ snapshot.revision <= incarnation
  /\ snapshot.revision = incarnation => Shows(snapshot.shown, config)
  /\ \A r \in Requests :
       /\ request[r].at = "read" =>
            /\ request[r].revision <= incarnation
            /\ request[r].revision = incarnation => Shows(request[r].shown, config)
       /\ request[r].at \in {"clients", "write"} =>
            /\ Shows(request[r].shown, request[r].base)
            /\ request[r].mutation \in Mutations

(* Between the readback and the answer the configuration read is the one in *)
(* force, until somebody changes it.                                       *)
AnswerInv ==
  \A r \in Requests :
    /\ request[r].at # "idle" => request[r].mutation \in Mutations
    /\ request[r].answer = "accepted" => request[r].at = "answered"
    /\ request[r].at = "relist" =>
         /\ request[r].mutation.kind # "network"
         /\ ~request[r].changed => request[r].base = config

(* While nobody else changes the router, what the controller read is in     *)
(* force until the write, and after it as well or replaced by what was     *)
(* asked; the network addressed is one of the band's.                      *)
Merged(x, c) ==
  /\ x.at \in {"clients", "write", "readback"} /\ x.mutation.kind = "network"
       => Addresses(x.mutation, x.base)
  /\ x.at \in {"clients", "write"} /\ ~x.foreign => c = x.base
  /\ x.at = "readback" /\ x.mutation.kind = "network" /\ ~x.foreign
       => c = x.base \/ Agrees(x.mutation, c, Meant(x.mutation, x.base))
MergeInv == \A r \in Requests : Merged(request[r], config)

(* AcceptedHolds, of one request. *)
InForce(x, c) ==
  x.answer = "accepted" /\ ~x.changed =>
    IF x.mutation.kind = "network" THEN
      /\ \E b \in BSSs : c[<<b, "ssid">>] = NewName(x.mutation) /\ Agrees(x.mutation, c, b)
      /\ ~x.foreign => Agrees(x.mutation, c, Meant(x.mutation, x.base))
    ELSE \A f \in Target(x.mutation, c) : c[f] = Asked(x.mutation, f)

RouterInv ==
  TypeOK /\ ShownInv /\ AnswerInv /\ MergeInv /\ AcceptedHolds /\ ForeignChangesKept

-----------------------------------------------------------------------------
(* Each field is a pair of its owner and its name.                         *)
LEMMA FieldNames ==
  /\ {Stored, GivenName, Own, User} \subseteq Client
  /\ Client \subseteq Fields /\ Networks \subseteq Fields /\ Radios \subseteq Fields
  /\ <<"router", "steering">> \in Fields
  /\ Displayed \subseteq Fields
BY DEF Stored, GivenName, Own, User, Client, Networks, Radios, Fields, Displayed, BSSs

(* What is displayed are fields of the configuration.                      *)
LEMMA DisplayType ==
  ASSUME NEW c \in Config
  PROVE  /\ Shown(c) \in Display
         /\ Displayed \subseteq Fields
         /\ \A f \in Displayed : c[f] \in Nat
BY FieldNames DEF Shown, Display, Config

(* The network addressed is the only one of its name. *)
LEMMA MeantOne ==
  ASSUME NEW m, NEW c, Addresses(m, c)
  PROVE  Meant(m, c) \in BSSs /\ Named(m, c) = {Meant(m, c)}
<1>1. PICK b \in BSSs : Named(m, c) = {b}
  BY DEF Addresses
<1>2. Meant(m, c) = b
  BY <1>1 DEF Meant
<1> QED BY <1>1, <1>2

(* What a request carries to the router are numbers for fields.            *)
LEMMA RequestType ==
  ASSUME NEW m \in Mutations, NEW base \in Config,
         m.kind = "network" => Addresses(m, base)
  PROVE  /\ Carries(m, base) \subseteq Fields /\ Target(m, base) \subseteq Carries(m, base)
         /\ Request(m, base) \in [Carries(m, base) -> Nat]
<1>1. /\ Carries(m, base) \subseteq Fields /\ Target(m, base) \subseteq Carries(m, base)
      /\ \A f \in Target(m, base) : Asked(m, f) \in Nat
  <2>1. CASE m.kind \in {"block", "unblock"}
    BY <2>1, FieldNames DEF Target, Carries, Asked
  <2>2. CASE m.kind = "rename" /\ m.value \in Nat
    BY <2>2, FieldNames DEF Target, Carries, Asked
  <2>3. CASE m.kind = "width" /\ m.value \in Nat
    BY <2>3, FieldNames DEF Target, Carries, Asked, Radios
  <2>4. CASE m.kind = "scalar" /\ m.value \in Nat /\ m.field = <<"router", "steering">>
    BY <2>4, FieldNames DEF Target, Carries, Asked
  <2>5. CASE /\ m.kind = "network" /\ m.ssid \in Nat
             /\ DOMAIN m.set \subseteq {"ssid", "security", "password", "hidden"}
             /\ \A k \in DOMAIN m.set : m.set[k] \in Nat
    <3>1. /\ DOMAIN Wanted(m) \subseteq {"ssid", "security", "password", "hidden"}
          /\ \A k \in DOMAIN Wanted(m) : Wanted(m)[k] \in Nat
      BY <2>5 DEF Wanted, Unset
    <3>2. Meant(m, base) \in BSSs
      BY <2>5, MeantOne
    <3>3. /\ Target(m, base) = {Meant(m, base)} \X DOMAIN Wanted(m)
          /\ Carries(m, base) = Networks
          /\ \A f : Asked(m, f) = Wanted(m)[f[2]]
      BY <2>5 DEF Target, Carries, Asked
    <3> QED BY <3>1, <3>2, <3>3, FieldNames DEF Networks
  <2> QED BY <2>1, <2>2, <2>3, <2>4, <2>5, MutationsAssumption DEF MutationsAssumption
<1> QED BY <1>1 DEF Request, Config

(* A change of the configuration by anybody but the request itself.        *)
LEMMA ChangedType ==
  ASSUME NEW s \in Exchange
  PROVE  /\ Changed(s) \in Exchange
         /\ Changed(s).at = s.at /\ Changed(s).mutation = s.mutation
         /\ Changed(s).revision = s.revision /\ Changed(s).base = s.base
         /\ Changed(s).shown = s.shown /\ Changed(s).answer = s.answer
         /\ s.at \in {"relist", "answered"} => Changed(s).changed
         /\ s.at \in {"clients", "write", "readback"} => Changed(s).foreign
BY DEF Changed, Exchange

(* A step of one request that leaves the router alone.                     *)
LEMMA Quiet ==
  ASSUME RouterInv, NEW r \in Requests, UNCHANGED <<router, snapshot, chosen, raced>>,
         failures' \in 0 .. 3, failed' \in Nat,
         NEW x \in Exchange, request' = [request EXCEPT ![r] = x],
         x.mutation \in Mutations, x.at # "idle",
         x.at = "read" => /\ x.revision <= incarnation
                          /\ x.revision = incarnation => Shows(x.shown, config),
         x.at \in {"clients", "write"} => Shows(x.shown, x.base),
         x.at = "relist" => x.base = config /\ x.mutation.kind # "network",
         x.answer = "accepted" => x.at = "answered",
         Merged(x, config), InForce(x, config)
  PROVE  RouterInv'
<1> USE DEF router
<1>1. /\ request'[r] = x /\ \A s \in Requests : s # r => request'[s] = request[s]
      /\ request' \in [Requests -> Exchange]
  BY DEF RouterInv, TypeOK
<1>2. TypeOK'
  BY <1>1 DEF RouterInv, TypeOK
<1>3. ShownInv'
  BY <1>1 DEF RouterInv, ShownInv
<1>4. AnswerInv'
  BY <1>1 DEF RouterInv, AnswerInv
<1>5. AcceptedHolds'
  <2>1. \A s \in Requests : InForce(request[s], config)
    BY DEF RouterInv, AcceptedHolds, InForce
  <2>2. \A s \in Requests : InForce(request'[s], config)
    BY <1>1, <2>1
  <2> QED BY <2>2 DEF AcceptedHolds, InForce
<1>6. ForeignChangesKept'
  BY DEF RouterInv, ForeignChangesKept
<1>7. MergeInv'
  BY <1>1 DEF RouterInv, MergeInv
<1> QED BY <1>2, <1>3, <1>4, <1>5, <1>6, <1>7 DEF RouterInv

(* A step that changes the router, seen by every request but the one that  *)
(* made it.                                                                *)
LEMMA Advances ==
  ASSUME RouterInv, config' \in Config, chosen' \in Config, raced' \subseteq Fields,
         ForeignChangesKept', incarnation' = incarnation + 1,
         UNCHANGED <<live, snapshot, failures>>, failed' \in Nat,
         request' \in [Requests -> Exchange],
         \A s \in Requests :
           \/ request'[s] = Changed(request[s])
           \/ /\ request'[s].at \in {"readback", "answered"} /\ request'[s].answer # "accepted"
              /\ request'[s].mutation \in Mutations /\ Merged(request'[s], config')
  PROVE  RouterInv'
<1>1. TypeOK'
  BY DEF RouterInv, TypeOK
<1>2. \A s \in Requests : request[s] \in Exchange
  BY DEF RouterInv, TypeOK
<1>3. snapshot.revision \in Nat /\ incarnation \in Nat /\ \A s \in Requests : request[s].revision \in Nat
  BY <1>2 DEF RouterInv, TypeOK, Exchange
<1>4. ShownInv'
  BY <1>2, <1>3, ChangedType DEF RouterInv, ShownInv
<1>5. AnswerInv'
  BY <1>2, ChangedType DEF RouterInv, AnswerInv
<1>6. AcceptedHolds'
  <2>1. \A s \in Requests : request'[s].answer = "accepted" => request'[s].changed
    BY <1>2, ChangedType DEF RouterInv, AnswerInv
  <2> QED BY <2>1 DEF AcceptedHolds
<1>7. MergeInv'
  BY <1>2, ChangedType DEF RouterInv, MergeInv, Merged
<1> QED BY <1>1, <1>4, <1>5, <1>6, <1>7 DEF RouterInv

-----------------------------------------------------------------------------
LEMMA PatchStep ==
  ASSUME RouterInv, NEW r \in Requests, NEW m \in Mutations, Patch(r, m)
  PROVE  RouterInv'
<1> DEFINE x == [Idle EXCEPT !.at = "read", !.mutation = m, !.revision = snapshot.revision,
                            !.shown = snapshot.shown]
<1>1. x \in Exchange /\ request' = [request EXCEPT ![r] = x]
  BY RouterAssumption DEF RouterAssumption, Patch, RouterInv, TypeOK, Exchange, Idle, Stages, AnswerSet
<1>2. /\ x.at = "read" /\ x.mutation = m /\ x.revision = snapshot.revision
      /\ x.shown = snapshot.shown /\ x.answer = "none"
  BY DEF Idle
<1>3. /\ UNCHANGED <<router, snapshot, chosen, raced>> /\ failures' \in 0 .. 3 /\ failed' \in Nat
  BY DEF Patch, RouterInv, TypeOK, poller
<1>4. Merged(x, config) /\ InForce(x, config)
  BY <1>2 DEF Merged, InForce
<1> HIDE DEF x
<1> QED BY <1>1, <1>2, <1>3, <1>4, Quiet DEF RouterInv, ShownInv

(* The steps of a request that go on, or answer it without a write.        *)
LEMMA AnswersType ==
  ASSUME RouterInv, NEW r \in Requests, NEW answer \in AnswerSet
  PROVE  LET x == [request[r] EXCEPT !.at = "answered", !.answer = answer] IN
         /\ Answers(r, answer) => request' = [request EXCEPT ![r] = x]
         /\ x \in Exchange /\ x.at = "answered" /\ x.answer = answer
         /\ x.mutation = request[r].mutation
BY DEF RouterInv, TypeOK, Exchange, Answers, Stages

LEMMA AnswersStep ==
  ASSUME RouterInv, NEW r \in Requests, request[r].at # "idle", NEW answer \in AnswerSet,
         answer # "accepted", Answers(r, answer),
         UNCHANGED <<router, poller, chosen, raced>>, failed' \in Nat
  PROVE  RouterInv'
<1> DEFINE x == [request[r] EXCEPT !.at = "answered", !.answer = answer]
<1>1. /\ request' = [request EXCEPT ![r] = x]
      /\ x \in Exchange /\ x.at = "answered" /\ x.answer = answer
      /\ x.mutation = request[r].mutation
  BY AnswersType
<1>2. x.mutation \in Mutations
  BY <1>1 DEF RouterInv, AnswerInv
<1>3. UNCHANGED snapshot /\ failures' \in 0 .. 3
  BY DEF poller, RouterInv, TypeOK
<1>4. Merged(x, config) /\ InForce(x, config)
  BY <1>1 DEF Merged, InForce
<1> HIDE DEF x
<1> QED BY <1>1, <1>2, <1>3, <1>4, Quiet

LEMMA ReadStep ==
  ASSUME RouterInv, NEW r \in Requests, Read(r)
  PROVE  RouterInv'
<1>0. /\ UNCHANGED <<router, poller, chosen, raced>> /\ failed' \in Nat /\ request[r].at = "read"
      /\ failures' \in 0 .. 3 /\ UNCHANGED snapshot
  BY DEF Read, RouterInv, TypeOK, poller
<1>1. CASE \E answer \in {"stale", "unsupported", "credentials"} : Answers(r, answer)
  BY <1>0, <1>1, AnswersStep DEF AnswerSet
<1>2. CASE ~ \E answer \in {"stale", "unsupported", "credentials"} : Answers(r, answer)
  <2> DEFINE at == IF request[r].mutation.kind = "unblock" THEN "clients" ELSE "write"
             x == [request[r] EXCEPT !.base = config, !.at = at]
  <2>1. /\ incarnation = request[r].revision /\ request' = [request EXCEPT ![r] = x]
        /\ Refusal(request[r].mutation, config) = "none"
    BY <1>2 DEF Read, Refusal
  <2>2. at \in {"clients", "write"}
    OBVIOUS
  <2> HIDE DEF at
  <2>3. /\ x \in Exchange /\ x.at = at /\ x.mutation = request[r].mutation
        /\ x.base = config /\ x.shown = request[r].shown /\ x.answer = request[r].answer
    <3>1. request[r] \in Exchange /\ config \in Config /\ at \in Stages
      BY <2>2 DEF RouterInv, TypeOK, Stages
    <3> QED BY <3>1 DEF Exchange
  <2>4. x.mutation \in Mutations /\ x.answer # "accepted" /\ Shows(x.shown, config)
    BY <1>0, <2>1, <2>3 DEF RouterInv, AnswerInv, ShownInv
  <2>5. x.mutation.kind = "network" => Addresses(x.mutation, x.base)
    BY <2>1, <2>3 DEF Refusal
  <2> HIDE DEF x
  <2>6. Merged(x, config) /\ InForce(x, config)
    BY <2>2, <2>3, <2>4, <2>5 DEF Merged, InForce
  <2> QED BY <1>0, <2>1, <2>2, <2>3, <2>4, <2>6, Quiet
<1> QED BY <1>1, <1>2

LEMMA ReadClientsStep ==
  ASSUME RouterInv, NEW r \in Requests, ReadClients(r)
  PROVE  RouterInv'
<1>0. /\ UNCHANGED <<router, poller, chosen, raced>> /\ failed' \in Nat /\ request[r].at = "clients"
      /\ failures' \in 0 .. 3 /\ UNCHANGED snapshot
  BY DEF ReadClients, RouterInv, TypeOK, poller
<1>1. CASE Answers(r, "managed")
  BY <1>0, <1>1, AnswersStep DEF AnswerSet
<1>2. CASE Goes(r, "write")
  <2> DEFINE x == [request[r] EXCEPT !.at = "write"]
  <2>1. request' = [request EXCEPT ![r] = x]
    BY <1>2 DEF Goes
  <2>2. /\ x \in Exchange /\ x.at = "write" /\ x.mutation = request[r].mutation
        /\ x.base = request[r].base /\ x.shown = request[r].shown /\ x.answer = request[r].answer
        /\ x.foreign = request[r].foreign
    BY DEF RouterInv, TypeOK, Exchange, Stages
  <2>3. x.mutation \in Mutations /\ x.answer # "accepted" /\ Shows(x.shown, x.base)
    BY <1>0, <2>2 DEF RouterInv, AnswerInv, ShownInv
  <2> HIDE DEF x
  <2>4. Merged(x, config) /\ InForce(x, config)
    BY <1>0, <2>2, <2>3 DEF RouterInv, MergeInv, Merged, InForce
  <2> QED BY <1>0, <2>1, <2>2, <2>3, <2>4, Quiet
<1> QED BY <1>1, <1>2 DEF ReadClients

(* The write takes back only what changed since the read. *)
LEMMA StoresKeeps ==
  ASSUME RouterInv, NEW r \in Requests, request[r].at = "write", Stores(r)
  PROVE  /\ config' \in Config /\ chosen' \in Config /\ raced' \subseteq Fields
         /\ ForeignChangesKept' /\ incarnation' = incarnation + 1 /\ UNCHANGED live
<1> DEFINE m == request[r].mutation
           base == request[r].base
           sent == Request(m, base)
<1>1. m \in Mutations /\ base \in Config /\ (m.kind = "network" => Addresses(m, base))
  BY DEF RouterInv, AnswerInv, TypeOK, Exchange, MergeInv, Merged
<1>2. /\ Carries(m, base) \subseteq Fields /\ Target(m, base) \subseteq Carries(m, base)
      /\ sent \in [Carries(m, base) -> Nat] /\ DOMAIN sent = Carries(m, base)
  BY <1>1, RequestType
<1>3. \A f \in Carries(m, base) : f \notin Target(m, base) => sent[f] = IF f = Stored THEN 1 ELSE base[f]
  BY DEF Request
<1> HIDE DEF sent
<1>4. config \in Config /\ chosen \in Config /\ raced \subseteq Fields /\ ForeignChangesKept
  BY DEF RouterInv, TypeOK
<1>5. /\ config' = [f \in Fields |-> IF f \in Carries(m, base) THEN sent[f] ELSE config[f]]
      /\ chosen' = [f \in Fields |-> IF f \in Target(m, base) THEN sent[f]
                    ELSE IF f = Stored /\ f \in Carries(m, base) THEN 1 ELSE chosen[f]]
      /\ raced' = (raced \cup {f \in {g \in Carries(m, base) \ Target(m, base) : sent[g] # config[g]} :
                                 config[f] # base[f]}) \ Target(m, base)
      /\ incarnation' = incarnation + 1 /\ UNCHANGED live
  BY <1>2 DEF Stores, sent
<1>6. config' \in Config /\ chosen' \in Config /\ raced' \subseteq Fields
  BY <1>2, <1>4, <1>5 DEF Config
<1>7. ASSUME NEW f \in Fields, config'[f] # chosen'[f]
      PROVE  f \in raced'
  <2>1. f \notin Target(m, base)
    BY <1>2, <1>5, <1>7
  <2>2. CASE f \notin Carries(m, base)
    BY <1>4, <1>5, <1>7, <2>1, <2>2 DEF ForeignChangesKept
  <2>3. CASE f \in Carries(m, base)
    <3>1. f # Stored
      BY <1>3, <1>5, <1>7, <2>1, <2>3
    <3>2. config'[f] = base[f] /\ chosen'[f] = chosen[f] /\ sent[f] = base[f]
      BY <1>3, <1>5, <2>1, <2>3, <3>1
    <3>3. CASE config[f] = base[f]
      BY <1>4, <1>5, <1>7, <2>1, <3>2, <3>3 DEF ForeignChangesKept
    <3>4. CASE config[f] # base[f]
      BY <1>5, <2>1, <2>3, <3>2, <3>4
    <3> QED BY <3>3, <3>4
  <2> QED BY <2>2, <2>3
<1> QED BY <1>5, <1>6, <1>7 DEF ForeignChangesKept

(* What was asked of a network is in it when the router has stored it. *)
LEMMA StoresAsked ==
  ASSUME RouterInv, NEW r \in Requests, request[r].at = "write", Stores(r),
         request[r].mutation.kind = "network"
  PROVE  LET m == request[r].mutation IN Agrees(m, config', Meant(m, request[r].base))
<1> DEFINE m == request[r].mutation
           base == request[r].base
           b == Meant(m, base)
           sent == Request(m, base)
<1>1. m \in Mutations /\ base \in Config /\ Addresses(m, base)
  BY DEF RouterInv, AnswerInv, TypeOK, Exchange, MergeInv, Merged
<1>2. /\ Carries(m, base) \subseteq Fields /\ Target(m, base) \subseteq Carries(m, base)
      /\ DOMAIN sent = Carries(m, base)
  BY <1>1, RequestType
<1>3. ASSUME NEW k \in DOMAIN Wanted(m)
      PROVE  config'[<<b, k>>] = Wanted(m)[k]
  <2>1. <<b, k>> \in Target(m, base) /\ Asked(m, <<b, k>>) = Wanted(m)[k]
    BY DEF Target, Asked
  <2>2. sent[<<b, k>>] = Wanted(m)[k]
    BY <1>2, <2>1 DEF Request
  <2>3. config' = [f \in Fields |-> IF f \in DOMAIN sent THEN sent[f] ELSE config[f]]
    BY DEF Stores
  <2> QED BY <1>2, <2>1, <2>2, <2>3
<1> QED BY <1>3 DEF Agrees, Judged

LEMMA WriteStep ==
  ASSUME RouterInv, NEW r \in Requests, Write(r) \/ WriteFails(r)
  PROVE  RouterInv'
<1>0. /\ request[r].at = "write" /\ UNCHANGED <<snapshot, failures>> /\ failed' \in Nat
      /\ failures' \in 0 .. 3
      /\ request[r] \in Exchange /\ request[r].mutation \in Mutations
      /\ \A s \in Requests : request[s] \in Exchange
      /\ request[r].answer # "accepted"
  <2>1. TypeOK /\ ShownInv /\ AnswerInv /\ request[r].at = "write"
    BY DEF Write, WriteFails, RouterInv
  <2>2. UNCHANGED <<snapshot, failures>> /\ failed' \in Nat
    <3>1. CASE Write(r)
      BY <2>1, <3>1 DEF Write, TypeOK, poller
    <3>2. CASE WriteFails(r)
      <4>1. failed' = failed + 1 /\ UNCHANGED poller
        BY <3>2, Zenon DEF WriteFails
      <4> QED BY <2>1, <4>1 DEF TypeOK, poller
    <3> QED BY <3>1, <3>2
  <2>3. \A s \in Requests : request[s] \in Exchange
    BY <2>1 DEF TypeOK
  <2>4. failures' \in 0 .. 3
    BY <2>1, <2>2 DEF TypeOK
  <2> QED BY <2>1, <2>2, <2>3, <2>4 DEF ShownInv, AnswerInv
<1>1. ASSUME Stores(r),
             NEW x \in Exchange, x.at \in {"readback", "answered"}, x.answer # "accepted",
             x.mutation = request[r].mutation, x.base = request[r].base,
             request' = [s \in Requests |-> IF s = r THEN x ELSE Changed(request[s])]
      PROVE  RouterInv'
  <2>1. request' \in [Requests -> Exchange]
    BY <1>0, <1>1, ChangedType
  <2>2. /\ config' \in Config /\ chosen' \in Config /\ raced' \subseteq Fields
        /\ ForeignChangesKept' /\ incarnation' = incarnation + 1 /\ UNCHANGED live
    BY <1>0, <1>1, StoresKeeps
  <2>3. \A s \in Requests :
          \/ request'[s] = Changed(request[s])
          \/ /\ request'[s].at \in {"readback", "answered"} /\ request'[s].answer # "accepted"
             /\ request'[s].mutation \in Mutations /\ Merged(request'[s], config')
    <3>1. Merged(x, config')
      BY <1>0, <1>1, StoresAsked DEF RouterInv, MergeInv, Merged
    <3> QED BY <1>0, <1>1, <3>1
  <2> QED BY <1>0, <2>1, <2>2, <2>3, Advances
<1>2. CASE Write(r)
  <2> DEFINE x == [request[r] EXCEPT !.at = "readback"]
  <2>1. /\ x \in Exchange /\ x.at = "readback" /\ x.answer = request[r].answer
        /\ x.mutation = request[r].mutation /\ x.base = request[r].base
        /\ x.foreign = request[r].foreign
    BY <1>0 DEF Exchange, Stages
  <2>2. \/ /\ Stores(r)
           /\ request' = [s \in Requests |-> IF s = r THEN x ELSE Changed(request[s])]
        \/ Ignores /\ request' = [request EXCEPT ![r] = x]
    <3>1. CASE Ignores /\ Goes(r, "readback")
      BY <3>1 DEF Goes
    <3>2. CASE /\ Stores(r)
               /\ request' = [s \in Requests |->
                    IF s = r THEN [request[s] EXCEPT !.at = "readback"] ELSE Changed(request[s])]
      BY <3>2
    <3> QED BY <1>2, <3>1, <3>2 DEF Write
  <2> HIDE DEF x
  <2>3. Merged(x, config) /\ InForce(x, config)
    BY <1>0, <2>1 DEF RouterInv, MergeInv, Merged, InForce
  <2>4. CASE Ignores /\ request' = [request EXCEPT ![r] = x]
    BY <1>0, <2>1, <2>3, <2>4, Quiet DEF Ignores
  <2> QED BY <1>0, <1>1, <2>1, <2>2, <2>4
<1>3. CASE WriteFails(r)
  <2>1. PICK answer \in {"unsupported", "upstream"} :
          \/ Stores(r) /\ request' = [s \in Requests |->
               IF s = r THEN [request[s] EXCEPT !.at = "answered", !.answer = answer]
               ELSE Changed(request[s])]
          \/ Ignores /\ Answers(r, answer)
    BY <1>3 DEF WriteFails
  <2> DEFINE x == [request[r] EXCEPT !.at = "answered", !.answer = answer]
  <2>2. /\ x \in Exchange /\ x.at = "answered" /\ x.answer = answer
        /\ x.mutation = request[r].mutation /\ x.base = request[r].base
    BY <1>0 DEF Exchange, Stages, AnswerSet
  <2>3. CASE Ignores /\ Answers(r, answer)
    BY <1>0, <2>3, AnswersStep DEF Ignores, AnswerSet, poller
  <2>4. CASE Stores(r) /\ request' = [s \in Requests |->
               IF s = r THEN [request[s] EXCEPT !.at = "answered", !.answer = answer]
               ELSE Changed(request[s])]
    <3>1. request' = [s \in Requests |-> IF s = r THEN x ELSE Changed(request[s])]
      BY <2>4
    <3> HIDE DEF x
    <3> QED BY <1>1, <2>2, <2>4, <3>1
  <2> QED BY <2>1, <2>3, <2>4
<1> QED BY <1>2, <1>3

LEMMA ReadFailsStep ==
  ASSUME RouterInv, NEW r \in Requests, ReadFails(r)
  PROVE  RouterInv'
<1>1. /\ request[r].at # "idle" /\ Answers(r, "upstream") /\ failed' \in Nat
      /\ UNCHANGED <<router, poller, chosen, raced>>
  BY DEF ReadFails, RouterInv, TypeOK
<1> QED BY <1>1, AnswersStep DEF AnswerSet

(* The network found by name is, while nobody interferes, the one meant.    *)
LEMMA FoundMeant ==
  ASSUME RouterInv, NEW r \in Requests, request[r].at = "readback",
         request[r].mutation.kind = "network", ConfigMatches(request[r].mutation, config)
  PROVE  LET m == request[r].mutation IN
         /\ \E b \in BSSs : config[<<b, "ssid">>] = NewName(m) /\ Agrees(m, config, b)
         /\ ~request[r].foreign => Agrees(m, config, Meant(m, request[r].base))
<1> DEFINE m == request[r].mutation
           base == request[r].base
<1>1. PICK b \in Found(m, config) : Agrees(m, config, b)
  BY DEF ConfigMatches
<1>2. b \in BSSs /\ config[<<b, "ssid">>] \in {m.ssid, NewName(m)}
  BY <1>1 DEF Found, BSSs
<1>3. config[<<b, "ssid">>] = NewName(m)
  <2>1. CASE Renames(m)
    <3>1. "ssid" \in DOMAIN Judged(m) /\ Judged(m)["ssid"] = NewName(m)
      BY <2>1 DEF Renames, Judged, Wanted, NewName
    <3> QED BY <1>1, <3>1 DEF Agrees
  <2>2. CASE ~Renames(m)
    BY <1>2, <2>2 DEF NewName
  <2> QED BY <2>1, <2>2
<1>4. ASSUME ~request[r].foreign
      PROVE  Agrees(m, config, Meant(m, base))
  <2>1. Addresses(m, base) /\ (config = base \/ Agrees(m, config, Meant(m, base)))
    BY <1>4 DEF RouterInv, MergeInv, Merged
  <2>2. CASE config = base
    <3>1. b \in Named(m, base)
      <4>1. CASE Renames(m)
        BY <1>2, <1>3, <2>1, <2>2, <4>1 DEF Addresses
      <4>2. CASE ~Renames(m)
        BY <1>2, <1>3, <2>2, <4>2 DEF Named, NewName
      <4> QED BY <4>1, <4>2
    <3> QED BY <1>1, <2>1, <3>1, MeantOne
  <2> QED BY <2>1, <2>2
<1> QED BY <1>1, <1>2, <1>3, <1>4

LEMMA ReadbackStep ==
  ASSUME RouterInv, NEW r \in Requests, Readback(r)
  PROVE  RouterInv'
<1> DEFINE m == request[r].mutation
           client == m.kind \in {"rename", "block", "unblock"}
           base == IF m.kind = "network" THEN request[r].base ELSE config
           at == IF client THEN "relist" ELSE "answered"
           answer == IF client THEN "none"
                     ELSE IF ConfigMatches(m, config) THEN "accepted" ELSE "unconfirmed"
           x == [request[r] EXCEPT !.base = base, !.at = at, !.answer = answer]
<1>1. request' = [request EXCEPT ![r] = x] /\ request[r].at = "readback"
  BY DEF Readback
<1>2. /\ UNCHANGED <<router, snapshot, chosen, raced>> /\ failures' \in 0 .. 3 /\ failed' \in Nat
      /\ m \in Mutations
  BY DEF Readback, RouterInv, AnswerInv, TypeOK, poller
<1>3. /\ at \in {"relist", "answered"} /\ answer \in {"none", "accepted", "unconfirmed"}
      /\ at = "relist" => m.kind # "network" /\ base = config
      /\ answer = "accepted" => at = "answered" /\ ConfigMatches(m, config)
      /\ m.kind = "network" => base = request[r].base
  OBVIOUS
<1>4. base \in Config
  BY DEF RouterInv, TypeOK, Exchange
<1> HIDE DEF at, answer, client, base
<1>5. /\ x \in Exchange /\ x.at = at /\ x.answer = answer /\ x.mutation = m /\ x.base = base
      /\ x.foreign = request[r].foreign
  <2>1. request[r] \in Exchange /\ at \in Stages /\ answer \in AnswerSet
    BY <1>3 DEF RouterInv, TypeOK, Stages, AnswerSet
  <2> QED BY <1>4, <2>1 DEF Exchange
<1> HIDE DEF x
<1>6. InForce(x, config)
  <2>1. CASE m.kind = "network"
    BY <1>1, <1>3, <1>5, <2>1, FoundMeant DEF InForce
  <2>2. CASE m.kind # "network"
    BY <1>3, <1>5, <2>2 DEF InForce, ConfigMatches
  <2> QED BY <2>1, <2>2
<1>7. Merged(x, config)
  BY <1>3, <1>5 DEF Merged
<1> QED BY <1>1, <1>2, <1>3, <1>5, <1>6, <1>7, Quiet

LEMMA RelistStep ==
  ASSUME RouterInv, NEW r \in Requests, Relist(r)
  PROVE  RouterInv'
<1> DEFINE m == request[r].mutation
           answer == IF ConfigMatches(m, request[r].base) /\ LiveMatches(m)
                     THEN "accepted" ELSE "unconfirmed"
           x == [request[r] EXCEPT !.at = "answered", !.answer = answer]
<1>1. /\ request[r].at = "relist" /\ Answers(r, answer) /\ m \in Mutations
      /\ UNCHANGED <<router, snapshot, chosen, raced>> /\ failures' \in 0 .. 3 /\ failed' \in Nat
      /\ request[r] \in Exchange
  BY DEF Relist, RouterInv, AnswerInv, TypeOK, poller
<1>2. /\ answer \in AnswerSet
      /\ answer = "accepted" => ConfigMatches(m, request[r].base)
  BY DEF AnswerSet
<1> HIDE DEF answer
<1>3. /\ request' = [request EXCEPT ![r] = x]
      /\ x \in Exchange /\ x.at = "answered" /\ x.answer = answer /\ x.mutation = m
  BY <1>1, <1>2, AnswersType
<1>4. x.changed = request[r].changed
  BY <1>1 DEF Exchange
<1>5. m.kind # "network" /\ (~request[r].changed => request[r].base = config)
  BY <1>1 DEF RouterInv, AnswerInv
<1> HIDE DEF x
<1>6. Merged(x, config) /\ InForce(x, config)
  BY <1>2, <1>3, <1>4, <1>5 DEF Merged, InForce, ConfigMatches
<1> QED BY <1>1, <1>3, <1>6, Quiet

-----------------------------------------------------------------------------
LEMMA AppStep ==
  ASSUME RouterInv, NEW w \in AppWrites, AppChanges(w)
  PROVE  RouterInv'
<1>1. w.field \in Fields /\ w.value \in Nat
  BY RouterAssumption DEF RouterAssumption
<1>2. \A s \in Requests : request[s] \in Exchange
  BY DEF RouterInv, TypeOK
<1>3. request' \in [Requests -> Exchange] /\ \A s \in Requests : request'[s] = Changed(request[s])
  BY <1>2, ChangedType DEF AppChanges
<1>4. config' \in Config /\ chosen' \in Config /\ raced' \subseteq Fields
  BY <1>1 DEF AppChanges, RouterInv, TypeOK, Config
<1>5. ForeignChangesKept'
  BY <1>1 DEF AppChanges, RouterInv, TypeOK, Config, ForeignChangesKept
<1>6. /\ incarnation' = incarnation + 1 /\ UNCHANGED <<live, snapshot, failures>> /\ failed' \in Nat
  BY DEF AppChanges, poller, RouterInv, TypeOK
<1> QED BY <1>3, <1>4, <1>5, <1>6, Advances

LEMMA PollerStep ==
  ASSUME RouterInv, LiveFollows \/ Poll \/ PollFails
  PROVE  RouterInv'
<1> USE DEF RouterInv
<1>1. UNCHANGED <<config, incarnation, request, chosen, raced>>
  BY DEF LiveFollows, Poll, PollFails, router
<1>2. failures' \in 0 .. 3 /\ failed' \in Nat
  BY DEF LiveFollows, Poll, PollFails, poller, Counted, TypeOK
<1>3. live' \in [name : Nat, blocked : BOOLEAN]
  <2>1. config[GivenName] \in Nat
    BY FieldNames DEF TypeOK, Config
  <2>2. CASE LiveFollows
    <3> DEFINE own == config[Own] > 0
               either == config[Own] > 0 \/ config[User] > 0
    <3>1. own \in BOOLEAN /\ either \in BOOLEAN
      OBVIOUS
    <3>2. \E blocked \in {own, either} : live' = [name |-> config[GivenName], blocked |-> blocked]
      BY <2>2 DEF LiveFollows
    <3> HIDE DEF own, either
    <3> QED BY <2>1, <3>1, <3>2
  <2>3. CASE Poll \/ PollFails
    BY <2>3 DEF Poll, PollFails, router, TypeOK
  <2> QED BY <2>2, <2>3
<1>4. /\ snapshot' \in [reachable : BOOLEAN, revision : Nat, shown : Display]
      /\ snapshot'.revision <= incarnation
      /\ snapshot'.revision = incarnation => Shows(snapshot'.shown, config)
  <2>1. CASE LiveFollows
    BY <2>1 DEF LiveFollows, poller, TypeOK, ShownInv
  <2>2. CASE Poll
    <3>1. PICK status, read, radios \in BOOLEAN :
            snapshot' = [reachable |-> status \/ (snapshot.reachable /\ failures' < 3),
                         revision |-> IF read THEN incarnation ELSE snapshot.revision,
                         shown |-> [f \in Displayed |->
                            IF read /\ (f \in Radios => radios) THEN config[f] ELSE snapshot.shown[f]]]
      BY <2>2 DEF Poll
    <3>2. (status \/ (snapshot.reachable /\ failures' < 3)) \in BOOLEAN
      OBVIOUS
    <3>3. /\ snapshot'.reachable \in BOOLEAN
          /\ snapshot'.revision = IF read THEN incarnation ELSE snapshot.revision
          /\ snapshot'.shown = [f \in Displayed |->
               IF read /\ (f \in Radios => radios) THEN config[f] ELSE snapshot.shown[f]]
          /\ snapshot' \in [reachable : BOOLEAN, revision : {snapshot'.revision}, shown : {snapshot'.shown}]
      BY <3>1, <3>2
    <3>4. snapshot'.shown \in Display
      BY <3>3, DisplayType DEF TypeOK, Display
    <3>5. read => Shows(snapshot'.shown, config)
      BY <3>3 DEF Shows
    <3>6. ~read => \A f \in Displayed : snapshot'.shown[f] = snapshot.shown[f]
      BY <3>3
    <3> QED BY <3>3, <3>4, <3>5, <3>6 DEF TypeOK, ShownInv, Shows
  <2>3. CASE PollFails
    <3>1. /\ snapshot'.revision = snapshot.revision /\ snapshot'.shown = snapshot.shown
          /\ snapshot' \in [reachable : BOOLEAN, revision : Nat, shown : Display]
      BY <2>3 DEF PollFails, TypeOK
    <3> QED BY <3>1 DEF ShownInv
  <2> QED BY <2>1, <2>2, <2>3
<1>5. TypeOK'
  BY <1>1, <1>2, <1>3, <1>4 DEF TypeOK
<1>6. ShownInv'
  BY <1>1, <1>4 DEF ShownInv
<1>7. AnswerInv' /\ AcceptedHolds' /\ ForeignChangesKept' /\ MergeInv'
  BY <1>1 DEF AnswerInv, AcceptedHolds, ForeignChangesKept, MergeInv
<1> QED BY <1>5, <1>6, <1>7

-----------------------------------------------------------------------------
LEMMA RouterSafe == Spec => []RouterInv
<1>1. Init => RouterInv
  <2> SUFFICES ASSUME Init PROVE RouterInv
    OBVIOUS
  <2> USE RouterAssumption DEF Init, RouterAssumption
  <2>1. Idle \in Exchange /\ Shown(Initial) \in Display
    BY DisplayType DEF Idle, Exchange, Stages, AnswerSet
  <2>2. live \in [name : Nat, blocked : BOOLEAN]
    BY FieldNames DEF Config
  <2>3. TypeOK
    BY <2>1, <2>2 DEF TypeOK
  <2>4. ShownInv /\ AnswerInv /\ AcceptedHolds /\ ForeignChangesKept /\ MergeInv
    BY DEF ShownInv, AnswerInv, AcceptedHolds, ForeignChangesKept, MergeInv, Merged, Idle
  <2> QED BY <2>3, <2>4 DEF RouterInv
<1>2. RouterInv /\ [Next]_vars => RouterInv'
  <2> SUFFICES ASSUME RouterInv, [Next]_vars PROVE RouterInv'
    OBVIOUS
  <2>1. CASE UNCHANGED vars
    BY <2>1 DEF vars, router, poller, RouterInv, TypeOK, ShownInv, AnswerInv, MergeInv,
       AcceptedHolds, ForeignChangesKept
  <2> QED BY <2>1, PatchStep, ReadStep, ReadClientsStep, WriteStep, ReadFailsStep, ReadbackStep,
          RelistStep, AppStep, PollerStep DEF Next, Controller
<1> QED BY <1>1, <1>2, PTL DEF Spec

(* The router, the poller's snapshot and the requests have their types. *)
THEOREM RouterTypes == Spec => []TypeOK
BY RouterSafe, PTL DEF RouterInv

(* What the controller writes is merged into the configuration its caller  *)
(* was shown, whatever happened between the poll and the read.             *)
THEOREM WritesShown == Spec => []WritesWhatWasShown
<1>1. ShownInv => WritesWhatWasShown
  BY DEF ShownInv, WritesWhatWasShown
<1> QED BY <1>1, RouterSafe, PTL DEF RouterInv

(* A write takes back nothing somebody else chose, except what changed      *)
(* between the controller's read and its write.                            *)
THEOREM ForeignKept == Spec => []ForeignChangesKept
BY RouterSafe, PTL DEF RouterInv

(* What was answered with accepted is in force until the next change: a     *)
(* network of the band bears the name and has what was asked, the one       *)
(* addressed itself if nobody else changed the router meanwhile.           *)
THEOREM AcceptedInForce == Spec => []AcceptedHolds
BY RouterSafe, PTL DEF RouterInv
=============================================================================

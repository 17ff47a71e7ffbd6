--------------------------- MODULE Notices_proofs ---------------------------
(***************************************************************************)
(* Proofs about how the daemon comes to raise an alarm and about the two    *)
(* ways by which it tells of what it found.                                *)
(*                                                                         *)
(* EventBus, for any finite set of connections, any buffer and any bound   *)
(* on the events: its types, the safety of its channels, the wait of Close *)
(* and the refinement of EventFeed.                                        *)
(*                                                                         *)
(* Delivery, for queues of any size, any number of attempts and any bound  *)
(* on the notifications: its types, that the newest notification is never  *)
(* the one lost, and the order in which an endpoint hears them.            *)
(*                                                                         *)
(* Evaluation, for any clock, holds, rule tables and catalogue: that an    *)
(* unreachable dish is alarmed and a long outage fires, that an alarm is   *)
(* about an open outage, and that a reboot's window silences it.           *)
(***************************************************************************)
EXTENDS EventBus, Delivery, Evaluation, FiniteSetTheorems, SequenceTheorems, TLAPS

AdmittedSet == {c \in Clients : pc[c] \in Admitted}

(* wsDone counts the handlers under way. *)
Counted == wsDone = Cardinality(AdmittedSet)

(* What each handler's place says of its subscription. *)
Placed ==
  \A c \in Clients :
    /\ pc[c] \in {"new", "accepted"} =>
         joined[c] = Never /\ closes[c] = 0 /\ channel[c] = <<>> /\ sent[c] = <<>>
    /\ c \in subscribers => pc[c] \in {"streaming", "writing", "failing", "leaving"}

Held(c) == IF pc[c] \in {"writing", "failing"} THEN 1 ELSE 0

(* The last event written, being written or waiting in the channel. *)
Reached(c) == joined[c] + Len(sent[c]) + Held(c) + Len(channel[c])

Live == {"streaming", "writing", "failing"}

(* What was written, what is being written and what waits are consecutive, *)
(* and a subscriber lacks nothing of what was published.                   *)
WholeAt(c) ==
  pc[c] \in Live =>
    /\ joined[c] \in Nat
    /\ Held(c) = 1 => writing[c] = joined[c] + Len(sent[c]) + 1
    /\ \A i \in 1 .. Len(channel[c]) :
         channel[c][i] = joined[c] + Len(sent[c]) + Held(c) + i
    /\ Reached(c) <= published
    /\ c \in subscribers => Reached(c) = published

Whole == \A c \in Clients : WholeAt(c)

(* Close stopped waiting only once no handler was left. *)
Waited == waited => closed /\ wsDone = 0

BusInv == TypeOK /\ Counted /\ Placed /\ ChannelsAreSafe /\ Whole /\ Waited

-----------------------------------------------------------------------------
(* Moving one handler in or out of the admitted places changes the count   *)
(* by one; moving it within them, or outside them, does not.               *)
LEMMA CountStep ==
  ASSUME TypeOK, Counted, NEW c \in Clients, NEW place,
         pc' = [pc EXCEPT ![c] = place]
  PROVE  /\ Cardinality(AdmittedSet') \in Nat
         /\ place \in Admitted /\ pc[c] \notin Admitted => Cardinality(AdmittedSet') = wsDone + 1
         /\ place \notin Admitted /\ pc[c] \in Admitted => Cardinality(AdmittedSet') = wsDone - 1
         /\ (place \in Admitted <=> pc[c] \in Admitted) => Cardinality(AdmittedSet') = wsDone
<1>1. IsFiniteSet(AdmittedSet)
  BY BusAssumption, FS_Subset DEF BusAssumption, AdmittedSet
<1>2. Cardinality(AdmittedSet) \in Nat /\ wsDone = Cardinality(AdmittedSet)
  BY <1>1, FS_CardinalityType DEF Counted
<1>3. pc \in [Clients -> {"new", "done"} \cup Admitted]
  BY DEF TypeOK
<1>4. c \in AdmittedSet <=> pc[c] \in Admitted
  BY DEF AdmittedSet
<1>5. CASE place \in Admitted
  <2>1. AdmittedSet' = AdmittedSet \cup {c}
    BY <1>3, <1>5 DEF AdmittedSet
  <2>2. Cardinality(AdmittedSet') =
          IF c \in AdmittedSet THEN Cardinality(AdmittedSet) ELSE Cardinality(AdmittedSet) + 1
    BY <1>1, <2>1, FS_AddElement
  <2>3. QED
    BY <1>2, <1>4, <1>5, <2>2
<1>6. CASE place \notin Admitted
  <2>1. AdmittedSet' = AdmittedSet \ {c}
    BY <1>3, <1>6 DEF AdmittedSet
  <2>2. Cardinality(AdmittedSet') =
          IF c \in AdmittedSet THEN Cardinality(AdmittedSet) - 1 ELSE Cardinality(AdmittedSet)
    BY <1>1, <2>1, FS_RemoveElement
  <2>3. IsFiniteSet(AdmittedSet')
    BY <1>1, <2>1, FS_RemoveElement
  <2>4. Cardinality(AdmittedSet') \in Nat
    BY <2>3, FS_CardinalityType
  <2>5. QED
    BY <1>2, <1>4, <1>6, <2>2, <2>4
<1>7. QED
  BY <1>5, <1>6

LEMMA InitCount == Init => TypeOK /\ Counted
<1> SUFFICES ASSUME Init PROVE TypeOK /\ Counted
  OBVIOUS
<1>1. AdmittedSet = {}
  BY DEF Init, AdmittedSet, Admitted
<1>2. Counted
  BY <1>1, FS_EmptySet DEF Init, Counted
<1>3. <<>> \in Seq(Nat) /\ Never \in Nat \cup {Never}
  OBVIOUS
<1>4. TypeOK
  BY <1>3 DEF Init, TypeOK, NoEvent
<1>5. QED
  BY <1>2, <1>4

(* Types and count, one action after the other. *)
LEMMA CountInductive ==
  ASSUME TypeOK, Counted, [Next]_vars
  PROVE  TypeOK' /\ Counted'
<1>1. CASE Publish
  <2>1. channel' \in [Clients -> Seq(Nat)]
    BY <1>1 DEF TypeOK, Publish
  <2>2. closes' \in [Clients -> Nat]
    BY <1>1 DEF TypeOK, Publish
  <2>3. QED
    BY <1>1, <2>1, <2>2 DEF TypeOK, Publish, handlerVars, serverVars, closeVars, Counted, AdmittedSet
<1>2. ASSUME NEW c \in Clients, Admit(c) PROVE TypeOK' /\ Counted'
  <2>1. Cardinality(AdmittedSet') = wsDone + 1
    BY <1>2, CountStep DEF Admit, Admitted
  <2>2. QED
    BY <1>2, <2>1 DEF TypeOK, Admit, busVars, closeVars, Admitted, Counted
<1>3. ASSUME NEW c \in Clients, Refuse(c) PROVE TypeOK' /\ Counted'
  <2>0. pc' = [pc EXCEPT ![c] = "done"] /\ "done" \notin Admitted /\ pc[c] \notin Admitted
    BY <1>3 DEF Refuse, Admitted
  <2>1. Cardinality(AdmittedSet') = wsDone
    BY <2>0, CountStep
  <2>2. QED
    BY <1>3, <2>1 DEF TypeOK, Refuse, busVars, serverVars, closeVars, Admitted, Counted
<1>4. ASSUME NEW c \in Clients, HandshakeFails(c) PROVE TypeOK' /\ Counted'
  <2>0. pc' = [pc EXCEPT ![c] = "done"] /\ "done" \notin Admitted /\ pc[c] \in Admitted
    BY <1>4 DEF HandshakeFails, Admitted
  <2>1. Cardinality(AdmittedSet') = wsDone - 1 /\ Cardinality(AdmittedSet') \in Nat
    BY <2>0, CountStep
  <2>2. QED
    BY <1>4, <2>1 DEF TypeOK, HandshakeFails, busVars, closeVars, Admitted, Counted
<1>5. ASSUME NEW c \in Clients, Subscribe(c) PROVE TypeOK' /\ Counted'
  <2>1. Cardinality(AdmittedSet') = wsDone
    BY <1>5, CountStep DEF Subscribe, Admitted
  <2>2. QED
    BY <1>5, <2>1 DEF TypeOK, Subscribe, serverVars, closeVars, Admitted, Counted
<1>6. ASSUME NEW c \in Clients, Take(c) PROVE TypeOK' /\ Counted'
  <2>1. Cardinality(AdmittedSet') = wsDone
    BY <1>6, CountStep DEF Take, Admitted
  <2>2. Head(channel[c]) \in Nat /\ Tail(channel[c]) \in Seq(Nat)
    BY <1>6 DEF TypeOK, Take
  <2>3. QED
    BY <1>6, <2>1, <2>2 DEF TypeOK, Take, serverVars, closeVars, Admitted, Counted
<1>7. ASSUME NEW c \in Clients, WriteSucceeds(c) PROVE TypeOK' /\ Counted'
  <2>1. Cardinality(AdmittedSet') = wsDone
    BY <1>7, CountStep DEF WriteSucceeds, Admitted
  <2>2. QED
    BY <1>7, <2>1 DEF TypeOK, WriteSucceeds, busVars, serverVars, closeVars, Admitted, Counted, NoEvent
<1>8. ASSUME NEW c \in Clients, WriteFails(c) PROVE TypeOK' /\ Counted'
  <2>1. Cardinality(AdmittedSet') = wsDone
    BY <1>8, CountStep DEF WriteFails, Admitted
  <2>2. QED
    BY <1>8, <2>1 DEF TypeOK, WriteFails, busVars, serverVars, closeVars, Admitted, Counted, NoEvent
<1>9. ASSUME NEW c \in Clients, TooSlow(c) \/ GoingAway(c) \/ ClientGone(c)
      PROVE  TypeOK' /\ Counted'
  <2>1. Cardinality(AdmittedSet') = wsDone
    BY <1>9, CountStep DEF TooSlow, GoingAway, ClientGone, Admitted
  <2>2. QED
    BY <1>9, <2>1 DEF TypeOK, TooSlow, GoingAway, ClientGone, busVars, serverVars, closeVars,
                      Admitted, Counted
<1>10. ASSUME NEW c \in Clients, Cancel(c) PROVE TypeOK' /\ Counted'
  <2>1. Cardinality(AdmittedSet') = wsDone
    BY <1>10, CountStep DEF Cancel, Admitted
  <2>2. QED
    BY <1>10, <2>1 DEF TypeOK, Cancel, serverVars, closeVars, Admitted, Counted
<1>11. ASSUME NEW c \in Clients, Done(c) PROVE TypeOK' /\ Counted'
  <2>0. pc' = [pc EXCEPT ![c] = "done"] /\ "done" \notin Admitted /\ pc[c] \in Admitted
    BY <1>11 DEF Done, Admitted
  <2>1. Cardinality(AdmittedSet') = wsDone - 1 /\ Cardinality(AdmittedSet') \in Nat
    BY <2>0, CountStep
  <2>2. QED
    BY <1>11, <2>1 DEF TypeOK, Done, busVars, closeVars, Admitted, Counted
<1>12. CASE Close \/ CloseReturns \/ UNCHANGED vars
  BY <1>12 DEF TypeOK, Close, CloseReturns, vars, busVars, handlerVars, serverVars, closeVars,
               Counted, AdmittedSet
<1>13. QED
  BY <1>1, <1>2, <1>3, <1>4, <1>5, <1>6, <1>7, <1>8, <1>9, <1>10, <1>11, <1>12
     DEF Next, Handler

-----------------------------------------------------------------------------
(* A step of one handler leaves the others' feeds alone. *)
LEMMA OthersWhole ==
  ASSUME Whole, NEW c \in Clients, WholeAt(c)',
         published' = published,
         \A d \in Clients \ {c} :
           /\ pc'[d] = pc[d] /\ writing'[d] = writing[d] /\ sent'[d] = sent[d]
           /\ joined'[d] = joined[d] /\ channel'[d] = channel[d]
           /\ d \in subscribers' <=> d \in subscribers
  PROVE  Whole'
<1>1. ASSUME NEW d \in Clients \ {c} PROVE WholeAt(d)'
  <2>1. Held(d)' = Held(d)
    BY DEF Held
  <2>2. Reached(d)' = Reached(d)
    BY <2>1 DEF Reached
  <2>3. WholeAt(d)
    BY DEF Whole
  <2>4. QED
    BY <2>1, <2>2, <2>3 DEF WholeAt
<1>2. QED
  BY <1>1 DEF Whole

(* Publish reaches the subscribers it does not drop. *)
LEMMA PublishWhole ==
  ASSUME TypeOK, Whole, Publish
  PROVE  Whole'
<1> DEFINE slow == {c \in subscribers : Full(c)}
<1>1. /\ published' = published + 1 /\ published \in Nat
      /\ subscribers' = subscribers \ slow
      /\ UNCHANGED <<pc, writing, sent, joined>>
  BY DEF Publish, handlerVars, TypeOK
<1>2. \A c \in Clients :
        channel'[c] = IF c \in subscribers \ slow THEN Append(channel[c], published')
                      ELSE channel[c]
  BY DEF Publish
<1> HIDE DEF slow
<1>3. ASSUME NEW c \in Clients, pc[c] \in Live
      PROVE  WholeAt(c)'
  <2> DEFINE n == joined[c] + Len(sent[c]) + Held(c)
  <2>1. Held(c)' = Held(c) /\ n' = n
    BY <1>1 DEF Held
  <2>2. channel[c] \in Seq(Nat) /\ Len(channel[c]) \in Nat /\ Len(sent[c]) \in Nat
    BY DEF TypeOK
  <2>3. WholeAt(c)
    BY DEF Whole
  <2>4. n \in Nat
    BY <1>3, <2>2, <2>3 DEF WholeAt, Held
  <2>5. /\ joined'[c] \in Nat
        /\ Held(c)' = 1 => writing'[c] = joined'[c] + Len(sent'[c]) + 1
    BY <1>1, <1>3, <2>1, <2>3 DEF WholeAt
  <2>6. /\ \A i \in 1 .. Len(channel[c]) : channel[c][i] = n + i
        /\ n + Len(channel[c]) <= published
        /\ c \in subscribers => n + Len(channel[c]) = published
    BY <1>3, <2>3 DEF WholeAt, Reached
  <2> HIDE DEF n
  <2>7. CASE c \in subscribers \ slow
    <3>1. channel'[c] = Append(channel[c], published')
      BY <1>2, <2>7
    <3>2. /\ Len(channel'[c]) = Len(channel[c]) + 1
          /\ \A i \in 1 .. Len(channel[c]) : channel'[c][i] = channel[c][i]
          /\ channel'[c][Len(channel[c]) + 1] = published'
      BY <1>1, <2>2, <3>1
    <3>3. /\ \A i \in 1 .. Len(channel'[c]) : channel'[c][i] = n + i
          /\ n + Len(channel'[c]) = published'
      <4> DEFINE l == Len(channel[c])
      <4>1. l \in Nat /\ Len(channel'[c]) = l + 1 /\ n + l = published
        BY <2>2, <2>6, <2>7, <3>2
      <4>2. \A i \in 1 .. l : channel'[c][i] = n + i
        BY <2>6, <3>2
      <4>3. channel'[c][l + 1] = n + (l + 1)
        BY <1>1, <2>4, <3>2, <4>1
      <4> HIDE DEF l
      <4>4. \A i \in 1 .. l + 1 : i \in 1 .. l \/ i = l + 1
        BY <4>1
      <4>5. n + (l + 1) = published'
        BY <1>1, <2>4, <4>1
      <4>6. QED
        BY <4>1, <4>2, <4>3, <4>4, <4>5
    <3>4. QED
      BY <1>1, <2>1, <2>4, <2>5, <3>3 DEF WholeAt, Reached, n
  <2>8. CASE c \notin subscribers \ slow
    <3>1. channel'[c] = channel[c] /\ c \notin subscribers'
      BY <1>1, <1>2, <2>8
    <3>2. n + Len(channel'[c]) <= published'
      BY <1>1, <2>2, <2>4, <2>6, <3>1
    <3>3. QED
      BY <1>1, <2>1, <2>5, <2>6, <3>1, <3>2 DEF WholeAt, Reached, n
  <2>9. QED
    BY <2>7, <2>8
<1>4. QED
  BY <1>1, <1>3 DEF Whole, WholeAt

(* Taking an event moves it from the channel to the handler. *)
LEMMA TakeWhole ==
  ASSUME TypeOK, Whole, NEW c \in Clients, Take(c)
  PROVE  WholeAt(c)'
<1>1. /\ pc[c] = "streaming" /\ pc'[c] \in {"writing", "failing"}
      /\ channel[c] # <<>> /\ channel[c] \in Seq(Nat)
      /\ channel'[c] = Tail(channel[c]) /\ writing'[c] = Head(channel[c])
      /\ UNCHANGED <<published, subscribers, sent, joined>>
  BY DEF Take, TypeOK
<1>2. /\ Len(channel[c]) \in Nat /\ Len(channel[c]) >= 1
      /\ Len(channel'[c]) = Len(channel[c]) - 1
      /\ writing'[c] = channel[c][1]
      /\ \A i \in 1 .. Len(channel'[c]) : channel'[c][i] = channel[c][i + 1]
  BY <1>1
<1>3. Held(c) = 0 /\ Held(c)' = 1
  BY <1>1 DEF Held
<1>4. Len(sent[c]) \in Nat
  BY DEF TypeOK
<1> DEFINE n == joined[c] + Len(sent[c])
<1>5. WholeAt(c) /\ pc[c] \in Live
  BY <1>1 DEF Whole, Live
<1>6. joined[c] \in Nat /\ n \in Nat
  BY <1>4, <1>5 DEF WholeAt
<1>7. /\ \A i \in 1 .. Len(channel[c]) : channel[c][i] = n + i
      /\ n + Len(channel[c]) <= published
      /\ c \in subscribers => n + Len(channel[c]) = published
  <2>1. /\ \A i \in 1 .. Len(channel[c]) : channel[c][i] = n + Held(c) + i
        /\ Reached(c) <= published
        /\ c \in subscribers => Reached(c) = published
    BY <1>5 DEF WholeAt
  <2>2. Reached(c) = n + Len(channel[c])
    BY <1>2, <1>3, <1>6 DEF Reached
  <2>3. ASSUME NEW i \in 1 .. Len(channel[c]) PROVE channel[c][i] = n + i
    BY <1>2, <1>3, <1>6, <2>1
  <2> HIDE DEF n
  <2> QED BY <2>1, <2>2, <2>3
<1>8. n' = n
  BY <1>1
<1> HIDE DEF n
<1>9. /\ writing'[c] = n + 1
      /\ \A i \in 1 .. Len(channel'[c]) : channel'[c][i] = n + 1 + i
      /\ n + 1 + Len(channel'[c]) = n + Len(channel[c])
  <2> DEFINE l == Len(channel[c])
  <2>1. l \in Nat /\ l >= 1 /\ Len(channel'[c]) = l - 1
    BY <1>2
  <2>2. writing'[c] = n + 1
    BY <1>2, <1>7
  <2>3. ASSUME NEW i \in 1 .. Len(channel'[c]) PROVE channel'[c][i] = n + 1 + i
    <3>1. i + 1 \in 1 .. l /\ channel'[c][i] = channel[c][i + 1]
      BY <1>2, <2>1
    <3>2. channel[c][i + 1] = n + (i + 1)
      BY <1>7, <3>1
    <3>3. QED
      BY <1>6, <2>1, <3>1, <3>2
  <2>4. n + 1 + Len(channel'[c]) = n + l
    <3> HIDE DEF l
    <3>1. QED
      BY <1>6, <2>1
  <2>5. QED
    BY <2>2, <2>3, <2>4
<1>10. QED
  BY <1>1, <1>3, <1>6, <1>7, <1>8, <1>9 DEF WholeAt, Reached, n

(* A write that succeeds moves the event from the handler to the client. *)
LEMMA WriteWhole ==
  ASSUME TypeOK, Whole, NEW c \in Clients, WriteSucceeds(c)
  PROVE  WholeAt(c)'
<1>1. /\ pc[c] = "writing" /\ pc'[c] = "streaming"
      /\ sent[c] \in Seq(Nat) /\ sent'[c] = Append(sent[c], writing[c])
      /\ UNCHANGED <<published, subscribers, channel, joined>>
  BY DEF WriteSucceeds, busVars, TypeOK
<1>2. Len(sent[c]) \in Nat /\ Len(sent'[c]) = Len(sent[c]) + 1
  BY <1>1
<1>3. Held(c) = 1 /\ Held(c)' = 0
  BY <1>1 DEF Held
<1>4. WholeAt(c) /\ pc[c] \in Live
  BY <1>1 DEF Whole, Live
<1>5. joined[c] \in Nat
  BY <1>4 DEF WholeAt
<1>6. joined'[c] + Len(sent'[c]) + Held(c)' = joined[c] + Len(sent[c]) + Held(c)
  BY <1>1, <1>2, <1>3, <1>5
<1>7. Reached(c)' = Reached(c)
  BY <1>1, <1>6 DEF Reached
<1>8. QED
  BY <1>1, <1>3, <1>4, <1>5, <1>6, <1>7 DEF WholeAt

(* Channels and feeds, one action after the other. *)
LEMMA FeedInductive ==
  ASSUME TypeOK, Placed, ChannelsAreSafe, Whole, [Next]_vars
  PROVE  Placed' /\ ChannelsAreSafe' /\ Whole'
<1>1. Placed' /\ ChannelsAreSafe'
  <2> USE DEF TypeOK, Placed, ChannelsAreSafe
  <2>1. CASE Publish
    BY <2>1 DEF Publish, handlerVars
  <2>2. ASSUME NEW c \in Clients,
               Admit(c) \/ Refuse(c) \/ HandshakeFails(c) \/ WriteSucceeds(c) \/ WriteFails(c)
                 \/ TooSlow(c) \/ GoingAway(c) \/ ClientGone(c) \/ Done(c)
        PROVE  Placed' /\ ChannelsAreSafe'
    BY <2>2 DEF Admit, Refuse, HandshakeFails, WriteSucceeds, WriteFails, TooSlow, GoingAway,
                ClientGone, Done, busVars
  <2>3. ASSUME NEW c \in Clients, Subscribe(c) \/ Take(c) \/ Cancel(c)
        PROVE  Placed' /\ ChannelsAreSafe'
    <3>1. CASE Subscribe(c)
      BY <3>1 DEF Subscribe
    <3>2. CASE Take(c)
      BY <3>2 DEF Take
    <3>3. CASE Cancel(c)
      BY <3>3 DEF Cancel
    <3> QED BY <2>3, <3>1, <3>2, <3>3
  <2>4. CASE Close \/ CloseReturns \/ UNCHANGED vars
    BY <2>4 DEF Close, CloseReturns, vars, busVars, handlerVars
  <2>5. QED
    BY <2>1, <2>2, <2>3, <2>4 DEF Next, Handler
<1>2. Whole'
  <2>1. CASE Publish
    BY <2>1, PublishWhole
  <2>2. ASSUME NEW c \in Clients,
               Admit(c) \/ Refuse(c) \/ HandshakeFails(c) \/ WriteFails(c)
                 \/ TooSlow(c) \/ GoingAway(c) \/ ClientGone(c) \/ Done(c)
        PROVE  Whole'
    <3>1. pc'[c] \notin Live
      BY <2>2 DEF Admit, Refuse, HandshakeFails, WriteFails, TooSlow, GoingAway,
                  ClientGone, Done, TypeOK, Live
    <3>2. WholeAt(c)'
      BY <3>1 DEF WholeAt
    <3>3. QED
      BY <2>2, <3>2, OthersWhole
         DEF Admit, Refuse, HandshakeFails, WriteFails, TooSlow, GoingAway, ClientGone, Done,
             TypeOK, busVars
  <2>3. ASSUME NEW c \in Clients, Subscribe(c) PROVE Whole'
    <3>1. /\ pc'[c] = "streaming" /\ joined'[c] = published /\ published \in Nat
          /\ channel'[c] = <<>> /\ sent'[c] = <<>> /\ published' = published
      BY <2>3 DEF Subscribe, Placed, TypeOK
    <3>2. Held(c)' = 0
      BY <3>1 DEF Held
    <3>3. Len(channel'[c]) = 0 /\ Len(sent'[c]) = 0
      BY <3>1
    <3>4. WholeAt(c)'
      BY <3>1, <3>2, <3>3 DEF WholeAt, Reached
    <3>5. QED
      BY <2>3, <3>4, OthersWhole DEF Subscribe, TypeOK
  <2>4. ASSUME NEW c \in Clients, Take(c) PROVE Whole'
    BY <2>4, TakeWhole, OthersWhole DEF Take, TypeOK
  <2>5. ASSUME NEW c \in Clients, WriteSucceeds(c) PROVE Whole'
    BY <2>5, WriteWhole, OthersWhole DEF WriteSucceeds, TypeOK, busVars
  <2>6. ASSUME NEW c \in Clients, Cancel(c) PROVE Whole'
    <3>1. WholeAt(c)'
      BY <2>6 DEF Cancel, TypeOK, WholeAt, Live
    <3>2. QED
      BY <2>6, <3>1, OthersWhole DEF Cancel, TypeOK
  <2>7. CASE Close \/ CloseReturns \/ UNCHANGED vars
    BY <2>7 DEF Close, CloseReturns, vars, busVars, handlerVars, Whole, WholeAt, Reached, Held
  <2>8. QED
    BY <2>1, <2>2, <2>3, <2>4, <2>5, <2>6, <2>7 DEF Next, Handler
<1>3. QED
  BY <1>1, <1>2

(* No handler is admitted once the server is closed, so that the count     *)
(* stays where Close found it.                                             *)
LEMMA WaitInductive ==
  ASSUME TypeOK, Counted, Waited, [Next]_vars
  PROVE  Waited'
<1>1. wsDone = 0 => \A c \in Clients : pc[c] \notin Admitted
  <2>1. IsFiniteSet(AdmittedSet)
    BY BusAssumption, FS_Subset DEF BusAssumption, AdmittedSet
  <2>2. wsDone = 0 => AdmittedSet = {}
    BY <2>1, FS_EmptySet DEF Counted
  <2>3. QED
    BY <2>2 DEF AdmittedSet
<1>2. QED
  BY <1>1 DEF Waited, Admitted, Next, Handler, Publish, Admit, Refuse, HandshakeFails, Subscribe,
              Take, WriteSucceeds, WriteFails, TooSlow, GoingAway, ClientGone, Cancel, Done,
              Close, CloseReturns, vars, busVars, handlerVars, serverVars, closeVars

LEMMA Invariance == Spec => []BusInv
<1>1. Init => BusInv
  <2> SUFFICES ASSUME Init PROVE BusInv
    OBVIOUS
  <2>1. Placed /\ ChannelsAreSafe /\ Whole /\ Waited
    BY DEF Init, Placed, ChannelsAreSafe, Whole, WholeAt, Live, Waited
  <2>2. QED
    BY <2>1, InitCount DEF BusInv
<1>2. BusInv /\ [Next]_vars => BusInv'
  BY CountInductive, FeedInductive, WaitInductive DEF BusInv
<1>3. QED
  BY <1>1, <1>2, PTL DEF Spec

-----------------------------------------------------------------------------
(* Every state of the bus, the handlers and the server has its type, and    *)
(* the WaitGroup's counter is the number of handlers under way, however     *)
(* their handshakes, their ends and Close interleave: it is never negative, *)
(* which would panic, and is zero only once no handler is left.             *)
THEOREM BusTypes == Spec => [](TypeOK /\ Counted)
<1>1. BusInv => TypeOK /\ Counted
  BY DEF BusInv
<1>2. QED
  BY <1>1, Invariance, PTL

(* No channel is closed twice and nothing is sent on a closed one,         *)
(* whichever of Publish and the deferred cancel comes first.               *)
THEOREM ChannelSafety == Spec => []ChannelsAreSafe
<1>1. BusInv => ChannelsAreSafe
  BY DEF BusInv
<1>2. QED
  BY <1>1, Invariance, PTL

(* When server.Close has returned no handler of the feed is running. *)
THEOREM CloseIsComplete == Spec => []CloseWaits
<1>1. BusInv => CloseWaits
  <2> SUFFICES ASSUME BusInv, waited PROVE \A c \in Clients : pc[c] \notin Admitted
    BY DEF CloseWaits
  <2>1. IsFiniteSet(AdmittedSet)
    BY BusAssumption, FS_Subset DEF BusAssumption, AdmittedSet
  <2>2. Cardinality(AdmittedSet) = 0
    BY DEF BusInv, Waited, Counted
  <2>3. AdmittedSet = {}
    BY <2>1, <2>2, FS_EmptySet
  <2>4. QED
    BY <2>3 DEF AdmittedSet
<1>2. QED
  BY <1>1, Invariance, PTL

-----------------------------------------------------------------------------
(* A step of the bus is a step of the feed or leaves it as it is. *)
LEMMA FeedStep ==
  ASSUME BusInv, [Next]_vars
  PROVE  [Feed!Next]_Feed!vars
<1> DEFINE ended == {c \in Clients : pc[c] \in {"leaving", "cancelled", "done"}}
<1>1. pc \in [Clients -> {"new", "done"} \cup Admitted]
  BY DEF BusInv, TypeOK
<1>2. CASE Publish
  BY <1>2 DEF Publish, handlerVars, Feed!Next, Feed!Publish
<1>3. ASSUME NEW c \in Clients, Admit(c) \/ Take(c) \/ Cancel(c) \/ Done(c)
      PROVE  UNCHANGED Feed!vars
  <2>1. ended' = ended
    BY <1>1, <1>3 DEF Admit, Take, Cancel, Done
  <2>2. QED
    BY <1>3, <2>1 DEF Admit, Take, Cancel, Done, busVars, Feed!vars
<1>4. ASSUME NEW c \in Clients, Refuse(c) \/ HandshakeFails(c) \/ WriteFails(c) \/ TooSlow(c)
                                 \/ GoingAway(c) \/ ClientGone(c)
      PROVE  Feed!End(c)
  <2>1. c \notin ended /\ ended' = ended \cup {c}
    BY <1>1, <1>4 DEF Refuse, HandshakeFails, WriteFails, TooSlow, GoingAway, ClientGone
  <2>2. UNCHANGED <<published, joined, sent>>
    BY <1>4 DEF Refuse, HandshakeFails, WriteFails, TooSlow, GoingAway, ClientGone, busVars
  <2>3. QED
    BY <2>1, <2>2 DEF Feed!End
<1>5. ASSUME NEW c \in Clients, Subscribe(c) PROVE Feed!Join(c)
  <2>1. c \notin ended /\ ended' = ended
    BY <1>1, <1>5 DEF Subscribe
  <2>2. joined[c] = Feed!Never
    BY <1>5 DEF Subscribe, BusInv, Placed, Never, Feed!Never
  <2>3. QED
    BY <1>5, <2>1, <2>2 DEF Subscribe, Feed!Join
<1>6. ASSUME NEW c \in Clients, WriteSucceeds(c) PROVE Feed!Hear(c)
  <2>1. c \notin ended /\ ended' = ended
    BY <1>1, <1>6 DEF WriteSucceeds
  <2>2. Held(c) = 1
    BY <1>6 DEF WriteSucceeds, Held
  <2>3. /\ joined[c] \in Nat /\ Len(sent[c]) \in Nat /\ Len(channel[c]) \in Nat
        /\ published \in Nat
        /\ writing[c] = joined[c] + Len(sent[c]) + 1
        /\ Reached(c) <= published
    BY <1>6, <2>2 DEF WriteSucceeds, BusInv, TypeOK, Whole, WholeAt, Live
  <2>4. joined[c] # Feed!Never /\ joined[c] + Len(sent[c]) < published
    BY <2>2, <2>3 DEF Reached, Feed!Never
  <2>5. sent' = [sent EXCEPT ![c] = Append(@, joined[c] + Len(@) + 1)]
    BY <1>6, <2>3 DEF WriteSucceeds
  <2>6. QED
    BY <1>6, <2>1, <2>4, <2>5 DEF WriteSucceeds, busVars, Feed!Hear
<1>7. CASE Close \/ CloseReturns \/ UNCHANGED vars
  BY <1>7 DEF Close, CloseReturns, vars, busVars, handlerVars, Feed!vars
<1>8. QED
  BY <1>2, <1>3, <1>4, <1>5, <1>6, <1>7 DEF Next, Handler, Feed!Next

(* The bus and its handlers implement the feed: from the moment it joins a *)
(* client hears every event in order and without a gap until its feed      *)
(* ends, whatever the buffer and however Publish, the writes, the drops    *)
(* and the shutdown interleave.                                            *)
THEOREM FeedImplemented == Spec => FeedIsWhole
<1>1. Init => Feed!Init
  BY DEF Init, Feed!Init, Never, Feed!Never
<1>2. BusInv /\ [Next]_vars => [Feed!Next]_Feed!vars
  BY FeedStep
<1>3. QED
  BY <1>1, <1>2, Invariance, PTL DEF Spec, FeedIsWhole, Feed!Spec

-----------------------------------------------------------------------------
(* The dispatcher.  What is on its way to a receiver: what its queue holds,   *)
(* and what is being sent to the queue.                                       *)
Entries(s) == {s[i] : i \in 1 .. Len(s)}
Rising(s) == \A i, j \in 1 .. Len(s) : i < j => s[i] < s[j]
Distinct(s) == \A i, j \in 1 .. Len(s) : s[i] = s[j] => i = j
Busy(q) == pushing[q].at # "idle"
Content(q) == Entries(queues[q]) \cup (IF Busy(q) THEN {pushing[q].n} ELSE {})

PushType == [at : {"idle", "full", "retry"}, n : Nat]
DeliveryTypes ==
  /\ enqueued \in Nat /\ configured \subseteq Kinds /\ stopped \in BOOLEAN
  /\ queues \in [Queues -> Seq(Nat)] /\ lost \in [Queues -> Nat] /\ pushing \in [Queues -> PushType]
  /\ run \in {"select", "read", "forward", "waiting", "returned"}
  /\ fan \in [n : Nat, todo : Seq(Kinds)]
  /\ worker \in [Kinds -> {"select", "sending", "sleeping", "gone"}]
  /\ job \in [Kinds -> Nat] /\ tries \in [Kinds -> Nat] /\ taken \in [Kinds -> Nat]
  /\ heard \in [Kinds -> [n : Nat, times : Nat]]

(* A queue is in the order of its entries, behind which the send to it      *)
(* waits; when that tries again there is room, for nobody else sends.       *)
QueueInv(q) ==
  /\ Len(queues[q]) <= QueueSize /\ Rising(queues[q])
  /\ \A n \in Content(q) : None < n
  /\ Busy(q) \/ Idle(q)
  /\ Busy(q) => \A n \in Entries(queues[q]) : n < pushing[q].n
  /\ pushing[q].at = "retry" => Room(q)

(* Whatever has come as far as the endpoint k was raised before n. *)
Under(k, n) == taken[k] < n /\ \A m \in Content(k) : m < n
AllUnder(n) == fan.n < n /\ \A k \in Kinds : Under(k, n)

(* What Run still has to receive is newer than all beyond the central      *)
(* queue, and what Run hands on is newer than all that the endpoint has.   *)
CentralInv ==
  /\ \A n \in Content("central") : AllUnder(n) /\ n <= enqueued
  /\ AllUnder(enqueued + 1)
  /\ lost["central"] # None => lost["central"] < enqueued
FanInv ==
  /\ run = "read" => \A k \in Kinds : Under(k, fan.n)
  /\ run \in {"read", "forward"} => None < fan.n
  /\ run = "forward" =>
       /\ fan.todo # <<>> /\ Distinct(fan.todo)
       /\ \A k \in Entries(fan.todo) : Under(k, fan.n)

(* A worker takes from the front, and its endpoint has heard at most what  *)
(* it took, as often as it tried.                                          *)
WorkerInv(k) ==
  /\ \A n \in Content(k) : taken[k] < n
  /\ heard[k].n <= taken[k]
  /\ tries[k] < Attempts[k] /\ heard[k].times <= Attempts[k]
  /\ worker[k] \in {"sending", "sleeping"} =>
       job[k] = taken[k] /\ (heard[k].n = job[k] => heard[k].times <= tries[k])

(* Something later than the last one lost is on its way or has been taken. *)
LaterKept(k) == lost[k] # None => lost[k] < taken[k] \/ \E n \in Content(k) : lost[k] < n

EndpointInv(k) == WorkerInv(k) /\ LaterKept(k)
DeliveryInv ==
  /\ DeliveryTypes /\ CentralInv /\ FanInv
  /\ \A q \in Queues : QueueInv(q)
  /\ \A k \in Kinds : EndpointInv(k)

-----------------------------------------------------------------------------
(* What a queue holds is of the kind its entries are of. *)
LEMMA EntriesIn ==
  ASSUME NEW S, NEW s \in Seq(S)
  PROVE  Entries(s) \subseteq S
<1>1. \A i \in 1 .. Len(s) : s[i] \in S
  OBVIOUS
<1> QED BY <1>1 DEF Entries

(* What a queue holds after an entry came or went. *)
LEMMA Appended ==
  ASSUME NEW s \in Seq(Nat), NEW n \in Nat, Rising(s), \A m \in Entries(s) : m < n
  PROVE  /\ Append(s, n) \in Seq(Nat) /\ Len(Append(s, n)) = Len(s) + 1
         /\ Entries(Append(s, n)) = Entries(s) \cup {n} /\ Rising(Append(s, n))
<1> DEFINE a == Append(s, n)
<1>1. /\ a \in Seq(Nat) /\ Len(a) = Len(s) + 1 /\ Len(s) \in Nat
      /\ \A i \in 1 .. Len(s) : a[i] = s[i] /\ s[i] \in Nat
      /\ a[Len(s) + 1] = n
  OBVIOUS
<1> HIDE DEF a
<1>2. \A i \in 1 .. Len(a) : i \in 1 .. Len(s) \/ i = Len(s) + 1
  BY <1>1
<1>3. \A i \in 1 .. Len(s) : i \in 1 .. Len(a)
  BY <1>1
<1>4. Len(s) + 1 \in 1 .. Len(a)
  BY <1>1
<1>5. Entries(a) = Entries(s) \cup {n}
  BY <1>1, <1>2, <1>3, <1>4 DEF Entries
<1>6. ASSUME NEW i \in 1 .. Len(a), NEW j \in 1 .. Len(a), i < j
      PROVE  a[i] < a[j]
  <2>1. i \in 1 .. Len(s)
    BY <1>1, <1>6
  <2>2. CASE j \in 1 .. Len(s)
    BY <1>1, <1>6, <2>1, <2>2 DEF Rising
  <2>3. CASE j = Len(s) + 1
    BY <1>1, <2>1, <2>3 DEF Entries
  <2> QED BY <1>2, <2>2, <2>3
<1> QED BY <1>1, <1>5, <1>6 DEF a, Rising

LEMMA Dropped ==
  ASSUME NEW s \in Seq(Nat), s # <<>>, Rising(s)
  PROVE  /\ Tail(s) \in Seq(Nat) /\ Len(Tail(s)) = Len(s) - 1
         /\ Entries(s) = Entries(Tail(s)) \cup {Head(s)} /\ Head(s) \in Nat
         /\ Rising(Tail(s)) /\ \A m \in Entries(Tail(s)) : Head(s) < m
<1> DEFINE t == Tail(s)
<1>1. /\ t \in Seq(Nat) /\ Len(s) \in Nat \ {0} /\ Len(t) = Len(s) - 1 /\ Head(s) = s[1]
      /\ \A i \in 1 .. Len(t) : t[i] = s[i + 1]
      /\ \A i \in 1 .. Len(s) : s[i] \in Nat
  OBVIOUS
<1> HIDE DEF t
<1>2. 1 \in 1 .. Len(s) /\ \A i \in 1 .. Len(t) : i + 1 \in 1 .. Len(s) /\ 1 < i + 1
  BY <1>1
<1>3. \A i \in 1 .. Len(s) : i = 1 \/ (i - 1 \in 1 .. Len(t) /\ (i - 1) + 1 = i)
  BY <1>1
<1>4. Entries(s) = Entries(t) \cup {Head(s)}
  <2>1. ASSUME NEW i \in 1 .. Len(t)
        PROVE  t[i] \in Entries(s)
    <3>1. t[i] = s[i + 1] /\ i + 1 \in 1 .. Len(s)
      BY <1>1, <1>2
    <3> QED BY <3>1 DEF Entries
  <2>2. Head(s) \in Entries(s)
    BY <1>1, <1>2 DEF Entries
  <2>3. ASSUME NEW i \in 1 .. Len(s)
        PROVE  s[i] \in Entries(t) \cup {Head(s)}
    <3>1. CASE i = 1
      BY <1>1, <3>1
    <3>2. CASE i - 1 \in 1 .. Len(t) /\ (i - 1) + 1 = i
      <4>1. t[i - 1] = s[i]
        BY <1>1, <3>2
      <4> QED BY <3>2, <4>1 DEF Entries
    <3> QED BY <1>3, <3>1, <3>2
  <2> QED BY <2>1, <2>2, <2>3 DEF Entries
<1>5. \A m \in Entries(t) : Head(s) < m
  BY <1>1, <1>2 DEF Entries, Rising
<1>6. ASSUME NEW i \in 1 .. Len(t), NEW j \in 1 .. Len(t), i < j
      PROVE  t[i] < t[j]
  <2>1. i + 1 < j + 1
    BY <1>1, <1>6
  <2> QED BY <1>1, <1>2, <2>1 DEF Rising
<1> QED BY <1>1, <1>2, <1>4, <1>5, <1>6 DEF t, Rising

LEMMA ContentType ==
  ASSUME DeliveryTypes, NEW q \in Queues
  PROVE  /\ queues[q] \in Seq(Nat) /\ Entries(queues[q]) \subseteq Nat /\ Content(q) \subseteq Nat
         /\ Len(queues[q]) \in Nat /\ pushing[q] \in PushType /\ QueueSize \in Nat \ {0}
<1>1. queues[q] \in Seq(Nat) /\ pushing[q] \in PushType
  BY DEF DeliveryTypes
<1>2. Len(queues[q]) \in Nat
  BY <1>1
<1>3. Entries(queues[q]) \subseteq Nat
  BY <1>1, EntriesIn
<1> QED BY <1>1, <1>2, <1>3, DeliveryAssumption DEF Content, PushType, DeliveryAssumption

(* The four things that happen to a queue. *)
Elsewhere(q) == \A p \in Queues \ {q} : queues'[p] = queues[p] /\ pushing'[p] = pushing[p] /\ lost'[p] = lost[p]
QueueTypes ==
  queues \in [Queues -> Seq(Nat)] /\ lost \in [Queues -> Nat] /\ pushing \in [Queues -> PushType]

LEMMA Sends ==
  ASSUME DeliveryTypes, NEW q \in Queues, QueueInv(q), Idle(q), NEW n \in Nat, None < n,
         \A m \in Entries(queues[q]) : m < n, Send(q, n)
  PROVE  QueueTypes' /\ Elsewhere(q) /\ QueueInv(q)' /\ Content(q)' = Content(q) \cup {n} /\ lost' = lost
<1>1. /\ queues[q] \in Seq(Nat) /\ Len(queues[q]) \in Nat /\ QueueSize \in Nat \ {0}
      /\ QueueTypes /\ ~Busy(q) /\ Content(q) = Entries(queues[q])
  BY ContentType DEF DeliveryTypes, QueueTypes, Idle, Busy, NoPush, Content
<1>2. lost' = lost
  BY DEF Send
<1>3. CASE Room(q) /\ queues' = [queues EXCEPT ![q] = Append(@, n)] /\ UNCHANGED pushing
  <2>1. queues'[q] = Append(queues[q], n) /\ \A p \in Queues \ {q} : queues'[p] = queues[p]
    BY <1>1, <1>3 DEF QueueTypes
  <2>2. /\ queues'[q] \in Seq(Nat) /\ Len(queues'[q]) = Len(queues[q]) + 1
        /\ Entries(queues'[q]) = Entries(queues[q]) \cup {n} /\ Rising(queues'[q])
    BY <1>1, <2>1, Appended DEF QueueInv
  <2>3. QueueTypes'
    BY <1>1, <1>2, <1>3, <2>2 DEF QueueTypes
  <2>4. Content(q)' = Content(q) \cup {n}
    BY <1>1, <1>3, <2>2 DEF Content, Busy
  <2>5. QueueInv(q)'
    BY <1>1, <1>3, <2>2, <2>4 DEF QueueInv, Room, Idle, Busy, NoPush
  <2> QED BY <1>2, <1>3, <2>1, <2>3, <2>4, <2>5 DEF Elsewhere
<1>4. CASE ~Room(q) /\ pushing' = [pushing EXCEPT ![q] = [at |-> "full", n |-> n]] /\ UNCHANGED queues
  <2>1. pushing'[q] = [at |-> "full", n |-> n] /\ \A p \in Queues \ {q} : pushing'[p] = pushing[p]
    BY <1>1, <1>4 DEF QueueTypes
  <2>2. QueueTypes'
    BY <1>1, <1>2, <1>4, <2>1 DEF QueueTypes, PushType
  <2>3. Content(q)' = Content(q) \cup {n}
    BY <1>1, <1>4, <2>1 DEF Content, Busy
  <2>4. QueueInv(q)'
    BY <1>1, <1>4, <2>1, <2>3 DEF QueueInv, Busy
  <2> QED BY <1>2, <1>4, <2>1, <2>2, <2>3, <2>4 DEF Elsewhere
<1> QED BY <1>3, <1>4 DEF Send

LEMMA Drops ==
  ASSUME DeliveryTypes, NEW q \in Queues, QueueInv(q), DropOldest(q)
  PROVE  /\ QueueTypes' /\ Elsewhere(q) /\ QueueInv(q)' /\ Content(q)' \subseteq Content(q)
         /\ pushing'[q].n \in Content(q)'
         /\ (lost'[q] = lost[q] /\ Content(q)' = Content(q)) \/ lost'[q] < pushing'[q].n
<1>1. /\ queues[q] \in Seq(Nat) /\ Len(queues[q]) \in Nat /\ QueueSize \in Nat \ {0}
      /\ QueueTypes /\ Busy(q) /\ Content(q) = Entries(queues[q]) \cup {pushing[q].n} /\ pushing[q] \in PushType
  BY ContentType DEF DeliveryTypes, QueueTypes, DropOldest, Busy, Content
<1>2. /\ pushing'[q].at = "retry" /\ pushing'[q].n = pushing[q].n /\ pushing'[q] \in PushType
      /\ \A p \in Queues \ {q} : pushing'[p] = pushing[p]
      /\ pushing' \in [Queues -> PushType]
  BY <1>1 DEF DropOldest, QueueTypes, PushType
<1>3. CASE queues[q] = <<>> /\ UNCHANGED <<queues, lost>>
  <2>1. Content(q)' = Content(q)
    BY <1>1, <1>2, <1>3 DEF Content, Busy
  <2>2. QueueInv(q)'
    BY <1>1, <1>2, <1>3, <2>1 DEF QueueInv, Busy, Room
  <2> QED BY <1>1, <1>2, <1>3, <2>1, <2>2 DEF QueueTypes, Elsewhere
<1>4. CASE /\ queues[q] # <<>> /\ queues' = [queues EXCEPT ![q] = Tail(@)]
           /\ lost' = [lost EXCEPT ![q] = Head(queues[q])]
  <2>1. /\ queues'[q] = Tail(queues[q]) /\ \A p \in Queues \ {q} : queues'[p] = queues[p]
        /\ lost'[q] = Head(queues[q]) /\ \A p \in Queues \ {q} : lost'[p] = lost[p]
    BY <1>1, <1>4 DEF QueueTypes
  <2>2. /\ queues'[q] \in Seq(Nat) /\ Len(queues'[q]) = Len(queues[q]) - 1
        /\ Entries(queues[q]) = Entries(queues'[q]) \cup {Head(queues[q])}
        /\ Head(queues[q]) \in Nat /\ Rising(queues'[q])
    <3> DEFINE s == queues[q]
    <3>1. s \in Seq(Nat) /\ s # <<>> /\ Rising(s) /\ queues'[q] = Tail(s)
      BY <1>1, <1>4, <2>1 DEF QueueInv
    <3> HIDE DEF s
    <3>2. /\ Tail(s) \in Seq(Nat) /\ Len(Tail(s)) = Len(s) - 1
          /\ Entries(s) = Entries(Tail(s)) \cup {Head(s)} /\ Head(s) \in Nat
          /\ Rising(Tail(s)) /\ \A m \in Entries(Tail(s)) : Head(s) < m
      BY <3>1, Dropped
    <3> QED BY <3>1, <3>2 DEF s
  <2>3. QueueTypes'
    BY <1>1, <1>2, <1>4, <2>2 DEF QueueTypes
  <2>4. Content(q)' = Entries(queues'[q]) \cup {pushing[q].n}
    BY <1>2 DEF Content, Busy
  <2>5. QueueInv(q)'
    BY <1>1, <1>2, <2>2, <2>4 DEF QueueInv, Busy, Room
  <2>6. lost'[q] < pushing'[q].n
    BY <1>1, <1>2, <2>1, <2>2 DEF QueueInv
  <2> QED BY <1>1, <1>2, <2>1, <2>2, <2>3, <2>4, <2>5, <2>6 DEF Elsewhere
<1> QED BY <1>3, <1>4 DEF DropOldest

LEMMA SendsAgain ==
  ASSUME DeliveryTypes, NEW q \in Queues, QueueInv(q), SendAgain(q)
  PROVE  QueueTypes' /\ Elsewhere(q) /\ QueueInv(q)' /\ Content(q)' = Content(q) /\ lost' = lost
<1>1. /\ queues[q] \in Seq(Nat) /\ Len(queues[q]) \in Nat /\ QueueSize \in Nat \ {0} /\ Room(q)
      /\ QueueTypes /\ Busy(q) /\ Content(q) = Entries(queues[q]) \cup {pushing[q].n} /\ pushing[q].n \in Nat
  BY ContentType DEF DeliveryTypes, QueueTypes, SendAgain, Busy, Content, QueueInv, PushType
<1>2. /\ pushing'[q] = NoPush /\ pushing' \in [Queues -> PushType]
      /\ \A p \in Queues \ {q} : pushing'[p] = pushing[p]
  BY <1>1 DEF SendAgain, QueueTypes, PushType, NoPush, None
<1>3. queues' = [queues EXCEPT ![q] = Append(@, pushing[q].n)] /\ lost' = lost
  BY <1>1 DEF SendAgain
<1>4. queues'[q] = Append(queues[q], pushing[q].n) /\ \A p \in Queues \ {q} : queues'[p] = queues[p]
  BY <1>1, <1>3 DEF QueueTypes
<1>5. /\ queues'[q] \in Seq(Nat) /\ Len(queues'[q]) = Len(queues[q]) + 1
      /\ Entries(queues'[q]) = Entries(queues[q]) \cup {pushing[q].n} /\ Rising(queues'[q])
  BY <1>1, <1>4, Appended DEF QueueInv
<1>6. QueueTypes'
  BY <1>1, <1>2, <1>3, <1>5 DEF QueueTypes
<1>7. Content(q)' = Content(q)
  BY <1>1, <1>2, <1>5 DEF Content, Busy, NoPush
<1>8. QueueInv(q)'
  BY <1>1, <1>2, <1>5, <1>7 DEF QueueInv, Room, Idle, Busy, NoPush
<1> QED BY <1>2, <1>3, <1>4, <1>6, <1>7, <1>8 DEF Elsewhere

LEMMA Takes ==
  ASSUME DeliveryTypes, NEW q \in Queues, QueueInv(q), queues[q] # <<>>,
         queues' = [queues EXCEPT ![q] = Tail(@)], UNCHANGED <<pushing, lost>>
  PROVE  /\ QueueTypes' /\ Elsewhere(q) /\ QueueInv(q)' /\ lost' = lost
         /\ Head(queues[q]) \in Nat /\ Content(q) = Content(q)' \cup {Head(queues[q])}
         /\ \A m \in Content(q)' : Head(queues[q]) < m
<1>1. /\ queues[q] \in Seq(Nat) /\ Len(queues[q]) \in Nat /\ QueueSize \in Nat \ {0} /\ QueueTypes
  BY ContentType DEF DeliveryTypes, QueueTypes
<1>2. queues'[q] = Tail(queues[q]) /\ \A p \in Queues \ {q} : queues'[p] = queues[p]
  BY <1>1 DEF QueueTypes
<1>3. /\ queues'[q] \in Seq(Nat) /\ Len(queues'[q]) = Len(queues[q]) - 1
      /\ Entries(queues[q]) = Entries(queues'[q]) \cup {Head(queues[q])} /\ Head(queues[q]) \in Nat
      /\ Rising(queues'[q]) /\ \A m \in Entries(queues'[q]) : Head(queues[q]) < m
  <2> DEFINE s == queues[q]
  <2>1. s \in Seq(Nat) /\ s # <<>> /\ Rising(s) /\ queues'[q] = Tail(s)
    BY <1>1, <1>2 DEF QueueInv
  <2> HIDE DEF s
  <2>2. /\ Tail(s) \in Seq(Nat) /\ Len(Tail(s)) = Len(s) - 1
        /\ Entries(s) = Entries(Tail(s)) \cup {Head(s)} /\ Head(s) \in Nat
        /\ Rising(Tail(s)) /\ \A m \in Entries(Tail(s)) : Head(s) < m
    BY <2>1, Dropped
  <2> QED BY <2>1, <2>2 DEF s
<1>4. QueueTypes'
  BY <1>1, <1>3 DEF QueueTypes
<1>5. Content(q) = Content(q)' \cup {Head(queues[q])}
  BY <1>3 DEF Content, Busy
<1>6. \A m \in Content(q)' : Head(queues[q]) < m
  BY <1>3 DEF Content, Busy, QueueInv
<1>7. QueueInv(q)'
  BY <1>1, <1>3, <1>5 DEF QueueInv, Idle, Busy, Room
<1> QED BY <1>2, <1>3, <1>4, <1>5, <1>6, <1>7 DEF Elsewhere

(* A queue that nothing happened to. *)
LEMMA Untouched ==
  ASSUME NEW q \in Queues, queues'[q] = queues[q], pushing'[q] = pushing[q]
  PROVE  (QueueInv(q) => QueueInv(q)') /\ Content(q)' = Content(q)
BY DEF QueueInv, Content, Busy, Idle, Room

-----------------------------------------------------------------------------
(* A step that adds nothing to a queue leaves what is central and what is    *)
(* handed on as new as it was.                                              *)
LEMMA NothingAdded ==
  ASSUME DeliveryInv, UNCHANGED <<enqueued, fan>>, run' = run \/ run' \notin {"read", "forward"},
         Content("central")' \subseteq Content("central"),
         lost'["central"] # None => lost'["central"] < enqueued,
         \A k \in Kinds : \A n \in Nat : Under(k, n) => Under(k, n)'
  PROVE  CentralInv' /\ FanInv'
<1>1. enqueued \in Nat /\ fan.n \in Nat /\ fan.todo \in Seq(Kinds) /\ Content("central") \subseteq Nat
  BY ContentType DEF DeliveryInv, DeliveryTypes, Queues
<1>2. \A n \in Nat : AllUnder(n) => AllUnder(n)'
  BY DEF AllUnder
<1>3. CentralInv'
  BY <1>1, <1>2 DEF DeliveryInv, CentralInv
<1>4. Entries(fan.todo) \subseteq Kinds
  BY <1>1, EntriesIn
<1>5. FanInv'
  BY <1>1, <1>4 DEF DeliveryInv, FanInv
<1> QED BY <1>3, <1>5

LEMMA QueueFacts ==
  "central" \in Queues /\ Kinds \subseteq Queues /\ \A k \in Kinds : k # "central"
BY DEF Queues, Kinds

(* A new notification. *)
LEMMA EnqueueStep ==
  ASSUME DeliveryInv, Enqueue
  PROVE  DeliveryInv'
<1>1. /\ DeliveryTypes /\ CentralInv /\ FanInv /\ QueueInv("central") /\ Idle("central")
      /\ enqueued \in Nat /\ enqueued' = enqueued + 1 /\ Send("central", enqueued + 1)
      /\ UNCHANGED <<configured, run, fan, workerVars, stopped>>
  BY QueueFacts DEF DeliveryInv, Enqueue, DeliveryTypes
<1>2. /\ Content("central") \subseteq Nat /\ Entries(queues["central"]) \subseteq Content("central")
      /\ fan.n \in Nat
  BY <1>1, ContentType, QueueFacts DEF Content, DeliveryTypes
<1>3. \A m \in Content("central") : m < enqueued + 1
  BY <1>1, <1>2 DEF CentralInv
<1>4. /\ QueueTypes' /\ Elsewhere("central") /\ QueueInv("central")' /\ lost' = lost
      /\ Content("central")' = Content("central") \cup {enqueued + 1}
  BY <1>1, <1>2, <1>3, Sends, QueueFacts DEF None
<1>5. \A q \in Queues \ {"central"} : QueueInv(q)' /\ Content(q)' = Content(q)
  BY <1>4, Untouched DEF Elsewhere, DeliveryInv
<1>6. \A k \in Kinds : Content(k)' = Content(k) /\ EndpointInv(k)'
  BY <1>1, <1>4, <1>5, QueueFacts DEF DeliveryInv, EndpointInv, WorkerInv, LaterKept, workerVars
<1>7. DeliveryTypes'
  BY <1>1, <1>4 DEF DeliveryTypes, QueueTypes, workerVars
<1>8. \A k \in Kinds : \A n \in Nat : Under(k, n) => Under(k, n)'
  BY <1>1, <1>6 DEF Under, workerVars
<1>9. \A n \in Nat : AllUnder(n) => AllUnder(n)'
  BY <1>1, <1>8 DEF AllUnder
<1>10. \A n \in Nat : n = enqueued + 1 => AllUnder(n)'
  BY <1>1, <1>9 DEF CentralInv
<1>13. AllUnder(enqueued + 1)'
  <2> PICK e \in Nat : e = enqueued + 1
    BY <1>1
  <2>1. fan'.n < e /\ \A k \in Kinds : taken'[k] < e /\ \A m \in Content(k)' : m < e
    BY <1>10 DEF AllUnder, Under
  <2>2. \A k \in Kinds : Content(k)' \subseteq Nat /\ taken'[k] \in Nat
    <3>1. \A k \in Kinds : Content(k) \subseteq Nat
      BY <1>1, ContentType, QueueFacts
    <3>2. taken' = taken /\ \A k \in Kinds : taken[k] \in Nat
      BY <1>1 DEF DeliveryTypes, workerVars
    <3> QED BY <1>6, <3>1, <3>2
  <2>3. fan'.n \in Int /\ enqueued' + 1 = e + 1
    BY <1>1, <1>2
  <2>4. \A m \in Int : m < e => m < e + 1
    OBVIOUS
  <2>5. fan'.n < e + 1 /\ \A k \in Kinds : taken'[k] < e + 1 /\ \A m \in Content(k)' : m < e + 1
    BY <2>1, <2>2, <2>3, <2>4
  <2> QED BY <2>3, <2>5 DEF AllUnder, Under
<1>11. CentralInv'
  <2>1. lost["central"] \in Nat
    BY <1>1, QueueFacts DEF DeliveryTypes
  <2>3. lost'["central"] # None => lost'["central"] < enqueued'
    <3>1. lost["central"] # None => lost["central"] < enqueued
      BY <1>1 DEF CentralInv
    <3> QED BY <1>1, <1>4, <2>1, <3>1
  <2>2. ASSUME NEW n \in Content("central")' PROVE AllUnder(n)' /\ n <= enqueued'
    <3>1. CASE n = enqueued + 1
      BY <1>1, <1>10, <3>1
    <3>2. CASE n \in Content("central")
      <4>1. n \in Nat /\ AllUnder(n) /\ n <= enqueued
        BY <1>1, <1>2, <3>2 DEF CentralInv
      <4> QED BY <1>1, <1>9, <4>1
    <3> QED BY <1>4, <3>1, <3>2
  <2> QED BY <1>1, <1>4, <1>13, <2>1, <2>2, <2>3 DEF CentralInv
<1>12. FanInv'
  <2>2. fan.todo \in Seq(Kinds)
    BY <1>1 DEF DeliveryTypes
  <2>1. Entries(fan.todo) \subseteq Kinds
    BY <2>2, EntriesIn
  <2> QED BY <1>1, <1>2, <1>8, <2>1 DEF FanInv
<1> QED BY <1>4, <1>5, <1>6, <1>7, <1>11, <1>12 DEF DeliveryInv

(* A queue that is full gives up its oldest, and then takes the newest. *)
LEMMA PushStep ==
  ASSUME DeliveryInv, NEW q \in Queues, Pushes(q)
  PROVE  DeliveryInv'
<1>1. /\ DeliveryTypes /\ QueueInv(q) /\ CentralInv
      /\ UNCHANGED <<enqueued, configured, run, fan, workerVars, stopped>>
  BY DEF DeliveryInv, Pushes, DropOldest, SendAgain
<1>2. /\ QueueTypes' /\ Elsewhere(q) /\ QueueInv(q)' /\ Content(q)' \subseteq Content(q)
      /\ \/ lost'[q] = lost[q] /\ Content(q)' = Content(q)
         \/ lost'[q] < pushing'[q].n /\ pushing'[q].n \in Content(q)'
  <2>1. CASE DropOldest(q)
    BY <1>1, <2>1, Drops
  <2>2. CASE SendAgain(q)
    BY <1>1, <2>2, SendsAgain
  <2> QED BY <2>1, <2>2 DEF Pushes
<1>3. \A p \in Queues \ {q} : QueueInv(p)' /\ Content(p)' = Content(p) /\ lost'[p] = lost[p]
  BY <1>2, Untouched DEF Elsewhere, DeliveryInv
<1>4. \A p \in Queues : QueueInv(p)' /\ Content(p)' \subseteq Content(p)
  BY <1>2, <1>3
<1>5. DeliveryTypes'
  BY <1>1, <1>2 DEF DeliveryTypes, QueueTypes, workerVars
<1>6. \A k \in Kinds : \A n \in Nat : Under(k, n) => Under(k, n)'
  BY <1>1, <1>4, QueueFacts DEF Under, workerVars
<1>7. lost'["central"] # None => lost'["central"] < enqueued
  <2>1. CASE q = "central" /\ lost'[q] < pushing'[q].n /\ pushing'[q].n \in Content(q)'
    <3>1. pushing'[q].n <= enqueued
      BY <1>1, <1>2, <2>1 DEF CentralInv
    <3>2. pushing'[q].n \in Int /\ lost'[q] \in Int /\ enqueued \in Int
      <4>1. pushing'[q] \in PushType /\ lost'[q] \in Nat /\ enqueued \in Nat
        BY <1>1, <1>5 DEF DeliveryTypes
      <4> QED BY <4>1 DEF PushType
    <3> QED BY <2>1, <3>1, <3>2
  <2>2. CASE lost'["central"] = lost["central"]
    BY <1>1, <2>2 DEF CentralInv
  <2> QED BY <1>2, <1>3, <2>1, <2>2, QueueFacts
<1>8. CentralInv' /\ FanInv'
  BY <1>1, <1>4, <1>6, <1>7, NothingAdded, QueueFacts
<1>9. ASSUME NEW k \in Kinds PROVE EndpointInv(k)'
  <2>1. WorkerInv(k)'
    BY <1>1, <1>4, QueueFacts DEF DeliveryInv, EndpointInv, WorkerInv, workerVars
  <2>2. LaterKept(k)'
    <3>1. CASE q = k /\ lost'[q] < pushing'[q].n /\ pushing'[q].n \in Content(q)'
      BY <3>1 DEF LaterKept
    <3>2. CASE lost'[k] = lost[k] /\ Content(k)' = Content(k)
      BY <1>1, <3>2 DEF DeliveryInv, EndpointInv, LaterKept, workerVars
    <3> QED BY <1>2, <1>3, <3>1, <3>2, QueueFacts
  <2> QED BY <2>1, <2>2 DEF EndpointInv
<1> QED BY <1>4, <1>5, <1>8, <1>9 DEF DeliveryInv

-----------------------------------------------------------------------------
(* Run. *)
LEMMA ReceiveStep ==
  ASSUME DeliveryInv, Receive
  PROVE  DeliveryInv'
<1>0. queues["central"] \in Seq(Nat) /\ queues["central"] # <<>>
  BY QueueFacts DEF DeliveryInv, DeliveryTypes, Receive
<1> PICK h \in Nat : h = Head(queues["central"])
  BY <1>0
<1>1. /\ DeliveryTypes /\ QueueInv("central") /\ CentralInv /\ "central" \in Queues
      /\ queues["central"] # <<>> /\ queues' = [queues EXCEPT !["central"] = Tail(@)]
      /\ run' = "read" /\ fan' = [n |-> h, todo |-> <<>>]
      /\ UNCHANGED <<enqueued, pushing, lost, configured, workerVars, stopped>>
  BY QueueFacts DEF DeliveryInv, Receive
<1>2. /\ QueueTypes' /\ Elsewhere("central") /\ QueueInv("central")' /\ lost' = lost
      /\ h \in Nat /\ Content("central") = Content("central")' \cup {h}
      /\ \A m \in Content("central")' : h < m
  BY <1>1, Takes
<1>3. \A p \in Kinds : QueueInv(p)' /\ Content(p)' = Content(p)
  BY <1>2, Untouched, QueueFacts DEF Elsewhere, DeliveryInv
<1>4. DeliveryTypes'
  <2>1. fan' \in [n : Nat, todo : Seq(Kinds)]
    BY <1>1
  <2>2. run' \in {"select", "read", "forward", "waiting", "returned"}
    BY <1>1
  <2>3. UNCHANGED <<enqueued, configured, stopped, worker, job, tries, taken, heard>>
    BY <1>1 DEF workerVars
  <2> QED BY <1>1, <1>2, <2>1, <2>2, <2>3 DEF DeliveryTypes, QueueTypes
<1>5. \A k \in Kinds : \A n \in Nat : Under(k, n) => Under(k, n)'
  BY <1>1, <1>3 DEF Under, workerVars
<1>6. h <= enqueued /\ None < h /\ AllUnder(h) /\ enqueued \in Nat /\ lost["central"] \in Nat
  BY <1>1, <1>2 DEF CentralInv, QueueInv, DeliveryTypes
<1>7. \A k \in Kinds : Under(k, h)'
  BY <1>2, <1>5, <1>6 DEF AllUnder
<1>8. FanInv'
  BY <1>1, <1>6, <1>7 DEF FanInv
<1>9. CentralInv'
  <2>1. ASSUME NEW n \in Nat, AllUnder(n), h < n PROVE AllUnder(n)'
    BY <1>1, <1>5, <2>1 DEF AllUnder
  <2>2. AllUnder(enqueued + 1)'
    BY <1>1, <1>2, <1>6, <2>1 DEF CentralInv
  <2>3. \A n \in Content("central")' : AllUnder(n)' /\ n <= enqueued'
    BY <1>1, <1>2, <2>1, ContentType DEF CentralInv
  <2> QED BY <1>1, <2>2, <2>3 DEF CentralInv
<1>10. \A k \in Kinds : EndpointInv(k)'
  BY <1>1, <1>3 DEF DeliveryInv, EndpointInv, WorkerInv, LaterKept, workerVars
<1> QED BY <1>2, <1>3, <1>4, <1>8, <1>9, <1>10 DEF DeliveryInv, Queues

(* What endpoints() returns. *)
LEMMA IfConfiguredOnce ==
  ASSUME NEW k \in Kinds
  PROVE  /\ IfConfigured(k) \in Seq(Kinds) /\ Len(IfConfigured(k)) \in 0 .. 1
         /\ \A i \in 1 .. Len(IfConfigured(k)) : i = 1 /\ IfConfigured(k)[i] = k
<1>1. <<k>> \in Seq(Kinds) /\ Len(<<k>>) = 1 /\ <<k>>[1] = k
  OBVIOUS
<1>2. <<>> \in Seq(Kinds) /\ Len(<<>>) = 0
  OBVIOUS
<1>3. CASE k \in configured
  <2>1. IfConfigured(k) = <<k>>
    BY <1>3 DEF IfConfigured
  <2> QED BY <1>1, <2>1
<1>4. CASE k \notin configured
  <2>1. IfConfigured(k) = <<>>
    BY <1>4 DEF IfConfigured
  <2> QED BY <1>2, <2>1
<1> QED BY <1>3, <1>4

LEMMA EndpointsRead ==
  ASSUME NEW rest, rest = IfConfigured("webhook") \o IfConfigured("ntfy")
  PROVE  rest \in Seq(Kinds) /\ Distinct(rest)
<1> DEFINE s == IfConfigured("webhook")  t == IfConfigured("ntfy")
<1>1. /\ s \in Seq(Kinds) /\ Len(s) \in 0 .. 1 /\ \A i \in 1 .. Len(s) : i = 1 /\ s[i] = "webhook"
      /\ t \in Seq(Kinds) /\ Len(t) \in 0 .. 1 /\ \A i \in 1 .. Len(t) : i = 1 /\ t[i] = "ntfy"
  BY IfConfiguredOnce DEF Kinds
<1>2. rest = s \o t
  OBVIOUS
<1> HIDE DEF s, t
<1>3. /\ rest \in Seq(Kinds) /\ Len(rest) = Len(s) + Len(t)
      /\ \A i \in 1 .. Len(s) + Len(t) : rest[i] = IF i <= Len(s) THEN s[i] ELSE t[i - Len(s)]
  <2>1. /\ s \o t \in Seq(Kinds) /\ Len(s \o t) = Len(s) + Len(t)
        /\ \A i \in 1 .. Len(s) + Len(t) : (s \o t)[i] = IF i <= Len(s) THEN s[i] ELSE t[i - Len(s)]
    BY <1>1, ConcatProperties
  <2> QED BY <1>2, <2>1
<1>4. \A i \in 1 .. Len(rest) : \/ i = 1 /\ i <= Len(s) /\ rest[i] = "webhook"
                                \/ i - Len(s) = 1 /\ ~(i <= Len(s)) /\ rest[i] = "ntfy"
  <2> TAKE i \in 1 .. Len(rest)
  <2>1. CASE i <= Len(s)
    BY <1>1, <1>3, <2>1
  <2>2. CASE ~(i <= Len(s))
    <3>1. i - Len(s) \in 1 .. Len(t)
      BY <1>1, <1>3, <2>2
    <3> QED BY <1>1, <1>3, <2>2, <3>1
  <2> QED BY <2>1, <2>2
<1>5. ASSUME NEW i \in 1 .. Len(rest), NEW j \in 1 .. Len(rest), rest[i] = rest[j]
      PROVE  i = j
  <2>1. "webhook" # "ntfy" /\ i \in Int /\ j \in Int /\ Len(s) \in Int
    BY <1>1
  <2> QED BY <1>4, <1>5, <2>1
<1> QED BY <1>3, <1>5 DEF Distinct

LEMMA ReadEndpointsStep ==
  ASSUME DeliveryInv, ReadEndpoints
  PROVE  DeliveryInv'
<1> DEFINE rest == IfConfigured("webhook") \o IfConfigured("ntfy")
<1>1. /\ DeliveryTypes /\ FanInv /\ CentralInv /\ run = "read" /\ ForwardTo(rest)
      /\ UNCHANGED <<enqueued, queueVars, configured, workerVars, stopped>>
  BY DEF DeliveryInv, ReadEndpoints
<1>2. rest \in Seq(Kinds) /\ Distinct(rest) /\ Entries(rest) \subseteq Kinds
  <2>1. rest \in Seq(Kinds) /\ Distinct(rest)
    BY EndpointsRead
  <2> HIDE DEF rest
  <2> QED BY <2>1, EntriesIn
<1> HIDE DEF rest
<1>3. /\ \A q \in Queues : QueueInv(q)' /\ Content(q)' = Content(q)
      /\ \A k \in Kinds : EndpointInv(k)' /\ \A n \in Nat : Under(k, n) => Under(k, n)'
  BY <1>1, QueueFacts DEF DeliveryInv, QueueInv, Content, Busy, Idle, Room, EndpointInv, WorkerInv, LaterKept,
                          Under, queueVars, workerVars
<1>4. fan.n \in Nat /\ enqueued \in Nat /\ fan \in [n : Nat, todo : Seq(Kinds)]
  BY <1>1 DEF DeliveryTypes
<1>5. /\ fan'.n \in Nat /\ fan'.n <= fan.n /\ fan' \in [n : Nat, todo : Seq(Kinds)]
      /\ run' \in {"select", "forward"}
      /\ run' = "forward" => fan'.n = fan.n /\ fan'.todo = rest /\ rest # <<>>
  <2>1. CASE rest = <<>>
    BY <1>1, <1>4, <2>1 DEF ForwardTo, NoFan, None
  <2>2. CASE rest # <<>>
    BY <1>1, <1>2, <1>4, <2>2 DEF ForwardTo
  <2> QED BY <2>1, <2>2
<1>6. DeliveryTypes'
  BY <1>1, <1>5 DEF DeliveryTypes, queueVars, workerVars
<1>7. CentralInv'
  <2>1. ASSUME NEW n \in Nat, AllUnder(n) PROVE AllUnder(n)'
    BY <1>3, <1>4, <1>5, <2>1 DEF AllUnder
  <2>2. Content("central") \subseteq Nat
    BY <1>1, ContentType, QueueFacts
  <2> QED BY <1>1, <1>3, <1>4, <2>1, <2>2, QueueFacts DEF CentralInv, queueVars
<1>8. FanInv'
  BY <1>1, <1>2, <1>3, <1>4, <1>5 DEF FanInv
<1> QED BY <1>3, <1>6, <1>7, <1>8 DEF DeliveryInv

(* Those behind the first of them. *)
LEMMA Others ==
  ASSUME NEW s \in Seq(Kinds), s # <<>>, Distinct(s)
  PROVE  /\ Head(s) \in Kinds /\ Head(s) \in Entries(s) /\ Tail(s) \in Seq(Kinds) /\ Distinct(Tail(s))
         /\ \A k \in Entries(Tail(s)) : k \in Entries(s) /\ k # Head(s)
<1> DEFINE t == Tail(s)
<1>1. /\ t \in Seq(Kinds) /\ Len(s) \in Nat \ {0} /\ Len(t) = Len(s) - 1 /\ Head(s) = s[1]
      /\ \A i \in 1 .. Len(t) : t[i] = s[i + 1]
      /\ \A i \in 1 .. Len(s) : s[i] \in Kinds
  OBVIOUS
<1> HIDE DEF t
<1>2. 1 \in 1 .. Len(s) /\ \A i \in 1 .. Len(t) : i + 1 \in 1 .. Len(s) /\ i + 1 # 1
  BY <1>1
<1>3. Head(s) \in Kinds /\ Head(s) \in Entries(s)
  BY <1>1, <1>2 DEF Entries
<1>4. \A k \in Entries(t) : k \in Entries(s) /\ k # Head(s)
  BY <1>1, <1>2 DEF Entries, Distinct
<1>5. ASSUME NEW i \in 1 .. Len(t), NEW j \in 1 .. Len(t), t[i] = t[j]
      PROVE  i = j
  <2>1. i + 1 = j + 1
    BY <1>1, <1>2, <1>5 DEF Distinct
  <2> QED BY <2>1
<1> QED BY <1>1, <1>3, <1>4, <1>5 DEF t, Distinct

LEMMA ForwardStep ==
  ASSUME DeliveryInv, Forward
  PROVE  DeliveryInv'
<1>1. /\ DeliveryTypes /\ FanInv /\ CentralInv /\ run = "forward" /\ \A k \in Kinds : Idle(k)
      /\ Send(Head(fan.todo), fan.n) /\ ForwardTo(Tail(fan.todo))
      /\ UNCHANGED <<enqueued, configured, workerVars, stopped>>
  BY DEF DeliveryInv, Forward
<1>2. /\ fan.todo \in Seq(Kinds) /\ fan.n \in Nat /\ fan.todo # <<>> /\ Distinct(fan.todo) /\ None < fan.n
      /\ enqueued \in Nat /\ fan \in [n : Nat, todo : Seq(Kinds)]
  BY <1>1 DEF DeliveryTypes, FanInv
<1> PICK n \in Nat, first \in Kinds, rest \in Seq(Kinds) :
      n = fan.n /\ first = Head(fan.todo) /\ rest = Tail(fan.todo)
  BY <1>2, Others
<1>3. /\ first \in Entries(fan.todo) /\ Distinct(rest)
      /\ \A k \in Entries(rest) : k \in Entries(fan.todo) /\ k # first /\ k \in Kinds
  <2>1. \A k \in Entries(rest) : k \in Kinds
    BY EntriesIn
  <2> QED BY <1>2, <2>1, Others
<1>4. \A k \in Entries(fan.todo) : Under(k, n)
  BY <1>1 DEF FanInv
<1>5. QueueInv(first) /\ Idle(first) /\ Send(first, n) /\ first \in Queues /\ Content(first) \subseteq Nat
  BY <1>1, ContentType, QueueFacts DEF DeliveryInv
<1>6. \A m \in Entries(queues[first]) : m < n
  BY <1>3, <1>4 DEF Under, Content
<1>7. QueueTypes' /\ Elsewhere(first) /\ QueueInv(first)' /\ Content(first)' = Content(first) \cup {n} /\ lost' = lost
  BY <1>1, <1>2, <1>5, <1>6, Sends
<1>8. \A p \in Queues \ {first} : QueueInv(p)' /\ Content(p)' = Content(p)
  BY <1>7, Untouched DEF Elsewhere, DeliveryInv
<1>9. /\ fan'.n \in Nat /\ fan'.n <= n /\ fan' \in [n : Nat, todo : Seq(Kinds)]
      /\ run' \in {"select", "forward"}
      /\ run' = "forward" => fan'.n = n /\ fan'.todo = rest /\ rest # <<>>
  <2>0. ForwardTo(rest)
    BY <1>1
  <2>1. CASE rest = <<>>
    BY <1>2, <2>0, <2>1 DEF ForwardTo, NoFan, None
  <2>2. CASE rest # <<>>
    <3>1. run' = "forward" /\ fan' = [fan EXCEPT !.todo = rest]
      BY <2>0, <2>2 DEF ForwardTo
    <3>2. fan'.todo = rest /\ fan'.n = fan.n /\ fan' \in [n : Nat, todo : Seq(Kinds)]
      BY <1>2, <3>1
    <3> QED BY <2>2, <3>1, <3>2
  <2> QED BY <2>1, <2>2
<1>10. DeliveryTypes'
  BY <1>1, <1>7, <1>9 DEF DeliveryTypes, QueueTypes, workerVars
<1>11. ASSUME NEW k \in Kinds, NEW m \in Nat, Under(k, m), k # first \/ n < m PROVE Under(k, m)'
  BY <1>1, <1>7, <1>8, <1>11, QueueFacts DEF Under, workerVars
<1>12. CentralInv'
  <2>1. ASSUME NEW m \in Nat, AllUnder(m) PROVE AllUnder(m)'
    <3>1. n < m /\ \A k \in Kinds : Under(k, m)
      BY <2>1 DEF AllUnder
    <3>2. fan'.n < m
      BY <1>9, <3>1
    <3> QED BY <1>11, <3>1, <3>2 DEF AllUnder
  <2>2. Content("central") \subseteq Nat /\ Content("central")' = Content("central")
    BY <1>1, <1>8, ContentType, QueueFacts
  <2> QED BY <1>1, <1>2, <1>7, <2>1, <2>2 DEF CentralInv
<1>13. FanInv'
  BY <1>2, <1>3, <1>4, <1>9, <1>11 DEF FanInv
<1>14. ASSUME NEW k \in Kinds PROVE EndpointInv(k)'
  <2>1. EndpointInv(k) /\ k \in Queues /\ Content(k) \subseteq Content(k)'
    BY <1>7, <1>8, QueueFacts DEF DeliveryInv
  <2>2. \A m \in Content(k)' : taken[k] < m
    BY <1>3, <1>4, <1>7, <1>8, <2>1 DEF EndpointInv, WorkerInv, Under
  <2> QED BY <1>1, <1>7, <2>1, <2>2 DEF EndpointInv, WorkerInv, LaterKept, workerVars
<1> QED BY <1>7, <1>8, <1>10, <1>12, <1>13, <1>14 DEF DeliveryInv

-----------------------------------------------------------------------------
(* The workers. *)
LEMMA TakeJobStep ==
  ASSUME DeliveryInv, NEW k \in Kinds, TakeJob(k)
  PROVE  DeliveryInv'
<1>0. k \in Queues /\ k # "central" /\ "central" \in Queues /\ DeliveryTypes /\ QueueInv(k)
      /\ queues[k] \in Seq(Nat) /\ queues[k] # <<>>
  BY QueueFacts DEF DeliveryInv, DeliveryTypes, TakeJob
<1> PICK h \in Nat : h = Head(queues[k])
  BY <1>0
<1>1. /\ queues' = [queues EXCEPT ![k] = Tail(@)] /\ taken' = [taken EXCEPT ![k] = h] /\ worker[k] = "select"
      /\ IF stopped THEN UNCHANGED <<worker, job>>
         ELSE worker' = [worker EXCEPT ![k] = "sending"] /\ job' = [job EXCEPT ![k] = h]
      /\ UNCHANGED <<enqueued, pushing, lost, configured, run, fan, tries, heard, stopped>>
  BY DEF TakeJob
<1>2. /\ QueueTypes' /\ Elsewhere(k) /\ QueueInv(k)' /\ lost' = lost
      /\ Content(k) = Content(k)' \cup {h} /\ \A m \in Content(k)' : h < m
  BY <1>0, <1>1, Takes
<1>3. \A p \in Queues \ {k} : QueueInv(p)' /\ Content(p)' = Content(p)
  BY <1>2, Untouched DEF Elsewhere, DeliveryInv
<1>4. DeliveryTypes'
  <2>1. taken' \in [Kinds -> Nat] /\ worker' \in [Kinds -> {"select", "sending", "sleeping", "gone"}] /\ job' \in [Kinds -> Nat]
    BY <1>0, <1>1 DEF DeliveryTypes
  <2> QED BY <1>0, <1>1, <1>2, <2>1 DEF DeliveryTypes, QueueTypes
<1>5. /\ taken'[k] = h /\ taken[k] \in Nat /\ taken[k] < h /\ WorkerInv(k)
      /\ \A j \in Kinds \ {k} : taken'[j] = taken[j] /\ worker'[j] = worker[j] /\ job'[j] = job[j]
  <2>1. WorkerInv(k)
    BY DEF DeliveryInv, EndpointInv
  <2> QED BY <1>0, <1>1, <1>2, <2>1 DEF WorkerInv, DeliveryTypes
<1>6. \A j \in Kinds : \A n \in Nat : Under(j, n) => Under(j, n)'
  BY <1>2, <1>3, <1>5, QueueFacts DEF Under
<1>7. CentralInv' /\ FanInv'
  BY <1>0, <1>1, <1>2, <1>3, <1>6, NothingAdded DEF DeliveryInv, CentralInv
<1>8. WorkerInv(k)'
  <2>0. heard[k].n \in Nat
    BY <1>0 DEF DeliveryTypes
  <2>1. heard[k].n \in Nat /\ heard[k].n < h
    <3>1. heard[k].n <= taken[k]
      BY <1>5 DEF WorkerInv
    <3> QED BY <2>0, <3>1, <1>5, <1>0
  <2>2. worker'[k] \in {"sending", "sleeping"} => job'[k] = h
    BY <1>0, <1>1 DEF DeliveryTypes
  <2> QED BY <1>1, <1>2, <1>5, <2>1, <2>2 DEF WorkerInv
<1>9. LaterKept(k)'
  <2>1. lost[k] \in Nat /\ LaterKept(k)
    BY <1>0 DEF DeliveryInv, EndpointInv, DeliveryTypes
  <2> QED BY <1>2, <1>5, <2>1 DEF LaterKept
<1>10. \A j \in Kinds \ {k} : EndpointInv(j)'
  BY <1>1, <1>3, <1>5, QueueFacts DEF DeliveryInv, EndpointInv, WorkerInv, LaterKept
<1> QED BY <1>2, <1>3, <1>4, <1>7, <1>8, <1>9, <1>10 DEF DeliveryInv, EndpointInv

(* A step that moves no notification. *)
LEMMA NothingMoved ==
  ASSUME DeliveryInv, UNCHANGED <<enqueued, queueVars, fan, taken>>, run' = run \/ run' \notin {"read", "forward"},
         DeliveryTypes', \A k \in Kinds : WorkerInv(k)'
  PROVE  DeliveryInv'
<1>1. /\ \A q \in Queues : QueueInv(q)' /\ Content(q)' = Content(q)
      /\ \A k \in Kinds : LaterKept(k)' /\ \A n \in Nat : Under(k, n) => Under(k, n)'
  BY QueueFacts DEF DeliveryInv, QueueInv, Content, Busy, Idle, Room, EndpointInv, LaterKept, Under, queueVars
<1>2. CentralInv' /\ FanInv'
  BY <1>1, NothingAdded, QueueFacts DEF DeliveryInv, CentralInv, queueVars
<1> QED BY <1>1, <1>2 DEF DeliveryInv, EndpointInv

(* What an endpoint received is what its worker took last. *)
LEMMA HearsOnly ==
  ASSUME DeliveryInv, NEW k \in Kinds, worker[k] = "sending", NEW got \in BOOLEAN, Hears(k, got)
  PROVE  /\ heard' \in [Kinds -> [n : Nat, times : Nat]]
         /\ \A j \in Kinds \ {k} : heard'[j] = heard[j]
         /\ heard[k].n <= heard'[k].n /\ heard'[k].n <= taken[k]
         /\ heard'[k].times <= Attempts[k]
         /\ heard'[k].n = job[k] => heard'[k].times <= tries[k] + 1
<1>1. /\ heard \in [Kinds -> [n : Nat, times : Nat]] /\ heard[k] \in [n : Nat, times : Nat]
      /\ job[k] \in Nat /\ tries[k] \in Nat /\ taken[k] \in Nat /\ Attempts[k] \in Nat \ {0}
  BY DeliveryAssumption DEF DeliveryInv, DeliveryTypes, DeliveryAssumption
<1>2. /\ job[k] = taken[k] /\ heard[k].n <= taken[k] /\ tries[k] < Attempts[k] /\ heard[k].times <= Attempts[k]
      /\ heard[k].n = job[k] => heard[k].times <= tries[k]
  BY DEF DeliveryInv, EndpointInv, WorkerInv
<1>3. CASE ~got
  BY <1>1, <1>2, <1>3 DEF Hears
<1>4. CASE got
  <2> PICK times \in Nat : /\ times = IF heard[k].n = job[k] THEN heard[k].times + 1 ELSE 1
                           /\ heard' = [heard EXCEPT ![k] = [n |-> job[k], times |-> times]]
    <3> DEFINE t == IF heard[k].n = job[k] THEN heard[k].times + 1 ELSE 1
    <3>1. t \in Nat
      BY <1>1
    <3>2. heard' = [heard EXCEPT ![k] = [n |-> job[k], times |-> t]]
      BY <1>4 DEF Hears
    <3> QED BY <3>1, <3>2
  <2>1. times <= tries[k] + 1 /\ times <= Attempts[k]
    BY <1>1, <1>2
  <2>2. heard'[k].n = job[k] /\ heard'[k].times = times
    BY <1>1
  <2>3. heard' \in [Kinds -> [n : Nat, times : Nat]] /\ \A j \in Kinds \ {k} : heard'[j] = heard[j]
    BY <1>1
  <2> QED BY <1>1, <1>2, <2>1, <2>2, <2>3
<1> QED BY <1>3, <1>4

LEMMA FinishesOnly ==
  ASSUME DeliveryTypes, NEW k \in Kinds, Finish(k)
  PROVE  /\ worker' \in [Kinds -> {"select", "sending", "sleeping", "gone"}]
         /\ job' \in [Kinds -> Nat] /\ tries' \in [Kinds -> Nat]
         /\ worker'[k] = "select" /\ tries'[k] = 0
         /\ \A j \in Kinds \ {k} : worker'[j] = worker[j] /\ job'[j] = job[j] /\ tries'[j] = tries[j]
BY DEF DeliveryTypes, Finish, None

LEMMA RequestStep ==
  ASSUME DeliveryInv, NEW k \in Kinds, Request(k)
  PROVE  DeliveryInv' /\ heard[k].n <= heard'[k].n /\ \A j \in Kinds \ {k} : heard'[j] = heard[j]
<1>1. /\ DeliveryTypes /\ worker[k] = "sending" /\ \E got \in BOOLEAN : Hears(k, got)
      /\ UNCHANGED <<enqueued, queueVars, configured, run, fan, taken, stopped>>
  BY DEF DeliveryInv, Request, Answered, Fails
<1>2. /\ heard' \in [Kinds -> [n : Nat, times : Nat]]
      /\ \A j \in Kinds \ {k} : heard'[j] = heard[j]
      /\ heard[k].n <= heard'[k].n /\ heard'[k].n <= taken[k] /\ heard'[k].times <= Attempts[k]
      /\ heard'[k].n = job[k] => heard'[k].times <= tries[k] + 1
  BY <1>1, HearsOnly
<1>3. /\ job[k] = taken[k] /\ tries[k] \in Nat /\ Attempts[k] \in Nat \ {0} /\ Content(k)' = Content(k)
      /\ \A n \in Content(k) : taken[k] < n
  BY <1>1, DeliveryAssumption DEF DeliveryInv, DeliveryTypes, EndpointInv, WorkerInv, DeliveryAssumption,
                                  Content, Busy, queueVars
<1>4. /\ worker' \in [Kinds -> {"select", "sending", "sleeping", "gone"}]
      /\ job' \in [Kinds -> Nat] /\ tries' \in [Kinds -> Nat]
      /\ \A j \in Kinds \ {k} : worker'[j] = worker[j] /\ job'[j] = job[j] /\ tries'[j] = tries[j]
      /\ \/ worker'[k] = "select" /\ tries'[k] = 0
         \/ worker'[k] = "sleeping" /\ tries'[k] = tries[k] + 1 /\ tries[k] + 1 < Attempts[k] /\ job' = job
  <2>1. CASE Finish(k)
    BY <1>1, <2>1, FinishesOnly
  <2>2. CASE /\ tries[k] + 1 < Attempts[k] /\ tries' = [tries EXCEPT ![k] = @ + 1]
             /\ worker' = [worker EXCEPT ![k] = "sleeping"] /\ UNCHANGED job
    BY <1>1, <1>3, <2>2 DEF DeliveryTypes
  <2> QED BY <2>1, <2>2 DEF Request, Answered, Fails
<1>5. DeliveryTypes'
  BY <1>1, <1>2, <1>4 DEF DeliveryTypes, queueVars
<1>6. WorkerInv(k)'
  <2>1. /\ heard'[k].n <= taken'[k] /\ heard'[k].times <= Attempts[k]
        /\ \A n \in Content(k)' : taken'[k] < n
    BY <1>1, <1>2, <1>3
  <2>2. CASE worker'[k] = "select" /\ tries'[k] = 0
    BY <1>3, <2>1, <2>2 DEF WorkerInv
  <2>3. CASE worker'[k] = "sleeping" /\ tries'[k] = tries[k] + 1 /\ tries[k] + 1 < Attempts[k] /\ job' = job
    BY <1>1, <1>2, <1>3, <2>1, <2>3 DEF WorkerInv
  <2> QED BY <1>4, <2>2, <2>3
<1>7. \A j \in Kinds \ {k} : WorkerInv(j)'
  BY <1>1, <1>2, <1>4 DEF DeliveryInv, EndpointInv, WorkerInv, Content, Busy, queueVars
<1> QED BY <1>1, <1>2, <1>5, <1>6, <1>7, NothingMoved

(* The steps of a worker at which nothing is heard. *)
LEMMA WorkerStep ==
  ASSUME DeliveryInv, NEW k \in Kinds, Wakes(k) \/ Cancelled(k) \/ WorkerStops(k)
  PROVE  DeliveryInv'
<1>1. /\ DeliveryTypes /\ UNCHANGED <<enqueued, queueVars, configured, run, fan, heard, taken, stopped>>
  BY DEF DeliveryInv, Wakes, Cancelled, WorkerStops
<1>2. WorkerInv(k) /\ Content(k)' = Content(k) /\ Attempts[k] \in Nat \ {0} /\ \A j \in Kinds : EndpointInv(j)
  BY <1>1, DeliveryAssumption DEF DeliveryInv, EndpointInv, DeliveryAssumption, Content, Busy, queueVars
<1>3. /\ worker' \in [Kinds -> {"select", "sending", "sleeping", "gone"}]
      /\ job' \in [Kinds -> Nat] /\ tries' \in [Kinds -> Nat]
      /\ \A j \in Kinds \ {k} : worker'[j] = worker[j] /\ job'[j] = job[j] /\ tries'[j] = tries[j]
      /\ \/ worker'[k] = "select" /\ tries'[k] = 0
         \/ worker'[k] = "gone" /\ tries'[k] = tries[k]
         \/ worker[k] = "sleeping" /\ tries'[k] = tries[k] /\ job'[k] = job[k]
  <2>1. CASE Wakes(k)
    BY <1>1, <2>1 DEF Wakes, DeliveryTypes
  <2>2. CASE Cancelled(k)
    BY <1>1, <2>2, FinishesOnly DEF Cancelled
  <2>3. CASE WorkerStops(k)
    BY <1>1, <2>3 DEF WorkerStops, DeliveryTypes
  <2> QED BY <2>1, <2>2, <2>3
<1>4. DeliveryTypes'
  BY <1>1, <1>3 DEF DeliveryTypes, queueVars
<1>5. WorkerInv(k)'
  BY <1>1, <1>2, <1>3 DEF WorkerInv
<1>6. \A j \in Kinds \ {k} : WorkerInv(j)'
  BY <1>1, <1>2, <1>3 DEF EndpointInv, WorkerInv, Content, Busy, queueVars
<1> QED BY <1>1, <1>4, <1>5, <1>6, NothingMoved

(* The steps that leave queues and workers alone. *)
LEMMA OtherStep ==
  ASSUME DeliveryInv,
         \/ \E endpoints \in SUBSET Kinds : SetEndpoints(endpoints)
         \/ RunStops \/ RunReturns \/ Stop \/ UNCHANGED deliveryVars
  PROVE  DeliveryInv' /\ heard' = heard
<1>1. /\ UNCHANGED <<enqueued, queueVars, fan, workerVars>> /\ (run' = run \/ run' \in {"waiting", "returned"})
      /\ (configured' = configured \/ configured' \subseteq Kinds) /\ (stopped' = stopped \/ stopped' = TRUE)
  BY DEF SetEndpoints, RunStops, RunReturns, Stop, deliveryVars
<1>2. DeliveryTypes'
  BY <1>1 DEF DeliveryInv, DeliveryTypes, queueVars, workerVars
<1>3. \A k \in Kinds : WorkerInv(k)'
  BY <1>1 DEF DeliveryInv, EndpointInv, WorkerInv, Content, Busy, queueVars, workerVars
<1> QED BY <1>1, <1>2, <1>3, NothingMoved DEF workerVars

-----------------------------------------------------------------------------
LEMMA DeliveryStarts ==
  ASSUME DeliveryInit
  PROVE  DeliveryInv
<1>1. /\ enqueued = 0 /\ run = "select" /\ fan = NoFan /\ stopped = FALSE /\ configured \subseteq Kinds
      /\ \A q \in Queues : queues[q] = <<>> /\ pushing[q] = NoPush /\ lost[q] = 0
      /\ \A k \in Kinds : /\ worker[k] = "select" /\ job[k] = 0 /\ tries[k] = 0 /\ taken[k] = 0
                          /\ heard[k] = [n |-> 0, times |-> 0] /\ Attempts[k] \in Nat \ {0}
  BY DeliveryAssumption DEF DeliveryInit, None, DeliveryAssumption
<1>2. <<>> \in Seq(Nat) /\ <<>> \in Seq(Kinds) /\ Len(<<>>) = 0
  OBVIOUS
<1>3. NoPush \in PushType /\ NoFan \in [n : Nat, todo : Seq(Kinds)] /\ NoFan.n = 0 /\ NoPush.at = "idle"
  BY <1>2 DEF NoPush, NoFan, PushType, None
<1>4. DeliveryTypes
  BY <1>1, <1>2, <1>3 DEF DeliveryInit, DeliveryTypes, None
<1>5. \A i \in 1 .. Len(<<>>) : FALSE
  BY <1>2
<1>6. \A q \in Queues : Content(q) = {} /\ Rising(queues[q])
  BY <1>1, <1>3, <1>5 DEF Content, Busy, Entries, Rising
<1>7. \A q \in Queues : QueueInv(q)
  BY <1>1, <1>2, <1>3, <1>6, DeliveryAssumption DEF QueueInv, Busy, Idle, DeliveryAssumption
<1>8. \A k \in Kinds : EndpointInv(k)
  BY <1>1, <1>6, QueueFacts DEF EndpointInv, WorkerInv, LaterKept, None
<1>9. CentralInv /\ FanInv
  BY <1>1, <1>3, <1>6, QueueFacts DEF CentralInv, FanInv, AllUnder, Under, None
<1> QED BY <1>4, <1>7, <1>8, <1>9 DEF DeliveryInv

LEMMA DeliverySteps ==
  ASSUME DeliveryInv, [DeliveryNext]_deliveryVars
  PROVE  DeliveryInv' /\ \A k \in Kinds : heard[k].n <= heard'[k].n
<1>1. \A k \in Kinds : heard[k].n \in Nat /\ heard[k].n <= heard[k].n
  BY DEF DeliveryInv, DeliveryTypes
<1>2. CASE Enqueue
  BY <1>1, <1>2, EnqueueStep DEF Enqueue, workerVars
<1>3. ASSUME NEW q \in Queues, Pushes(q) PROVE DeliveryInv' /\ heard' = heard
  BY <1>3, PushStep DEF Pushes, DropOldest, SendAgain, workerVars
<1>4. CASE Receive
  BY <1>1, <1>4, ReceiveStep DEF Receive, workerVars
<1>5. CASE ReadEndpoints
  BY <1>1, <1>5, ReadEndpointsStep DEF ReadEndpoints, workerVars
<1>6. CASE Forward
  BY <1>1, <1>6, ForwardStep DEF Forward, workerVars
<1>7. ASSUME NEW k \in Kinds, TakeJob(k) PROVE DeliveryInv' /\ heard' = heard
  BY <1>7, TakeJobStep DEF TakeJob
<1>8. ASSUME NEW k \in Kinds, Request(k) PROVE DeliveryInv' /\ \A j \in Kinds : heard[j].n <= heard'[j].n
  BY <1>1, <1>8, RequestStep
<1>9. ASSUME NEW k \in Kinds, Wakes(k) \/ Cancelled(k) \/ WorkerStops(k) PROVE DeliveryInv' /\ heard' = heard
  BY <1>9, WorkerStep DEF Wakes, Cancelled, WorkerStops
<1>10. CASE \/ \E endpoints \in SUBSET Kinds : SetEndpoints(endpoints)
            \/ RunStops \/ RunReturns \/ Stop \/ UNCHANGED deliveryVars
  BY <1>1, <1>10, OtherStep
<1> QED BY <1>1, <1>2, <1>3, <1>4, <1>5, <1>6, <1>7, <1>8, <1>9, <1>10 DEF DeliveryNext, RunStep

LEMMA DeliverySafe == DeliverySpec => []DeliveryInv
<1>1. DeliveryInit => DeliveryInv
  BY DeliveryStarts
<1>2. DeliveryInv /\ [DeliveryNext]_deliveryVars => DeliveryInv'
  BY DeliverySteps
<1> QED BY <1>1, <1>2, PTL DEF DeliverySpec

(* The types of the dispatcher. *)
THEOREM DeliveryTypeCorrect == DeliverySpec => []DeliveryTypes
<1>1. DeliveryInv => DeliveryTypes
  BY DEF DeliveryInv
<1> QED BY <1>1, DeliverySafe, PTL

(* A full queue gives up an older notification for the newest, whatever its *)
(* size and however its receiver takes from it meanwhile (the two selects   *)
(* of Enqueue and enqueueEndpoint).                                         *)
THEOREM NewestStaysInReach == DeliverySpec => []NewestIsKept
<1>1. DeliveryInv => NewestIsKept
  <2> SUFFICES ASSUME DeliveryInv
               PROVE  NewestIsKept
    OBVIOUS
  <2>1. lost["central"] # None => lost["central"] < enqueued
    BY DEF DeliveryInv, CentralInv
  <2>2. ASSUME NEW k \in Kinds, lost[k] # None
        PROVE  \E m \in {taken[k], pushing[k].n} \cup {queues[k][i] : i \in 1 .. Len(queues[k])} : m > lost[k]
    <3>1. lost[k] < taken[k] \/ \E n \in Content(k) : lost[k] < n
      BY <2>2 DEF DeliveryInv, EndpointInv, LaterKept
    <3>2. \A n \in Content(k) : n \in {taken[k], pushing[k].n} \cup {queues[k][i] : i \in 1 .. Len(queues[k])}
      BY DEF Content, Entries
    <3>3. taken[k] \in Int /\ lost[k] \in Int /\ Content(k) \subseteq Int
      <4>1. DeliveryTypes /\ k \in Queues
        BY QueueFacts DEF DeliveryInv
      <4>2. taken[k] \in Nat /\ lost[k] \in Nat
        BY <4>1 DEF DeliveryTypes
      <4>3. Content(k) \subseteq Nat
        BY <4>1, ContentType
      <4> QED BY <4>2, <4>3
    <3> QED BY <3>1, <3>2, <3>3
  <2> QED BY <2>1, <2>2 DEF NewestIsKept
<1> QED BY <1>1, DeliverySafe, PTL

(* An endpoint hears notifications in the order they were raised, one of    *)
(* them at most as often as it may be tried (sendWithRetry), for any number *)
(* of attempts.                                                             *)
THEOREM OrderIsHeard == DeliverySpec => HeardInOrder
<1>1. DeliveryInv /\ [DeliveryNext]_deliveryVars =>
        [\A k \in Kinds : heard'[k].n >= heard[k].n /\ heard'[k].times <= Attempts[k]]_deliveryVars
  <2> SUFFICES ASSUME DeliveryInv, [DeliveryNext]_deliveryVars, NEW k \in Kinds
               PROVE  heard'[k].n >= heard[k].n /\ heard'[k].times <= Attempts[k]
    OBVIOUS
  <2>1. DeliveryInv' /\ heard[k].n <= heard'[k].n
    BY DeliverySteps
  <2>2. heard[k].n \in Nat /\ heard'[k].n \in Nat /\ heard'[k].times <= Attempts[k]
    BY <2>1 DEF DeliveryInv, DeliveryTypes, EndpointInv, WorkerInv
  <2> QED BY <2>1, <2>2
<1> QED BY <1>1, DeliverySafe, PTL DEF DeliverySpec, HeardInOrder

-----------------------------------------------------------------------------
(***************************************************************************)
(* The alarm itself (Evaluation).                                          *)
(***************************************************************************)

(* The outage that the dish's failure is, as long as it lasts. *)
Unanswered == T!Active(T!Unreachable)

(* What the poller, the loop and the clock know of each other: the loop's   *)
(* snapshot is the poller's view as long as the tick is in the timeline.    *)
InTimeline == phase \in {"ingest", "dish", "path", "rules"}
Past(t) == t = NoTime \/ (t \in Nat /\ t <= now)

PollInv ==
  /\ now \in Nat /\ reachable \in BOOLEAN /\ ticked \in BOOLEAN
  /\ phase = "idle" \/ InTimeline
  /\ Past(failingSince) /\ Past(pathPending)
  /\ reachable => failingSince = NoTime
  /\ InTimeline => ticked /\ snap.reachable = reachable /\ snap.failing = failingSince
  /\ E!Ticking => phase = "idle" /\ ticked

(* The outages the daemon itself watches: one of each source at most is     *)
(* open.                                                                    *)
Own(e) == e.source # T!Dish
AfterType(a) ==
  /\ a = [save |-> a.save, event |-> a.event, entry |-> a.entry]
  /\ a.save \in BOOLEAN
EntryInv ==
  /\ \A e \in entries : Own(e) => e \in T!Entry /\ e.ongoing /\ e.start <= now
  /\ \A e, f \in entries : Own(e) /\ Own(f) /\ e.source = f.source => e = f
  /\ AfterType(after)

(* The dish's outage began no later than the present failure, and a failure *)
(* that the tick has seen has one.                                          *)
Observed == phase \in {"path", "rules"} \/ (phase = "idle" /\ ticked)
FollowInv ==
  /\ failingSince # NoTime => \A e \in Unanswered : e.start <= failingSince
  /\ Observed /\ failingSince # NoTime /\ failingSince < now => Unanswered # {}

(* The windows of a reboot: the engine's is set once, at the clock value of *)
(* the command.                                                             *)
RebootInv ==
  /\ restarts \in Nat /\ (rebootedAt = NoTime \/ rebootedAt \in Nat)
  /\ suppressUntil = NoTime \/ suppressUntil \in Nat
  /\ accepted => rebootedAt = now /\ rebooting = NoTime /\ suppressUntil = NoTime
  /\ rebooting # NoTime => rebooting = now + RebootWindow
  /\ rebootedAt = NoTime =>
       /\ ~accepted /\ rebooting = NoTime /\ expectedUntil = NoTime /\ suppressUntil = NoTime
       /\ \A e \in entries : Own(e) => e.cause # "expected_reboot"
  /\ rebootedAt # NoTime /\ restarts = 0 => accepted \/ suppressUntil = rebootedAt + RebootWindow

(* A rule that read the window before it was set is in a tick that began    *)
(* before, at the clock value of the command.                               *)
WindowInv ==
  /\ suppressUntil = NoTime /\ restarts = 0 => ~warned
  /\ E!Ticking /\ restarts = 0 /\ tick.until = NoTime /\ suppressUntil # NoTime
       => ~warned /\ now = rebootedAt

(* The types of the engine, whose tick works on the rules in force and on   *)
(* the outages that are open.                                               *)
IsLatch(s) ==
  /\ s = [active |-> s.active, subjectStart |-> s.subjectStart, clearSince |-> s.clearSince]
  /\ s.active \in BOOLEAN
Latches(f) == f = [n \in Alerts |-> f[n]] /\ \A n \in Alerts : IsLatch(f[n])
TickType ==
  [next : Nat, rules : {rules}, outages : {ActiveOutages},
   signal : {[n \in Alerts |-> "unknown"]}, mwan : {E!NoMwan},
   until : {E!Unread, NoTime, suppressUntil}]
EngineInv ==
  /\ rules \in RuleTables
  /\ Latches(states) /\ Latches(saved.states)
  /\ E!Ticking => tick \in TickType

(* Once a rule was evaluated its latch follows the outages: raised by one   *)
(* that has lasted the hold, and, for the dish, by that one alone.          *)
Over == phase = "idle" /\ ticked /\ ~E!Ticking
Settled(n) ==
  \/ Over
  \/ E!Ticking /\ \E i \in 1 .. Len(Catalog) : i < tick.next /\ Catalog[i] = n
Raises(n, e) ==
  /\ Own(e) /\ e.cause # "expected_reboot"
  /\ n = "dish_unreachable" => e.source = T!Unreachable /\ ~(now < suppressUntil)
  /\ now - e.start >= rules[n].hold
RaisedInv ==
  \A n \in Alerts : Settled(n) /\ rules[n].enabled /\ (\E e \in entries : Raises(n, e)) => states[n].active

Tracks == "dish_unreachable" \in Alerts /\ rules["dish_unreachable"].enabled /\ rules["dish_unreachable"].hold > 0
Subject(e) == e.start = states["dish_unreachable"].subjectStart
TracksInv ==
  Tracks /\ DishAlarm =>
    /\ Settled("dish_unreachable") =>
         \E e \in Unanswered : Subject(e) /\ now - e.start >= rules["dish_unreachable"].hold
    /\ \A e \in Unanswered : Subject(e) \/ e.start = now
    /\ ~Observed /\ Unanswered = {} => failingSince \in {NoTime, now}

(* An outage that has lasted beyond the hold was alarmed by an earlier tick,*)
(* or will be by the one that has just opened it.                           *)
Watched == "outage_started" \in Alerts /\ rules["outage_started"].enabled
Alarmed(e, before) == \E t \in alarms : e.start <= t /\ t < before
NotYetSeen(e) ==
  \/ phase = "idle" /\ ~ticked
  \/ phase \in {"ingest", "dish"}
  \/ phase = "path" /\ e.source = T!Path
AlarmedInv ==
  Watched => \A e \in entries :
    Own(e) /\ e.cause # "expected_reboot" =>
      /\ Over /\ now - e.start >= rules["outage_started"].hold => Alarmed(e, now + 1)
      /\ NotYetSeen(e) /\ now - e.start > rules["outage_started"].hold => Alarmed(e, now)
FiredInv ==
  /\ alarms \subseteq Nat
  /\ after.save /\ Own(after.entry) => Fired(after.entry)
  /\ OwnOutagesFire

EvaluationInv ==
  /\ PollInv /\ EntryInv /\ FollowInv /\ RebootInv /\ WindowInv /\ EngineInv
  /\ RaisedInv /\ TracksInv /\ AlarmedInv /\ FiredInv

-----------------------------------------------------------------------------
LEMMA InTableFacts ==
  ASSUME EngineInv, NEW n \in Alerts
  PROVE  /\ rules[n].enabled \in BOOLEAN /\ rules[n].hold \in Nat /\ rules[n].clearHold = 0
         /\ n \in {"outage_started", "dish_unreachable"}
<1>1. rules \in E!RuleTable /\ rules[n].clearHold = 0 /\ n \in {"outage_started", "dish_unreachable"}
  BY EvaluationAssumption DEF EvaluationAssumption, EngineInv, E!OutageAlerts
<1>2. rules[n] \in E!Rule
  BY <1>1 DEF E!RuleTable
<1> QED BY <1>1, <1>2 DEF E!Rule

(* What the invariant speaks of. *)
Kept == UNCHANGED <<now, reachable, failingSince, entries, pathPending, expectedUntil, phase, ticked,
                    snap, after, store, rules, suppressUntil, states, tick, saved, restarts,
                    accepted, rebooting, rebootedAt, warned, alarms>>

LEMMA WindowRests ==
  ASSUME EvaluationInv, UNCHANGED <<now, tick, restarts, suppressUntil, warned, rebootedAt>>
  PROVE  WindowInv'
BY DEF EvaluationInv, WindowInv, E!Ticking, E!NoTick

LEMMA NothingMoves ==
  ASSUME EvaluationInv, Kept
  PROVE  EvaluationInv'
<1>1. UNCHANGED <<E!Ticking, Unanswered, ActiveOutages, Over, Observed>>
  BY DEF Kept, E!Ticking, E!NoTick, Unanswered, T!Active, ActiveOutages, T!Ids, T!Id, Over, Observed
<1>2. PollInv' /\ EntryInv' /\ FollowInv' /\ RebootInv'
  BY <1>1 DEF Kept, EvaluationInv, PollInv, InTimeline, Past, EntryInv, FollowInv, RebootInv
<1>3. EngineInv'
  BY <1>1 DEF Kept, EvaluationInv, EngineInv, Latches, IsLatch, TickType
<1>4. \A n : UNCHANGED Settled(n)
  BY <1>1 DEF Kept, Settled
<1>5. RaisedInv' /\ TracksInv'
  BY <1>1, <1>4 DEF Kept, EvaluationInv, RaisedInv, Raises, TracksInv, Tracks, Subject, DishAlarm
<1>6. AlarmedInv' /\ FiredInv'
  BY <1>1 DEF Kept, EvaluationInv, AlarmedInv, Watched, Alarmed, NotYetSeen, FiredInv, OwnOutagesFire, Fired
<1> QED BY <1>2, <1>3, <1>5, <1>6, WindowRests DEF EvaluationInv, Kept

LEMMA EvaluationStarts ==
  ASSUME EvaluationInit
  PROVE  EvaluationInv
<1>1. /\ now = 0 /\ reachable = FALSE /\ failingSince = -1 /\ entries = {} /\ pathPending = -1
      /\ expectedUntil = -1 /\ phase = "idle" /\ ticked = FALSE /\ after = T!Nothing /\ store = {}
  BY DEF EvaluationInit, T!Init, T!NoTime
<1>2. /\ rules \in RuleTables /\ suppressUntil = -1 /\ states = [n \in Alerts |-> E!Idle] /\ restarts = 0
      /\ tick = E!NoTick /\ saved.states = [n \in Alerts |-> E!Idle]
      /\ ~accepted /\ rebooting = NoTime /\ rebootedAt = NoTime /\ ~warned /\ alarms = {}
  BY DEF EvaluationInit, E!Init, E!NothingSaved, E!NoTime
<1>3. ~E!Ticking /\ ~Over /\ ~Observed /\ Unanswered = {} /\ NoTime = -1
  BY <1>1, <1>2 DEF E!Ticking, Over, Observed, Unanswered, T!Active, NoTime, T!NoTime
<1>4. PollInv /\ EntryInv /\ FollowInv /\ RebootInv /\ WindowInv
  BY <1>1, <1>2, <1>3 DEF PollInv, InTimeline, Past, EntryInv, AfterType, T!Nothing, FollowInv, RebootInv, WindowInv
<1>5. IsLatch(E!Idle) /\ ~E!Idle.active
  BY DEF IsLatch, E!Idle
<1>6. EngineInv
  BY <1>2, <1>3, <1>5 DEF EngineInv, Latches
<1>7. RaisedInv /\ TracksInv
  BY <1>1, <1>2, <1>3, <1>5 DEF RaisedInv, TracksInv, DishAlarm, Settled
<1>8. AlarmedInv /\ FiredInv
  BY <1>1, <1>2 DEF AlarmedInv, FiredInv, OwnOutagesFire, T!Nothing
<1> QED BY <1>4, <1>6, <1>7, <1>8 DEF EvaluationInv

(* The clock moves once the tick is over: what a raised latch is about has  *)
(* begun before, and what was open for the hold has been alarmed.           *)
LEMMA ClockTickKeeps ==
  ASSUME EvaluationInv, ClockTick
  PROVE  EvaluationInv'
<1>1. /\ now' = now + 1 /\ ticked /\ ticked' = FALSE /\ phase = "idle" /\ ~accepted /\ rebooting = NoTime /\ ~E!Ticking
      /\ UNCHANGED <<reachable, failingSince, entries, pathPending, expectedUntil, phase,
                     snap, after, store, rules, suppressUntil, states, tick, saved, restarts,
                     accepted, rebooting, rebootedAt, warned, alarms>>
  BY DEF ClockTick, T!ClockTick, E!ClockTick, T!pollerVars, T!timelineVars, E!engineVars, rebootVars
<1>2. /\ Over /\ ~Over' /\ ~Observed' /\ ~E!Ticking' /\ Unanswered' = Unanswered
  BY <1>1 DEF Over, Observed, E!Ticking, E!NoTick, Unanswered, T!Active
<1>3. now \in Nat /\ now' \in Nat /\ \A t : Past(t) => Past(t)'
  BY <1>1 DEF EvaluationInv, PollInv, Past
<1>4. PollInv'
  BY <1>1, <1>2, <1>3 DEF EvaluationInv, PollInv, InTimeline
<1>5. \A e \in entries : Own(e) => e.start \in Nat /\ e.start <= now
  BY DEF EvaluationInv, EntryInv, T!Entry, T!Time
<1>6. EntryInv'
  BY <1>1, <1>3, <1>5 DEF EvaluationInv, EntryInv, AfterType
<1>7. FollowInv' /\ RebootInv' /\ WindowInv'
  BY <1>1, <1>2 DEF EvaluationInv, FollowInv, RebootInv, WindowInv
<1>8. EngineInv'
  BY <1>1, <1>2 DEF EvaluationInv, EngineInv, Latches, IsLatch
<1>9. \A n : Settled(n) /\ ~Settled(n)'
  BY <1>2 DEF Settled
<1>10. RaisedInv'
  BY <1>9 DEF RaisedInv
<1>11. TracksInv'
  <2>1. SUFFICES ASSUME Tracks', DishAlarm'
                 PROVE  (\A e \in Unanswered : Subject(e)) /\ Unanswered # {}
    BY <1>1, <1>2, <1>9 DEF TracksInv, Subject
  <2>2. PICK e \in Unanswered : Subject(e)
    BY <1>1, <1>9, <2>1 DEF EvaluationInv, TracksInv, Tracks, DishAlarm
  <2>3. \A f \in Unanswered : f = e
    BY DEF EvaluationInv, EntryInv, Unanswered, T!Active, Own, T!Dish, T!Unreachable
  <2> QED BY <2>2, <2>3
<1>12. AlarmedInv'
  <2> SUFFICES ASSUME Watched, NEW e \in entries, Own(e), e.cause # "expected_reboot",
                      now' - e.start > rules["outage_started"].hold
               PROVE  Alarmed(e, now + 1)
    BY <1>1, <1>2 DEF AlarmedInv, Watched, Alarmed, Own
  <2>1. rules["outage_started"].hold \in Nat /\ e.start \in Nat
    BY <1>1, <1>5, InTableFacts DEF EvaluationInv, Watched
  <2>2. now - e.start >= rules["outage_started"].hold
    BY <1>1, <1>3, <2>1
  <2> QED BY <1>1, <1>2, <2>2 DEF EvaluationInv, AlarmedInv, Watched
<1>13. FiredInv'
  BY <1>1 DEF EvaluationInv, FiredInv, OwnOutagesFire, Fired
<1> QED BY <1>4, <1>6, <1>7, <1>8, <1>10, <1>11, <1>12, <1>13 DEF EvaluationInv

(* The poller: a failure never begins before the outage open for it.        *)
LEMMA PollKeeps ==
  ASSUME EvaluationInv, Poll
  PROVE  EvaluationInv'
<1>1. /\ phase = "idle" /\ ~E!Ticking /\ T!Environment
      /\ UNCHANGED <<rules, suppressUntil, states, tick, saved, restarts, accepted, rebooting, rebootedAt, warned, alarms>>
  BY DEF Poll, T!Environment, engineVars, rebootVars
<1>2. CASE \/ \E c \in Causes : T!DishOutage(c)
           \/ \E r \in dishLog : T!DishOutageGrows(r)
           \/ T!DishForgets
           \/ T!SetHistoryOutages
  <2>1. Kept
    BY <1>1, <1>2 DEF Kept, T!DishOutage, T!DishOutageGrows, T!DishForgets, T!SetHistoryOutages,
                      T!timelineVars, T!loopVars
  <2> QED BY <2>1, NothingMoves
<1>3. CASE T!MarkDishFailure \/ T!MarkDishReachable
  <2>1. /\ UNCHANGED <<now, entries, pathPending, expectedUntil, phase, ticked, snap, after, store>>
        /\ \/ reachable' = FALSE /\ failingSince' = IF failingSince = NoTime THEN now ELSE failingSince
           \/ reachable' = TRUE /\ failingSince' = NoTime
    BY <1>3 DEF T!MarkDishFailure, T!MarkDishReachable, T!timelineVars, T!loopVars, NoTime
  <2>2. ~E!Ticking' /\ UNCHANGED <<Unanswered, ActiveOutages, Over, Observed>>
    BY <1>1, <2>1 DEF E!Ticking, E!NoTick, Unanswered, T!Active, ActiveOutages, T!Ids, T!Id, Over, Observed
  <2>3. PollInv'
    <3>1. /\ now \in Nat /\ Past(failingSince) /\ Past(pathPending) /\ ticked \in BOOLEAN
          /\ reachable \in BOOLEAN /\ phase' = "idle"
      BY <1>1, <2>1 DEF EvaluationInv, PollInv
    <3>2. Past(failingSince)' /\ Past(pathPending)'
      BY <2>1, <3>1 DEF Past
    <3>3. reachable' \in BOOLEAN /\ (reachable' => failingSince' = NoTime)
      BY <2>1
    <3> QED BY <2>1, <2>2, <3>1, <3>2, <3>3 DEF PollInv, InTimeline
  <2>4. EntryInv' /\ RebootInv'
    BY <1>1, <2>1 DEF EvaluationInv, EntryInv, RebootInv, AfterType
  <2>5. FollowInv'
    <3>1. \A e \in Unanswered : e.start <= now
      BY DEF EvaluationInv, EntryInv, Unanswered, T!Active, Own, T!Dish, T!Unreachable
    <3>2. failingSince' # NoTime /\ failingSince' < now' => failingSince' = failingSince
      BY <2>1 DEF EvaluationInv, PollInv
    <3> QED BY <2>1, <2>2, <3>1, <3>2 DEF EvaluationInv, FollowInv
  <2>6. EngineInv'
    BY <1>1, <2>2 DEF EvaluationInv, EngineInv, Latches, IsLatch
  <2>7. \A n : UNCHANGED Settled(n)
    BY <1>1, <2>1, <2>2 DEF Settled
  <2>8. RaisedInv'
    BY <1>1, <2>1, <2>7 DEF EvaluationInv, RaisedInv, Raises, Own
  <2>9. TracksInv'
    BY <1>1, <2>1, <2>2, <2>7 DEF EvaluationInv, TracksInv, Tracks, Subject, DishAlarm
  <2>10. AlarmedInv' /\ FiredInv'
    BY <1>1, <2>1, <2>2 DEF EvaluationInv, AlarmedInv, Watched, Alarmed, NotYetSeen, FiredInv, OwnOutagesFire, Fired
  <2>11. WindowInv'
    BY <1>1, <2>1, WindowRests
  <2> QED BY <2>3, <2>4, <2>5, <2>6, <2>8, <2>9, <2>10, <2>11 DEF EvaluationInv
<1> QED BY <1>1, <1>2, <1>3 DEF T!Environment

(* The steps of a reboot: the engine's window only silences.                *)
LEMMA RebootAcceptedKeeps ==
  ASSUME EvaluationInv, RebootAccepted
  PROVE  EvaluationInv'
<1>1. /\ rebootedAt = NoTime /\ accepted' = TRUE /\ rebootedAt' = now
      /\ UNCHANGED <<now, reachable, failingSince, entries, pathPending, expectedUntil, phase, ticked,
                     snap, after, store, rules, suppressUntil, states, tick, saved, restarts,
                     rebooting, warned, alarms>>
  BY DEF RebootAccepted, timelineVars, engineVars
<1>2. UNCHANGED <<E!Ticking, Unanswered, ActiveOutages, Over, Observed>>
  BY <1>1 DEF E!Ticking, E!NoTick, Unanswered, T!Active, ActiveOutages, T!Ids, T!Id, Over, Observed
<1>3. now \in Nat /\ NoTime = -1 /\ suppressUntil = NoTime
  BY <1>1 DEF EvaluationInv, PollInv, RebootInv, NoTime, T!NoTime
<1>4. PollInv' /\ EntryInv' /\ FollowInv'
  BY <1>1, <1>2 DEF EvaluationInv, PollInv, InTimeline, Past, EntryInv, AfterType, FollowInv
<1>5. RebootInv' /\ WindowInv'
  BY <1>1, <1>2, <1>3 DEF EvaluationInv, RebootInv, WindowInv
<1>6. EngineInv'
  BY <1>1, <1>2 DEF EvaluationInv, EngineInv, Latches, IsLatch, TickType
<1>7. \A n : UNCHANGED Settled(n)
  BY <1>1, <1>2 DEF Settled
<1>8. RaisedInv' /\ TracksInv' /\ AlarmedInv' /\ FiredInv'
  BY <1>1, <1>2, <1>7 DEF EvaluationInv, RaisedInv, Raises, TracksInv, Tracks, Subject, DishAlarm, AlarmedInv,
                          Watched, Alarmed, NotYetSeen, FiredInv, OwnOutagesFire, Fired
<1> QED BY <1>4, <1>5, <1>6, <1>8 DEF EvaluationInv

LEMMA RebootSuppressesKeeps ==
  ASSUME EvaluationInv, RebootSuppresses
  PROVE  EvaluationInv'
<1>1. /\ accepted /\ accepted' = FALSE /\ rebooting' = now + RebootWindow
      /\ suppressUntil' = now + RebootWindow
      /\ UNCHANGED <<now, reachable, failingSince, entries, pathPending, expectedUntil, phase, ticked,
                     snap, after, store, rules, states, tick, saved, restarts, rebootedAt, warned, alarms>>
  BY DEF RebootSuppresses, timelineVars, E!SetDishUnreachableSuppressUntil
<1>2. UNCHANGED <<E!Ticking, Unanswered, ActiveOutages, Over, Observed>>
  BY <1>1 DEF E!Ticking, E!NoTick, Unanswered, T!Active, ActiveOutages, T!Ids, T!Id, Over, Observed
<1>3. /\ now \in Nat /\ RebootWindow \in Nat /\ NoTime = -1 /\ suppressUntil = -1 /\ rebootedAt = now
  BY <1>1, EvaluationAssumption DEF EvaluationInv, PollInv, RebootInv, NoTime, T!NoTime, EvaluationAssumption
<1>4. PollInv' /\ EntryInv' /\ FollowInv'
  BY <1>1, <1>2 DEF EvaluationInv, PollInv, InTimeline, Past, EntryInv, AfterType, FollowInv
<1>5. RebootInv' /\ WindowInv'
  BY <1>1, <1>2, <1>3 DEF EvaluationInv, RebootInv, WindowInv
<1>6. EngineInv'
  <2>1. E!Ticking => tick \in TickType'
    BY <1>1, <1>2, <1>3 DEF EvaluationInv, EngineInv, TickType
  <2> QED BY <1>1, <1>2, <2>1 DEF EvaluationInv, EngineInv, Latches, IsLatch
<1>7. \A n : UNCHANGED Settled(n)
  BY <1>1, <1>2 DEF Settled
<1>8. RaisedInv'
  <2>1. \A n \in Alerts, e \in entries : Raises(n, e)' => Raises(n, e)
    BY <1>1, <1>3 DEF Raises, Own
  <2> QED BY <1>1, <1>7, <2>1 DEF EvaluationInv, RaisedInv
<1>9. TracksInv' /\ AlarmedInv' /\ FiredInv'
  BY <1>1, <1>2, <1>7 DEF EvaluationInv, TracksInv, Tracks, Subject, DishAlarm, AlarmedInv, Watched, Alarmed,
                          NotYetSeen, FiredInv, OwnOutagesFire, Fired
<1> QED BY <1>4, <1>5, <1>6, <1>8, <1>9 DEF EvaluationInv

LEMMA RebootExpectsKeeps ==
  ASSUME EvaluationInv, RebootExpects
  PROVE  EvaluationInv'
<1>1. /\ rebooting # NoTime /\ rebooting' = NoTime
      /\ UNCHANGED <<now, reachable, failingSince, entries, pathPending, phase, ticked, snap, after, store,
                     rules, suppressUntil, states, tick, saved, restarts, accepted, rebootedAt, warned, alarms>>
  BY DEF RebootExpects, T!ExpectDishUnreachableUntil, engineVars, rebootVars
<1>2. UNCHANGED <<E!Ticking, Unanswered, ActiveOutages, Over, Observed>>
  BY <1>1 DEF E!Ticking, E!NoTick, Unanswered, T!Active, ActiveOutages, T!Ids, T!Id, Over, Observed
<1>3. PollInv' /\ EntryInv' /\ FollowInv' /\ RebootInv'
  BY <1>1, <1>2 DEF EvaluationInv, PollInv, InTimeline, Past, EntryInv, AfterType, FollowInv, RebootInv
<1>4. EngineInv'
  BY <1>1, <1>2 DEF EvaluationInv, EngineInv, Latches, IsLatch, TickType
<1>5. \A n : UNCHANGED Settled(n)
  BY <1>1, <1>2 DEF Settled
<1>6. RaisedInv' /\ TracksInv' /\ AlarmedInv' /\ FiredInv'
  BY <1>1, <1>2, <1>5 DEF EvaluationInv, RaisedInv, Raises, TracksInv, Tracks, Subject, DishAlarm, AlarmedInv,
                          Watched, Alarmed, NotYetSeen, FiredInv, OwnOutagesFire, Fired
<1> QED BY <1>1, <1>3, <1>4, <1>6, WindowRests DEF EvaluationInv

(* A tick takes its snapshot. *)
LEMMA BeginTickKeeps ==
  ASSUME EvaluationInv, BeginTick
  PROVE  EvaluationInv'
<1>1. /\ ~E!Ticking /\ phase = "idle" /\ ~ticked /\ ticked' = TRUE /\ phase' = "ingest"
      /\ snap'.reachable = reachable /\ snap'.failing = failingSince
      /\ UNCHANGED <<now, reachable, failingSince, entries, pathPending, expectedUntil, after, store,
                     rules, suppressUntil, states, tick, saved, restarts, accepted, rebooting, rebootedAt, warned, alarms>>
  BY DEF BeginTick, T!BeginTick, T!pollerVars, engineVars, rebootVars
<1>2. /\ ~E!Ticking' /\ ~Over /\ ~Over' /\ ~Observed /\ ~Observed'
      /\ UNCHANGED <<Unanswered, ActiveOutages>>
  BY <1>1 DEF E!Ticking, E!NoTick, Unanswered, T!Active, ActiveOutages, T!Ids, T!Id, Over, Observed
<1>3. PollInv' /\ EntryInv' /\ FollowInv' /\ RebootInv'
  BY <1>1, <1>2 DEF EvaluationInv, PollInv, InTimeline, Past, EntryInv, AfterType, FollowInv, RebootInv
<1>4. EngineInv'
  BY <1>1, <1>2 DEF EvaluationInv, EngineInv, Latches, IsLatch
<1>5. \A n : ~Settled(n)'
  BY <1>2 DEF Settled
<1>6. RaisedInv' /\ TracksInv'
  BY <1>1, <1>2, <1>5 DEF EvaluationInv, RaisedInv, TracksInv, Tracks, Subject, DishAlarm
<1>7. AlarmedInv' /\ FiredInv'
  BY <1>1, <1>2 DEF EvaluationInv, AlarmedInv, Watched, Alarmed, NotYetSeen, FiredInv, OwnOutagesFire, Fired, Own
<1> QED BY <1>1, <1>3, <1>4, <1>6, <1>7, WindowRests DEF EvaluationInv

-----------------------------------------------------------------------------
(* While the timeline observes, the engine stands still. *)
EngineStill == UNCHANGED <<now, rules, suppressUntil, states, tick, saved, restarts, accepted, rebooting, rebootedAt, warned, alarms>>
PollerStill == UNCHANGED <<reachable, failingSince, snap, expectedUntil, ticked>>

LEMMA EngineRests ==
  ASSUME EvaluationInv, EngineStill, phase # "idle", phase' # "idle"
  PROVE  /\ ~E!Ticking /\ ~E!Ticking' /\ EngineInv' /\ RaisedInv' /\ (\A n : ~Settled(n)')
         /\ ~Over /\ ~Over' /\ ticked /\ now \in Nat /\ WindowInv'
<1>1. ~E!Ticking /\ ~E!Ticking' /\ ~Over /\ ~Over' /\ ticked /\ now \in Nat
  BY DEF EvaluationInv, PollInv, EngineStill, E!Ticking, E!NoTick, Over
<1>2. EngineInv'
  BY <1>1 DEF EvaluationInv, EngineInv, EngineStill, Latches, IsLatch
<1>3. \A n : ~Settled(n)'
  BY <1>1 DEF Settled
<1> QED BY <1>1, <1>2, <1>3, WindowRests DEF RaisedInv, EngineStill

(* Nothing of the daemon's own outages changes. *)
LEMMA OthersObserved ==
  ASSUME EvaluationInv, EngineStill, PollerStill, UNCHANGED <<pathPending, store>>,
         InTimeline, InTimeline', Observed' = Observed,
         \A e : Own(e) => (e \in entries' <=> e \in entries),
         \A e : Own(e) /\ NotYetSeen(e)' => NotYetSeen(e),
         AfterType(after'), after'.save => ~Own(after'.entry)
  PROVE  EvaluationInv'
<1>1. phase # "idle" /\ phase' # "idle"
  BY DEF InTimeline
<1>2. Unanswered' = Unanswered
  <2>1. \A e : e.source = T!Unreachable => (e \in entries' <=> e \in entries)
    BY DEF Own, T!Dish, T!Unreachable
  <2> QED BY <2>1 DEF Unanswered, T!Active
<1>3. PollInv'
  BY EngineRests, <1>1 DEF EvaluationInv, PollInv, Past, EngineStill, PollerStill
<1>4. EntryInv'
  BY DEF EvaluationInv, EntryInv, EngineStill, Own, AfterType
<1>5. FollowInv'
  BY <1>2 DEF EvaluationInv, FollowInv, EngineStill, PollerStill
<1>6. RebootInv'
  BY DEF EvaluationInv, RebootInv, EngineStill, PollerStill, Own
<1>7. TracksInv'
  BY EngineRests, <1>1, <1>2 DEF EvaluationInv, TracksInv, Tracks, Subject, DishAlarm, EngineStill, PollerStill
<1>8. AlarmedInv'
  BY EngineRests, <1>1 DEF EvaluationInv, AlarmedInv, Watched, Alarmed, EngineStill, Own
<1>9. FiredInv'
  BY DEF EvaluationInv, FiredInv, OwnOutagesFire, Fired, EngineStill, Own
<1> QED BY EngineRests, <1>1, <1>3, <1>4, <1>5, <1>6, <1>7, <1>8, <1>9 DEF EvaluationInv

LEMMA IngestReportKeeps ==
  ASSUME EvaluationInv, UNCHANGED <<engineVars, processVars, rebootVars, warned, alarms>>,
         NEW r \in todo, T!IngestReport(r)
  PROVE  EvaluationInv'
<1> DEFINE e == T!FromReport(r)
<1>1. /\ phase = "ingest" /\ after = T!Nothing
      /\ UNCHANGED <<now, reachable, failingSince, pathPending, expectedUntil, phase, ticked, snap, store>>
      /\ \/ UNCHANGED <<entries, after>>
         \/ T!IngestKeeps(e)
         \/ T!IngestCloses(e)
  BY DEF T!IngestReport, T!pollerVars, T!Free
<1>2. e.source = "dish"
  BY DEF T!FromReport, T!Dish
<1> HIDE DEF e
<1>3. \/ UNCHANGED <<entries, after>>
      \/ entries' = entries \cup {e} /\ after' = T!Starts(e)
      \/ /\ entries' = entries \ T!SameAs(e, entries)
         /\ after' \in {T!Ends(e), T!SavesOnly(e)}
  BY <1>1 DEF T!IngestKeeps, T!IngestCloses
<1>4. \A f \in T!SameAs(e, entries) : f.source = "dish"
  BY <1>2 DEF T!SameAs, T!Id
<1>5. \A f : Own(f) => (f \in entries' <=> f \in entries)
  BY <1>2, <1>3, <1>4 DEF Own, T!Dish
<1>6. AfterType(after') /\ (after'.save => ~Own(after'.entry))
  <2>1. AfterType(after) /\ ~after.save
    BY <1>1 DEF T!Nothing, AfterType
  <2>2. /\ AfterType(T!Starts(e)) /\ ~T!Starts(e).save
        /\ AfterType(T!Ends(e)) /\ T!Ends(e).entry = e
        /\ AfterType(T!SavesOnly(e)) /\ T!SavesOnly(e).entry = e
    BY DEF AfterType, T!Starts, T!Ends, T!SavesOnly
  <2> QED BY <1>2, <1>3, <2>1, <2>2 DEF Own, T!Dish
<1>7. InTimeline /\ InTimeline' /\ Observed' = Observed /\ \A f : NotYetSeen(f)' => NotYetSeen(f)
  BY <1>1 DEF InTimeline, Observed, NotYetSeen
<1>8. EngineStill /\ PollerStill
  BY <1>1 DEF EngineStill, PollerStill, engineVars, rebootVars
<1> QED BY <1>1, <1>5, <1>6, <1>7, <1>8, OthersObserved

LEMMA IngestDoneKeeps ==
  ASSUME EvaluationInv, UNCHANGED <<engineVars, processVars, rebootVars, warned, alarms>>, T!IngestDone
  PROVE  EvaluationInv'
<1>1. /\ phase = "ingest" /\ phase' = "dish" /\ after = T!Nothing
      /\ UNCHANGED <<now, reachable, failingSince, pathPending, expectedUntil, ticked, snap, store, entries, after>>
  BY DEF T!IngestDone, T!pollerVars, T!timelineVars, T!Free
<1>2. AfterType(after') /\ ~after'.save
  BY <1>1 DEF T!Nothing, AfterType
<1>3. InTimeline /\ InTimeline' /\ Observed' = Observed /\ \A f : NotYetSeen(f)' => NotYetSeen(f)
  BY <1>1 DEF InTimeline, Observed, NotYetSeen
<1>4. EngineStill /\ PollerStill
  BY <1>1 DEF EngineStill, PollerStill, engineVars, rebootVars
<1> QED BY <1>1, <1>2, <1>3, <1>4, OthersObserved

(* An outage the daemon closes has been alarmed if it lasted. *)
LEMMA CloseFires ==
  ASSUME EvaluationInv, NEW e \in entries, Own(e), NotYetSeen(e)
  PROVE  Fired(T!Closed(e, now)) /\ Own(T!Closed(e, now)) /\ e.start \in Nat /\ e.start <= now
<1> DEFINE c == T!Closed(e, now)
<1>1. e \in T!Entry /\ e.start \in Nat /\ e.start <= now /\ now \in Nat
  BY DEF EvaluationInv, EntryInv, PollInv, T!Entry, T!Time
<1>2. c.source = e.source /\ c.cause = e.cause /\ c.start = e.start /\ c.dur = now - e.start
  BY <1>1 DEF T!Closed, T!Elapsed, T!Entry
<1> HIDE DEF c
<1>3. ASSUME "outage_started" \in Alerts, c.cause # "expected_reboot",
             \A table \in RuleTables : table["outage_started"].enabled /\ c.dur > table["outage_started"].hold
      PROVE  \E t \in alarms : c.start <= t /\ t < c.start + c.dur
  <2>1. Watched /\ now - e.start > rules["outage_started"].hold
    BY <1>2, <1>3 DEF EvaluationInv, EngineInv, Watched
  <2>2. \E t \in alarms : e.start <= t /\ t < now
    BY <1>2, <1>3, <2>1 DEF EvaluationInv, AlarmedInv, Alarmed
  <2>3. c.start + c.dur = now
    BY <1>1, <1>2
  <2> QED BY <1>2, <2>2, <2>3
<1> QED BY <1>1, <1>2, <1>3 DEF Fired, Own, c

(* What opening and closing one of the daemon's own outages leave of the    *)
(* entries.                                                                 *)
LEMMA Opens ==
  ASSUME EvaluationInv, UNCHANGED now, NEW s \in T!Sources \ {T!Dish}, NEW cause \in T!AllCauses,
         NEW start \in Nat, start <= now, T!Active(s) = {}, T!Open(s, cause, start)
  PROVE  /\ EntryInv' /\ ~after'.save
         /\ \E e \in T!Entry :
              /\ e.source = s /\ e.cause = cause /\ e.start = start /\ e.ongoing /\ Own(e)
              /\ entries' = entries \cup {e}
<1> DEFINE e == [source |-> s, cause |-> cause, start |-> start, dur |-> 0, ongoing |-> TRUE]
<1>1. /\ e \in T!Entry /\ e.source = s /\ e.cause = cause /\ e.start = start /\ e.ongoing /\ Own(e)
  BY DEF T!Entry, T!Time, Own
<1>2. entries' = entries \cup {e} /\ after' = T!Starts(e)
  BY DEF T!Open
<1> HIDE DEF e
<1>3. AfterType(after') /\ ~after'.save
  BY <1>2 DEF T!Starts, AfterType
<1>4. \A f \in entries : Own(f) => f.source # s
  BY DEF EvaluationInv, EntryInv, T!Active
<1>5. EntryInv'
  BY <1>1, <1>2, <1>3, <1>4 DEF EvaluationInv, EntryInv, Own, AfterType
<1> QED BY <1>1, <1>2, <1>3, <1>5

LEMMA Closes ==
  ASSUME EvaluationInv, UNCHANGED now, NEW s \in T!Sources \ {T!Dish}, T!Close(s),
         \A e : e.source = s => NotYetSeen(e)
  PROVE  /\ EntryInv' /\ entries' \subseteq entries
         /\ \A e \in entries : e.source # s => e \in entries'
         /\ Fired(after'.entry)
<1>1. PICK e \in T!Active(s) : entries' = entries \ {e} /\ after' = T!Ends(T!Closed(e, now))
  BY DEF T!Close
<1>2. e \in entries /\ e.source = s /\ Own(e) /\ NotYetSeen(e)
  BY DEF T!Active, Own
<1>3. AfterType(after') /\ after'.entry = T!Closed(e, now)
  BY <1>1 DEF T!Ends, AfterType
<1>4. EntryInv'
  BY <1>1, <1>3 DEF EvaluationInv, EntryInv, Own, AfterType
<1> QED BY <1>1, <1>2, <1>3, <1>4, CloseFires

(* The dish's outage opens with the failure the poller counts, so a latch    *)
(* that a restart restored is about it or it has begun just now.            *)
LEMMA ObserveDishKeeps ==
  ASSUME EvaluationInv, UNCHANGED <<engineVars, processVars, rebootVars, warned, alarms>>, T!ObserveDish
  PROVE  EvaluationInv'
<1>1. /\ phase = "dish" /\ phase' = "path" /\ after = T!Nothing
      /\ UNCHANGED <<now, reachable, failingSince, pathPending, expectedUntil, ticked, snap, store>>
  BY DEF T!ObserveDish, T!pollerVars, T!Free
<1>2. /\ EngineStill /\ PollerStill /\ InTimeline /\ InTimeline' /\ ~Observed /\ Observed'
      /\ phase # "idle" /\ phase' # "idle"
      /\ \A f : NotYetSeen(f) /\ (NotYetSeen(f)' => f.source = "path")
  BY <1>1 DEF EngineStill, PollerStill, engineVars, rebootVars, InTimeline, Observed, NotYetSeen, T!Path
<1>3. /\ now \in Nat /\ ticked /\ snap.failing = failingSince /\ snap.reachable = reachable
      /\ (reachable => failingSince = NoTime) /\ Past(failingSince) /\ reachable \in BOOLEAN
  BY <1>2 DEF EvaluationInv, PollInv
<1>4. T!Unreachable \in T!Sources \ {T!Dish} /\ T!Unreachable = "dish_unreachable" /\ Own([source |-> T!Unreachable])
  BY DEF T!Unreachable, T!Sources, T!Dish, Own
<1>5. PollInv'
  BY <1>1, <1>2, <1>3, EngineRests DEF EvaluationInv, PollInv, Past, EngineStill, PollerStill
<1>6. ASSUME OwnOutagesFire', alarms \subseteq Nat, EntryInv', FollowInv', RebootInv', FiredInv',
             \A e \in Unanswered' : e \in Unanswered \/ e.start = now \/ ~(Tracks /\ DishAlarm),
             \A e \in entries' : Own(e) => e \in entries \/ e.source # "path"
      PROVE  EvaluationInv'
  <2>1. TracksInv'
    BY <1>2, <1>6, EngineRests DEF EvaluationInv, TracksInv, Tracks, Subject, DishAlarm, EngineStill
  <2>2. AlarmedInv'
    BY <1>2, <1>6, EngineRests DEF EvaluationInv, AlarmedInv, Watched, Alarmed, EngineStill, Own
  <2> QED BY <1>2, <1>5, <1>6, <2>1, <2>2, EngineRests DEF EvaluationInv
<1>7. /\ OwnOutagesFire' /\ alarms \subseteq Nat
  BY <1>1, <1>2 DEF EvaluationInv, FiredInv, OwnOutagesFire, Fired, EngineStill
<1>8. CASE /\ T!ObserveCalled /\ ~snap.reachable /\ T!Active(T!Unreachable) = {}
           /\ T!Open(T!Unreachable, T!UnreachableCause, T!FailureSince)
  <2>1. T!UnreachableCause \in T!AllCauses /\ T!UnreachableCause \in {"expected_reboot", "grpc_unreachable"}
    BY DEF T!UnreachableCause, T!AllCauses
  <2>2. failingSince # NoTime /\ T!FailureSince = failingSince /\ failingSince \in Nat /\ failingSince <= now
    BY <1>3, <1>8 DEF T!ObserveCalled, T!FailureSince, NoTime, Past
  <2>3. /\ EntryInv' /\ ~after'.save
        /\ \E e \in T!Entry :
              /\ e.source = T!Unreachable /\ e.cause = T!UnreachableCause /\ e.start = failingSince /\ e.ongoing /\ Own(e)
              /\ entries' = entries \cup {e}
    BY <1>1, <1>4, <1>8, <2>1, <2>2, Opens
  <2> PICK e \in T!Entry :
              /\ e.source = T!Unreachable /\ e.cause = T!UnreachableCause /\ e.start = failingSince /\ e.ongoing /\ Own(e)
              /\ entries' = entries \cup {e}
    BY <2>3
  <2>4. Unanswered = {} /\ Unanswered' = {e}
    BY <1>8 DEF Unanswered, T!Active
  <2>5. FollowInv'
    BY <1>3, <2>2, <2>4, <1>1 DEF FollowInv
  <2>6. RebootInv'
    <3>1. rebootedAt = NoTime => e.cause = "grpc_unreachable"
      BY <1>3 DEF EvaluationInv, RebootInv, T!UnreachableCause, NoTime, T!NoTime
    <3> QED BY <1>1, <1>2, <3>1 DEF EvaluationInv, RebootInv, EngineStill, PollerStill, Own
  <2>7. Tracks /\ DishAlarm => e.start = now
    BY <1>2, <2>2, <2>4 DEF EvaluationInv, TracksInv
  <2>8. FiredInv'
    BY <1>2, <1>7, <2>3 DEF FiredInv, EngineStill
  <2> QED BY <1>4, <1>6, <1>7, <2>3, <2>4, <2>5, <2>6, <2>7, <2>8
<1>9. CASE T!ObserveCalled /\ snap.reachable /\ T!Active(T!Unreachable) # {} /\ T!Close(T!Unreachable)
  <2>1. /\ EntryInv' /\ entries' \subseteq entries /\ Fired(after'.entry)
    BY <1>1, <1>2, <1>4, <1>9, Closes
  <2>2. Unanswered' \subseteq Unanswered
    BY <2>1 DEF Unanswered, T!Active
  <2>3. failingSince = NoTime
    BY <1>3, <1>9
  <2>4. FollowInv'
    BY <1>1, <2>3 DEF FollowInv
  <2>5. RebootInv'
    BY <1>1, <1>2, <2>1 DEF EvaluationInv, RebootInv, EngineStill, PollerStill, Own
  <2>6. FiredInv'
    <3>1. \A e : Fired(e) => Fired(e)'
      BY <1>2 DEF Fired, EngineStill
    <3> QED BY <1>2, <1>7, <2>1, <3>1 DEF FiredInv, EngineStill
  <2> QED BY <1>6, <1>7, <2>1, <2>2, <2>4, <2>5, <2>6
<1>10. CASE /\ T!ObserveCalled => (snap.reachable <=> T!Active(T!Unreachable) = {})
            /\ UNCHANGED <<entries, seen, after>>
  <2>1. Unanswered' = Unanswered
    BY <1>10 DEF Unanswered, T!Active
  <2>2. failingSince # NoTime => Unanswered # {}
    BY <1>3, <1>10 DEF T!ObserveCalled, Unanswered, NoTime
  <2>3. EntryInv' /\ FollowInv' /\ RebootInv'
    BY <1>1, <1>2, <1>10, <2>1, <2>2 DEF EvaluationInv, EntryInv, AfterType, FollowInv, RebootInv, EngineStill, PollerStill
  <2>4. FiredInv'
    BY <1>1, <1>2, <1>7, <1>10 DEF FiredInv, T!Nothing, EngineStill
  <2> QED BY <1>6, <1>7, <1>10, <2>1, <2>3, <2>4
<1> QED BY <1>8, <1>9, <1>10 DEF T!ObserveDish

(* The path outage opens at the first tick of the loss. *)
LEMMA ObservePathKeeps ==
  ASSUME EvaluationInv, UNCHANGED <<engineVars, processVars, rebootVars, warned, alarms>>, T!ObservePath
  PROVE  EvaluationInv'
<1>1. /\ phase = "path" /\ phase' = "rules" /\ after = T!Nothing
      /\ UNCHANGED <<now, reachable, failingSince, expectedUntil, ticked, snap, store>>
  BY DEF T!ObservePath, T!pollerVars, T!Free
<1>2. /\ EngineStill /\ PollerStill /\ InTimeline /\ InTimeline' /\ Observed /\ Observed'
      /\ phase # "idle" /\ phase' # "idle"
      /\ \A f : ~NotYetSeen(f)' /\ (f.source = "path" => NotYetSeen(f))
  BY <1>1 DEF EngineStill, PollerStill, engineVars, rebootVars, InTimeline, Observed, NotYetSeen, T!Path
<1>3. T!Path \in T!Sources \ {T!Dish} /\ T!Path = "path" /\ T!Unreachable = "dish_unreachable" /\ T!Dish = "dish"
  BY DEF T!Path, T!Unreachable, T!Sources, T!Dish
<1>4. now \in Nat /\ Past(pathPending)
  BY DEF EvaluationInv, PollInv
<1>5. /\ pathPending' \in {pathPending, now, NoTime}
      /\ \/ UNCHANGED <<entries, after>>
         \/ pathPending # NoTime /\ T!Active(T!Path) = {} /\ T!Open(T!Path, "probe_loss", pathPending)
         \/ T!Close(T!Path)
  BY DEF T!ObservePath, T!ObservePathLost, T!ObservePathClear, NoTime
<1>6. /\ EntryInv' /\ RebootInv' /\ (after'.save => Fired(after'.entry))
      /\ \A e : e.source # "path" => (e \in entries' => e \in entries) /\ (e \in entries => e \in entries')
  <2>1. CASE UNCHANGED <<entries, after>>
    BY <1>1, <1>2, <2>1 DEF EvaluationInv, EntryInv, AfterType, RebootInv, T!Nothing, EngineStill, PollerStill
  <2>2. CASE pathPending # NoTime /\ T!Active(T!Path) = {} /\ T!Open(T!Path, "probe_loss", pathPending)
    <3>1. pathPending \in Nat /\ pathPending <= now /\ "probe_loss" \in T!AllCauses
      BY <1>4, <2>2 DEF Past, T!AllCauses
    <3>2. /\ EntryInv' /\ ~after'.save
          /\ \E e \in T!Entry :
               /\ e.source = T!Path /\ e.cause = "probe_loss" /\ e.start = pathPending /\ e.ongoing /\ Own(e)
               /\ entries' = entries \cup {e}
      BY <1>1, <1>3, <2>2, <3>1, Opens
    <3>3. PICK e \in T!Entry : e.source = T!Path /\ e.cause = "probe_loss" /\ entries' = entries \cup {e}
      BY <3>2
    <3> QED BY <1>1, <1>2, <1>3, <3>2, <3>3 DEF EvaluationInv, RebootInv, EngineStill, PollerStill
  <2>3. CASE T!Close(T!Path)
    <3>1. /\ EntryInv' /\ entries' \subseteq entries /\ Fired(after'.entry)
          /\ \A e \in entries : e.source # T!Path => e \in entries'
      BY <1>1, <1>2, <1>3, <2>3, Closes
    <3> QED BY <1>1, <1>2, <1>3, <3>1 DEF EvaluationInv, RebootInv, EngineStill, PollerStill
  <2> QED BY <1>5, <2>1, <2>2, <2>3
<1>7. Unanswered' = Unanswered
  BY <1>3, <1>6 DEF Unanswered, T!Active
<1>8. PollInv'
  BY <1>1, <1>2, <1>4, <1>5, EngineRests DEF EvaluationInv, PollInv, Past, EngineStill, PollerStill, NoTime, T!NoTime
<1>9. FollowInv' /\ TracksInv'
  BY <1>2, <1>7, EngineRests DEF EvaluationInv, FollowInv, TracksInv, Tracks, Subject, DishAlarm, EngineStill, PollerStill
<1>10. AlarmedInv'
  BY <1>2, EngineRests DEF AlarmedInv
<1>11. FiredInv'
  <2>1. \A e : Fired(e) => Fired(e)'
    BY <1>2 DEF Fired, EngineStill
  <2> QED BY <1>1, <1>2, <1>6, <2>1 DEF EvaluationInv, FiredInv, OwnOutagesFire, EngineStill
<1> QED BY <1>2, <1>6, <1>8, <1>9, <1>10, <1>11, EngineRests DEF EvaluationInv

(* Saving and announcing. *)
LEMMA SaveKeeps ==
  ASSUME EvaluationInv, UNCHANGED <<engineVars, processVars, rebootVars, warned, alarms>>, T!Save \/ T!Publish
  PROVE  EvaluationInv'
<1>1. /\ UNCHANGED <<now, reachable, failingSince, pathPending, expectedUntil, ticked, snap, phase, entries>>
      /\ UNCHANGED <<rules, suppressUntil, states, tick, saved, restarts, accepted, rebooting, rebootedAt, warned, alarms>>
      /\ \/ store' = T!Merge(after.entry) /\ after.save
         \/ store' = store
      /\ after' = T!Nothing \/ after' = [after EXCEPT !.save = FALSE]
  BY DEF T!Save, T!Publish, T!pollerVars, T!timelineVars, engineVars, rebootVars
<1>2. UNCHANGED <<E!Ticking, Unanswered, ActiveOutages, Over, Observed>>
  BY <1>1 DEF E!Ticking, E!NoTick, Unanswered, T!Active, ActiveOutages, T!Ids, T!Id, Over, Observed
<1>3. AfterType(after') /\ ~after'.save
  <2>1. AfterType(T!Nothing) /\ ~T!Nothing.save
    BY DEF AfterType, T!Nothing
  <2>2. after = [save |-> after.save, event |-> after.event, entry |-> after.entry]
    BY DEF EvaluationInv, EntryInv, AfterType
  <2>3. PICK save, event, entry : after = [save |-> save, event |-> event, entry |-> entry]
    BY <2>2
  <2>4. ASSUME NEW v PROVE [after EXCEPT !.save = v] = [save |-> v, event |-> event, entry |-> entry]
    BY <2>3
  <2>5. [after EXCEPT !.save = FALSE] = [save |-> FALSE, event |-> event, entry |-> entry]
    BY <2>4
  <2> QED BY <1>1, <2>1, <2>5 DEF AfterType
<1>4. PollInv' /\ EntryInv' /\ FollowInv' /\ RebootInv'
  BY <1>1, <1>2, <1>3 DEF EvaluationInv, PollInv, InTimeline, Past, EntryInv, AfterType, FollowInv, RebootInv
<1>5. EngineInv'
  BY <1>1, <1>2 DEF EvaluationInv, EngineInv, Latches, IsLatch, TickType
<1>6. \A n : UNCHANGED Settled(n)
  BY <1>1, <1>2 DEF Settled
<1>7. RaisedInv' /\ TracksInv' /\ AlarmedInv'
  BY <1>1, <1>2, <1>6 DEF EvaluationInv, RaisedInv, Raises, TracksInv, Tracks, Subject, DishAlarm, AlarmedInv,
                          Watched, Alarmed, NotYetSeen
<1>8. FiredInv'
  <2>1. \A e \in store' : e \in store \/ (after.save /\ e = after.entry)
    BY <1>1 DEF T!Merge
  <2>2. \A e : Fired(e)' = Fired(e)
    BY <1>1 DEF Fired
  <2>3. \A e \in store' : e.source # T!Dish => Fired(e)
    BY <2>1 DEF EvaluationInv, FiredInv, OwnOutagesFire, Own
  <2> QED BY <1>1, <1>3, <2>2, <2>3 DEF EvaluationInv, FiredInv, OwnOutagesFire, T!Dish
<1> QED BY <1>1, <1>4, <1>5, <1>7, <1>8, WindowRests DEF EvaluationInv

(* The engine's tick begins with the outages that are open. *)
LEMMA RunRulesKeeps ==
  ASSUME EvaluationInv, RunRules
  PROVE  EvaluationInv'
<1>1. /\ phase = "rules" /\ phase' = "idle" /\ after = T!Nothing
      /\ UNCHANGED <<now, reachable, failingSince, pathPending, expectedUntil, ticked, store, entries, after>>
      /\ UNCHANGED <<rules, suppressUntil, states, saved, restarts, accepted, rebooting, rebootedAt, alarms>>
      /\ warned' = (suppressUntil # NoTime)
      /\ tick' = [next |-> 0, rules |-> rules, outages |-> ActiveOutages,
                  signal |-> [n \in Alerts |-> "unknown"], mwan |-> E!NoMwan, until |-> E!Unread]
  BY DEF RunRules, T!EndTick, T!pollerVars, T!timelineVars, T!Free, E!BeginTick, E!engineVars, rebootVars
<1>2. /\ E!Ticking' /\ ~Over' /\ Observed /\ Observed' /\ ticked /\ UNCHANGED <<Unanswered, ActiveOutages>>
      /\ tick'.next = 0
  <2>1. tick'.next = 0 /\ E!NoTick.next = -1
    BY <1>1 DEF E!NoTick
  <2>2. ticked
    BY <1>1 DEF EvaluationInv, PollInv, InTimeline
  <2> QED BY <1>1, <2>1, <2>2 DEF E!Ticking, Unanswered, T!Active, ActiveOutages, T!Ids, T!Id, Over, Observed
<1>3. PollInv' /\ EntryInv' /\ FollowInv' /\ RebootInv'
  BY <1>1, <1>2 DEF EvaluationInv, PollInv, InTimeline, Past, EntryInv, AfterType, FollowInv, RebootInv
<1>4. EngineInv'
  BY <1>1, <1>2 DEF EvaluationInv, EngineInv, Latches, IsLatch, TickType
<1>5. \A n : ~Settled(n)'
  BY <1>2 DEF Settled
<1>6. RaisedInv' /\ TracksInv'
  BY <1>1, <1>2, <1>5 DEF EvaluationInv, RaisedInv, TracksInv, Tracks, Subject, DishAlarm
<1>7. AlarmedInv' /\ FiredInv'
  BY <1>1, <1>2 DEF EvaluationInv, AlarmedInv, NotYetSeen, FiredInv, OwnOutagesFire, Fired
<1>8. WindowInv'
  <2>1. tick'.until # NoTime
    BY <1>1 DEF NoTime, T!NoTime, E!Unread
  <2>2. suppressUntil' = NoTime => ~warned'
    BY <1>1
  <2> QED BY <2>1, <2>2 DEF WindowInv
<1> QED BY <1>3, <1>4, <1>6, <1>7, <1>8 DEF EvaluationInv

-----------------------------------------------------------------------------
(* The engine's tick: the outages it was given are the open ones, so a rule *)
(* that is raised has one of them and the dish's rule has the dish's.       *)
TimelineRests == UNCHANGED <<now, timelineVars, storeUp, alive, rebootVars, warned>>

LEMMA TickRests ==
  ASSUME EvaluationInv, TimelineRests, E!Ticking
  PROVE  /\ phase = "idle" /\ ticked /\ ~Over /\ Observed /\ Observed' /\ phase' = "idle" /\ ticked'
         /\ PollInv' /\ EntryInv'
         /\ UNCHANGED <<Unanswered, ActiveOutages>>
         /\ FollowInv' /\ \A e : ~NotYetSeen(e) /\ ~NotYetSeen(e)'
         /\ UNCHANGED <<now, entries, failingSince, accepted, rebootedAt, rebooting, warned, expectedUntil, store, after>>
<1>1. /\ phase = "idle" /\ ticked /\ phase' = "idle" /\ ticked'
      /\ UNCHANGED <<now, reachable, failingSince, entries, pathPending, expectedUntil, phase, ticked,
                     snap, after, store, accepted, rebooting, rebootedAt, warned>>
  BY DEF EvaluationInv, PollInv, TimelineRests, timelineVars, rebootVars
<1>2. PollInv'
  BY <1>1 DEF EvaluationInv, PollInv, InTimeline, Past
<1>3. EntryInv' /\ UNCHANGED <<Unanswered, ActiveOutages>>
  BY <1>1 DEF EvaluationInv, EntryInv, AfterType, Unanswered, T!Active, ActiveOutages, T!Ids, T!Id
<1>4. Observed /\ Observed' /\ ~Over
  BY <1>1 DEF Observed, Over
<1>5. FollowInv'
  BY <1>1, <1>3, <1>4 DEF EvaluationInv, FollowInv
<1>6. \A e : ~NotYetSeen(e) /\ ~NotYetSeen(e)'
  BY <1>1 DEF NotYetSeen
<1> QED BY <1>1, <1>2, <1>3, <1>4, <1>5, <1>6

(* A step of the engine leaves the window, but may read it.                 *)
LEMMA WindowKept ==
  ASSUME EvaluationInv, TimelineRests, E!Ticking, UNCHANGED <<suppressUntil, restarts>>,
         tick'.until \in {tick.until, suppressUntil}
  PROVE  WindowInv'
BY TickRests DEF EvaluationInv, WindowInv

(* A step of the engine that leaves the latches. *)
LEMMA LatchesRest ==
  ASSUME EvaluationInv, TimelineRests, E!Ticking, E!Ticking', EngineInv',
         UNCHANGED <<rules, suppressUntil, states, restarts, alarms>>, \A n : Settled(n)' => Settled(n),
         tick'.until \in {tick.until, suppressUntil}
  PROVE  EvaluationInv'
<1>1. RebootInv' /\ WindowInv'
  BY TickRests, WindowKept DEF EvaluationInv, RebootInv
<1>2. RaisedInv' /\ TracksInv'
  BY TickRests DEF EvaluationInv, RaisedInv, Raises, TracksInv, Tracks, Subject, DishAlarm
<1>3. AlarmedInv' /\ FiredInv'
  BY TickRests DEF EvaluationInv, AlarmedInv, Over, FiredInv, OwnOutagesFire, Fired
<1> QED BY TickRests, <1>1, <1>2, <1>3 DEF EvaluationInv

(* The tick that goes on, with the inputs it has. *)
LEMMA TickGoesOn ==
  ASSUME EvaluationInv, TimelineRests, E!Ticking, UNCHANGED <<rules, suppressUntil>>,
         \/ tick' = [tick EXCEPT !.next = @ + 1]
         \/ tick' = [tick EXCEPT !.until = suppressUntil]
  PROVE  /\ tick \in TickType /\ tick' \in TickType' /\ E!Ticking' /\ ~Over'
         /\ tick.next \in Nat /\ tick'.next \in {tick.next, tick.next + 1}
         /\ tick'.until \in {tick.until, suppressUntil}
         /\ tick' = [tick EXCEPT !.next = @ + 1] => tick'.next = tick.next + 1
         /\ tick' = [tick EXCEPT !.until = suppressUntil] => tick'.next = tick.next
<1>1. tick \in TickType
  BY DEF EvaluationInv, EngineInv
<1>2. /\ tick' \in TickType
      /\ tick.next \in Nat /\ tick'.next \in {tick.next, tick.next + 1}
      /\ tick'.until \in {tick.until, suppressUntil}
      /\ tick' = [tick EXCEPT !.next = @ + 1] => tick'.next = tick.next + 1
      /\ tick' = [tick EXCEPT !.until = suppressUntil] => tick'.next = tick.next
  BY <1>1 DEF TickType
<1>3. E!Ticking' /\ ~Over'
  <2>1. E!NoTick.next = -1
    BY DEF E!NoTick
  <2>2. E!Ticking'
    BY <1>2, <2>1 DEF E!Ticking, E!NoTick
  <2> QED BY <2>2 DEF Over
<1>4. tick' \in TickType'
  BY <1>2, TickRests DEF TickType
<1> QED BY <1>1, <1>2, <1>3, <1>4

LEMMA EvaluateFailoverKeeps ==
  ASSUME EvaluationInv, TimelineRests, UNCHANGED alarms, E!EvaluateFailover
  PROVE  EvaluationInv'
<1>1. /\ E!Ticking /\ tick.next = 0 /\ tick' = [tick EXCEPT !.next = @ + 1]
      /\ UNCHANGED <<rules, suppressUntil, states, saved, restarts>>
  BY DEF E!EvaluateFailover, E!Ready, E!Proceed, E!FailoverOff, E!FailoverBaseline, E!FailoverSame, E!FailoverFires
<1>2. EngineInv'
  BY <1>1, TickGoesOn DEF EvaluationInv, EngineInv, Latches, IsLatch
<1>3. tick'.next = 1
  BY <1>1, TickGoesOn
<1>4. \A n : ~Settled(n)'
  BY <1>1, <1>3, TickGoesOn DEF Settled
<1> QED BY <1>1, <1>2, <1>4, TickGoesOn, LatchesRest

LEMMA ReadSuppressionKeeps ==
  ASSUME EvaluationInv, TimelineRests, UNCHANGED alarms, E!ReadSuppression
  PROVE  EvaluationInv'
<1>1. /\ E!Ticking /\ tick' = [tick EXCEPT !.until = suppressUntil]
      /\ UNCHANGED <<rules, suppressUntil, states, saved, restarts>>
  BY DEF E!ReadSuppression, E!engineVars
<1>2. EngineInv'
  BY <1>1, TickGoesOn DEF EvaluationInv, EngineInv, Latches, IsLatch
<1>3. \A n : Settled(n)' => Settled(n)
  BY <1>1, TickGoesOn DEF Settled
<1> QED BY <1>1, <1>2, <1>3, TickGoesOn, LatchesRest

(* The row takes the latches; a save that fails leaves it. *)
LEMMA PersistKeeps ==
  ASSUME EvaluationInv, TimelineRests, UNCHANGED alarms, E!PersistState \/ E!PersistFails
  PROVE  EvaluationInv'
<1>1. /\ UNCHANGED <<rules, suppressUntil, states, tick, restarts>>
      /\ \/ saved' = E!Persisted
         \/ saved' = saved
  BY DEF E!PersistState, E!PersistFails, E!engineVars
<1>2. Latches(saved.states) /\ Latches(states)
  BY DEF EvaluationInv, EngineInv
<1>3. Latches(E!Persisted.states)
  <2> DEFINE p == [n \in Alerts |-> IF states[n].active THEN states[n] ELSE E!Idle]
  <2>1. E!Persisted.states = p
    BY DEF E!Persisted
  <2>2. IsLatch(E!Idle)
    BY DEF IsLatch, E!Idle
  <2>3. \A n \in Alerts : IsLatch(p[n])
    BY <1>2, <2>2 DEF Latches
  <2> HIDE DEF p
  <2>4. p = [n \in Alerts |-> p[n]]
    BY DEF p
  <2> QED BY <2>1, <2>3, <2>4 DEF Latches
<1>4. Latches(saved'.states)
  BY <1>1, <1>2, <1>3
<1>5. /\ UNCHANGED <<now, reachable, failingSince, entries, pathPending, expectedUntil, phase, ticked,
                     snap, after, store, accepted, rebooting, rebootedAt, warned>>
      /\ UNCHANGED <<E!Ticking, Unanswered, ActiveOutages, Over, Observed>>
  BY <1>1 DEF TimelineRests, timelineVars, rebootVars, E!Ticking, E!NoTick, Unanswered, T!Active, ActiveOutages, T!Ids, T!Id,
              Over, Observed
<1>6. EngineInv'
  BY <1>1, <1>4, <1>5 DEF EvaluationInv, EngineInv, Latches, IsLatch, TickType
<1>7. \A n : UNCHANGED Settled(n)
  BY <1>1, <1>5 DEF Settled
<1>8. PollInv' /\ EntryInv' /\ FollowInv' /\ RebootInv'
  BY <1>1, <1>5 DEF EvaluationInv, PollInv, InTimeline, Past, EntryInv, AfterType, FollowInv, RebootInv
<1>9. RaisedInv' /\ TracksInv' /\ AlarmedInv' /\ FiredInv'
  BY <1>1, <1>5, <1>7 DEF EvaluationInv, RaisedInv, Raises, TracksInv, Tracks, Subject, DishAlarm, AlarmedInv,
                          Watched, Alarmed, NotYetSeen, FiredInv, OwnOutagesFire, Fired
<1> QED BY <1>1, <1>5, <1>6, <1>8, <1>9, WindowRests DEF EvaluationInv

(* What raises the rule being evaluated. *)
RuleNow == Catalog[tick.next]

LEMMA RuleFacts ==
  ASSUME EvaluationInv, TimelineRests, E!EvaluateRule
  PROVE  /\ E!Ticking /\ RuleNow \in Alerts /\ RuleNow \in E!OutageAlerts
         /\ tick.next \in 1 .. Len(Catalog) /\ tick \in TickType /\ tick.rules[RuleNow] = rules[RuleNow]
         /\ tick.outages = ActiveOutages
         /\ tick' = [tick EXCEPT !.next = @ + 1] /\ UNCHANGED <<rules, suppressUntil, saved, restarts>>
         /\ E!AsksWindow(RuleNow, rules[RuleNow]) => tick.until # E!Unread
<1>1. /\ E!Ticking /\ tick.next \in 1 .. Len(Catalog)
      /\ tick' = [tick EXCEPT !.next = @ + 1] /\ UNCHANGED <<rules, suppressUntil, saved, restarts>>
  BY DEF E!EvaluateRule, E!Proceed
<1>2. tick \in TickType
  BY <1>1 DEF EvaluationInv, EngineInv
<1>3. Catalog \in Seq(Alerts) /\ Alerts \subseteq E!OutageAlerts
  BY EvaluationAssumption DEF EvaluationAssumption
<1>4. RuleNow \in Alerts
  BY <1>1, <1>3 DEF RuleNow
<1>5. tick.rules = rules /\ tick.outages = ActiveOutages
  BY <1>2 DEF TickType
<1>6. E!AsksWindow(RuleNow, rules[RuleNow]) => tick.until # E!Unread
  BY <1>5 DEF E!EvaluateRule, RuleNow
<1> QED BY <1>1, <1>2, <1>3, <1>4, <1>5, <1>6

(* An open outage of the daemon's that has lasted the hold raises it. *)
LEMMA OpenRaises ==
  ASSUME EvaluationInv, TimelineRests, E!EvaluateRule, NEW e \in entries, Raises(RuleNow, e)
  PROVE  E!Raising(RuleNow, rules[RuleNow]) # {}
<1> DEFINE o == T!Id(e)
<1>1. o.source = e.source /\ o.cause = e.cause /\ o.start = e.start
  BY DEF T!Id
<1>2. e.ongoing
  BY DEF EvaluationInv, EntryInv, Raises
<1>3. o \in tick.outages
  BY <1>2, RuleFacts DEF ActiveOutages, T!Ids
<1> HIDE DEF o
<1>4. o \in E!Overdue(RuleNow, rules[RuleNow])
  BY <1>1, <1>3 DEF E!Overdue, Raises, T!Unreachable
<1>5. RuleNow = "dish_unreachable" => ~(now < tick.until)
  <2>1. tick.until \in {E!Unread, NoTime, suppressUntil} /\ now \in Nat
    BY RuleFacts DEF EvaluationInv, PollInv, TickType
  <2> QED BY <2>1 DEF Raises, E!Unread, NoTime, T!NoTime
<1>6. o \in E!Raising(RuleNow, rules[RuleNow])
  BY <1>4, <1>5 DEF E!Raising
<1> QED BY <1>6

(* What raises dish_unreachable is the dish's outage. *)
LEMMA RaisingIsOpen ==
  ASSUME EvaluationInv, TimelineRests, E!EvaluateRule, RuleNow = "dish_unreachable",
         NEW o \in E!Raising(RuleNow, rules[RuleNow])
  PROVE  /\ \E e \in Unanswered : e.start = o.start /\ now - e.start >= rules[RuleNow].hold
         /\ rules[RuleNow].enabled => tick.until \in {NoTime, suppressUntil} /\ ~(now < tick.until)
<1>1. /\ o \in ActiveOutages /\ o.source = "dish_unreachable" /\ now - o.start >= rules[RuleNow].hold
      /\ o \in E!Overdue(RuleNow, rules[RuleNow]) /\ ~(now < tick.until)
  BY RuleFacts DEF E!Raising, E!Overdue
<1>2. PICK e \in entries : e.ongoing /\ o = T!Id(e)
  BY <1>1 DEF ActiveOutages, T!Ids
<1>3. e.source = o.source /\ e.start = o.start
  BY <1>2 DEF T!Id
<1>4. e \in Unanswered
  BY <1>1, <1>2, <1>3 DEF Unanswered, T!Active, T!Unreachable
<1>5. rules[RuleNow].enabled => tick.until # E!Unread
  BY <1>1, RuleFacts DEF E!AsksWindow
<1>6. tick.until \in {E!Unread, NoTime, suppressUntil}
  BY RuleFacts DEF TickType
<1> QED BY <1>1, <1>3, <1>4, <1>5, <1>6

(* The outcomes of the rule. *)
LEMMA RuleOutcome ==
  ASSUME EvaluationInv, TimelineRests, E!EvaluateRule
  PROVE  /\ Latches(states') /\ \A n \in Alerts : n # RuleNow => states'[n] = states[n]
         /\ rules[RuleNow].enabled /\ E!Raising(RuleNow, rules[RuleNow]) # {} =>
              /\ states'[RuleNow].active
              /\ states[RuleNow].active =>
                   states'[RuleNow].subjectStart = states[RuleNow].subjectStart
              /\ ~states[RuleNow].active =>
                   \E o \in E!Raising(RuleNow, rules[RuleNow]) : states'[RuleNow].subjectStart = o.start
         /\ rules[RuleNow].enabled /\ E!Raising(RuleNow, rules[RuleNow]) = {} => ~states'[RuleNow].active
         /\ ~rules[RuleNow].enabled => ~states'[RuleNow].active
<1> DEFINE n == RuleNow
           raising == E!Raising(RuleNow, rules[RuleNow])
<1>1. /\ n \in Alerts /\ rules[n].enabled \in BOOLEAN /\ rules[n].clearHold = 0
      /\ Latches(states)
  BY RuleFacts, InTableFacts DEF EvaluationInv, EngineInv
<1>2. \/ E!Disabled(n, rules[n])
      \/ E!Unknown(n, rules[n])
      \/ E!StillRaised(n, rules[n])
      \/ E!Fires(n, rules[n])
      \/ E!StaysQuiet(n, rules[n])
      \/ E!StartsClearing(n, rules[n])
      \/ E!KeepsClearing(n, rules[n])
      \/ E!Resolves(n, rules[n])
  BY RuleFacts DEF E!EvaluateRule, RuleNow
<1>3. E!Level(n, rules[n]) = IF raising # {} THEN "raised" ELSE "clear"
  BY RuleFacts DEF E!Level, E!OutageAlerts
<1>4. E!Started(n, rules[n]) \subseteq {o.start : o \in raising}
  BY RuleFacts DEF E!Started
<1>5. E!ClearHeld(n, rules[n])
  BY <1>1 DEF E!ClearHeld
<1>6. states[n] = [active |-> states[n].active, subjectStart |-> states[n].subjectStart,
                   clearSince |-> states[n].clearSince] /\ states[n].active \in BOOLEAN
  BY <1>1 DEF Latches, IsLatch
<1>7. ASSUME NEW s, IsLatch(s), states' = [states EXCEPT ![n] = s]
      PROVE  Latches(states') /\ states'[n] = s /\ \A m \in Alerts : m # n => states'[m] = states[m]
  <2>1. states'[n] = s /\ \A m \in Alerts : m # n => states'[m] = states[m]
    BY <1>1, <1>7 DEF Latches
  <2>2. \A m \in Alerts : IsLatch(states'[m])
    BY <1>1, <1>7, <2>1 DEF Latches
  <2>3. states' = [m \in Alerts |-> states'[m]]
    BY <1>1, <1>7 DEF Latches
  <2> QED BY <2>1, <2>2, <2>3 DEF Latches
<1> HIDE DEF n, raising
<1>8. CASE E!Disabled(n, rules[n])
  <2>1. ~rules[n].enabled /\ states' = [states EXCEPT ![n] = E!Idle]
    BY <1>8 DEF E!Disabled
  <2>2. IsLatch(E!Idle) /\ ~E!Idle.active
    BY DEF IsLatch, E!Idle
  <2> QED BY <1>7, <2>1, <2>2 DEF n, raising
<1>9. CASE E!Unknown(n, rules[n])
  BY <1>3, <1>9 DEF E!Unknown
<1>10. CASE E!StillRaised(n, rules[n])
  <2>1. rules[n].enabled /\ raising # {} /\ states[n].active /\ states' = [states EXCEPT ![n].clearSince = E!NoTime]
    BY <1>3, <1>10 DEF E!StillRaised
  <2> PICK since, start, on : states[n] = [active |-> on, subjectStart |-> start, clearSince |-> since]
    BY <1>6
  <2> DEFINE s == [active |-> TRUE, subjectStart |-> start, clearSince |-> E!NoTime]
  <2>2. on = TRUE
    BY <1>6, <2>1
  <2>3. ASSUME NEW t PROVE [states EXCEPT ![n].clearSince = t]
            = [states EXCEPT ![n] = [active |-> TRUE, subjectStart |-> start, clearSince |-> t]]
    <3>1. [states[n] EXCEPT !.clearSince = t] = [active |-> on, subjectStart |-> start, clearSince |-> t]
      OBVIOUS
    <3> QED BY <2>2, <3>1
  <2>4. states' = [states EXCEPT ![n] = s]
    BY <2>1, <2>3
  <2>5. IsLatch(s) /\ s.active /\ s.subjectStart = states[n].subjectStart
    BY DEF IsLatch
  <2> HIDE DEF s
  <2> QED BY <1>7, <2>1, <2>4, <2>5 DEF n, raising
<1>11. CASE E!Fires(n, rules[n])
  <2>1. rules[n].enabled /\ raising # {} /\ ~states[n].active
    BY <1>3, <1>11 DEF E!Fires
  <2>2. PICK o \in raising : states' = [states EXCEPT ![n] = [active |-> TRUE, subjectStart |-> o.start, clearSince |-> E!NoTime]]
    <3>1. PICK started \in E!Started(n, rules[n]) :
            states' = [states EXCEPT ![n] = [active |-> TRUE, subjectStart |-> started, clearSince |-> E!NoTime]]
      BY <1>11 DEF E!Fires
    <3>2. PICK o \in raising : started = o.start
      BY <1>4
    <3> QED BY <3>1, <3>2
  <2> DEFINE s == [active |-> TRUE, subjectStart |-> o.start, clearSince |-> E!NoTime]
  <2>3. IsLatch(s) /\ s.active /\ s.subjectStart = o.start
    BY DEF IsLatch
  <2>4. states' = [states EXCEPT ![n] = s]
    BY <2>2
  <2> HIDE DEF s
  <2> QED BY <1>7, <2>1, <2>3, <2>4 DEF n, raising
<1>12. CASE E!StaysQuiet(n, rules[n])
  BY <1>1, <1>3, <1>12 DEF E!StaysQuiet, E!Keep, n, raising
<1>13. CASE E!StartsClearing(n, rules[n])
  BY <1>1, <1>13 DEF E!StartsClearing
<1>14. CASE E!KeepsClearing(n, rules[n])
  BY <1>5, <1>14 DEF E!KeepsClearing
<1>15. CASE E!Resolves(n, rules[n])
  <2>1. rules[n].enabled /\ raising = {} /\ states' = [states EXCEPT ![n] = E!Idle]
    BY <1>3, <1>15 DEF E!Resolves
  <2>2. IsLatch(E!Idle) /\ ~E!Idle.active
    BY DEF IsLatch, E!Idle
  <2> QED BY <1>7, <2>1, <2>2 DEF n, raising
<1> QED BY <1>2, <1>8, <1>9, <1>10, <1>11, <1>12, <1>13, <1>14, <1>15

LEMMA EvaluateRuleKeeps ==
  ASSUME EvaluationInv, TimelineRests, UNCHANGED alarms, E!EvaluateRule
  PROVE  EvaluationInv'
<1>1. tick'.next = tick.next + 1 /\ tick.next \in Nat
  BY RuleFacts, TickGoesOn
<1>2. E!Ticking' /\ ~Over'
  BY RuleFacts, TickGoesOn
<1>3. EngineInv'
  <2>1. tick' \in TickType'
    BY RuleFacts, TickGoesOn
  <2>2. rules' \in RuleTables /\ Latches(saved'.states)
    BY RuleFacts DEF EvaluationInv, EngineInv
  <2>3. Latches(states')
    BY RuleOutcome
  <2>4. Latches(states)' /\ Latches(saved.states)'
    BY <2>2, <2>3 DEF Latches, IsLatch
  <2> QED BY <2>1, <2>2, <2>4 DEF EngineInv
<1>4. RebootInv' /\ WindowInv'
  BY RuleFacts, TickGoesOn, TickRests, WindowKept DEF EvaluationInv, RebootInv
<1>5. AlarmedInv' /\ FiredInv'
  BY <1>2, RuleFacts, TickRests DEF EvaluationInv, AlarmedInv, FiredInv, OwnOutagesFire, Fired
<1>6. ASSUME NEW n \in Alerts, Settled(n)'
      PROVE  Settled(n) \/ n = RuleNow
  <2>1. PICK i \in 1 .. Len(Catalog) : i < tick'.next /\ Catalog[i] = n
    BY <1>2, <1>6 DEF Settled
  <2>2. i < tick.next \/ i = tick.next
    BY <1>1, <2>1
  <2> QED BY <2>1, <2>2, RuleFacts DEF Settled, RuleNow
<1>7. RaisedInv'
  <2> SUFFICES ASSUME NEW n \in Alerts, Settled(n)', rules[n].enabled, NEW e \in entries, Raises(n, e)
               PROVE  states'[n].active
    BY RuleFacts, TickRests DEF RaisedInv, Raises, Own
  <2>1. CASE n = RuleNow
    BY <2>1, OpenRaises, RuleOutcome
  <2>2. CASE n # RuleNow
    <3>1. Settled(n) /\ states'[n] = states[n]
      BY <1>6, <2>2, RuleOutcome
    <3> QED BY <3>1 DEF EvaluationInv, RaisedInv
  <2> QED BY <2>1, <2>2
<1>8. TracksInv'
  <2> DEFINE dish == "dish_unreachable"
  <2> SUFFICES ASSUME Tracks, DishAlarm'
               PROVE  /\ Settled(dish)' => \E e \in Unanswered :
                           e.start = states'[dish].subjectStart /\ now - e.start >= rules[dish].hold
                      /\ \A e \in Unanswered : e.start = states'[dish].subjectStart \/ e.start = now
    BY RuleFacts, TickRests DEF TracksInv, Tracks, Subject
  <2>1. dish \in Alerts /\ rules[dish].enabled /\ rules[dish].hold \in Nat /\ rules[dish].hold > 0
    BY InTableFacts DEF Tracks, EvaluationInv
  <2>2. CASE RuleNow # dish
    <3>1. states'[dish] = states[dish] /\ DishAlarm
      BY <2>1, <2>2, RuleOutcome DEF DishAlarm
    <3> QED BY <1>6, <2>1, <2>2, <3>1 DEF EvaluationInv, TracksInv, Subject
  <2>3. CASE RuleNow = dish
    <3>1. states'[dish].active
      BY DEF DishAlarm
    <3>2. E!Raising(RuleNow, rules[RuleNow]) # {}
      BY <2>1, <2>3, <3>1, RuleOutcome
    <3>3. \E e \in Unanswered : e.start = states'[dish].subjectStart /\ now - e.start >= rules[dish].hold
      <4>1. CASE states[dish].active
        <5>1. DishAlarm /\ states'[dish].subjectStart = states[dish].subjectStart
          BY <2>1, <2>3, <3>2, <4>1, RuleOutcome DEF DishAlarm
        <5>2. PICK e \in Unanswered : now - e.start >= rules[dish].hold
          BY <2>3, <3>2, RaisingIsOpen
        <5>3. now \in Nat /\ e.start # now
          BY <2>1, <5>2 DEF EvaluationInv, PollInv
        <5>4. Subject(e)
          BY <5>1, <5>3 DEF EvaluationInv, TracksInv
        <5> QED BY <5>1, <5>2, <5>4 DEF Subject
      <4>2. CASE ~states[dish].active
        <5>1. PICK o \in E!Raising(RuleNow, rules[RuleNow]) : states'[dish].subjectStart = o.start
          BY <2>1, <2>3, <3>2, <4>2, RuleOutcome
        <5> QED BY <2>3, <5>1, RaisingIsOpen
      <4> QED BY <4>1, <4>2
    <3>4. \A e, f \in Unanswered : e = f
      BY DEF EvaluationInv, EntryInv, Unanswered, T!Active, Own, T!Dish, T!Unreachable
    <3> QED BY <3>3, <3>4
  <2> QED BY <2>2, <2>3
<1> QED BY <1>3, <1>4, <1>5, <1>7, <1>8, RuleFacts, TickRests DEF EvaluationInv

(* The tick ends when the whole catalogue is evaluated: what is open for    *)
(* the hold is then alarmed at this clock value.                            *)
LEMMA EndTickKeeps ==
  ASSUME EvaluationInv, EndTick
  PROVE  EvaluationInv'
<1>1. /\ E!Ticking /\ tick.next = Len(Catalog) + 1 /\ tick' = E!NoTick
      /\ UNCHANGED <<rules, suppressUntil, states, saved, restarts>>
      /\ alarms' = IF OutageAlarm THEN alarms \cup {now} ELSE alarms
  BY DEF EndTick, E!EndTick, E!Ready, E!engineVars
<1>2. TimelineRests
  BY DEF EndTick, E!EndTick, TimelineRests, processVars
<1>3. ~E!Ticking' /\ Over'
  BY <1>1, <1>2, TickRests DEF E!Ticking, Over, E!NoTick
<1>4. \A n \in Alerts : Settled(n)
  <2>1. \A n \in Alerts : \E i \in 1 .. Len(Catalog) : Catalog[i] = n
    BY EvaluationAssumption DEF EvaluationAssumption
  <2>2. Len(Catalog) \in Nat
    BY EvaluationAssumption DEF EvaluationAssumption
  <2>3. \A i \in 1 .. Len(Catalog) : i < tick.next
    BY <1>1, <2>2
  <2> QED BY <1>1, <2>1, <2>3 DEF Settled
<1>5. PollInv' /\ EntryInv' /\ FollowInv'
  BY <1>1, <1>2, TickRests
<1>6. RebootInv' /\ WindowInv' /\ EngineInv'
  BY <1>1, <1>2, <1>3, TickRests DEF EvaluationInv, RebootInv, WindowInv, EngineInv, Latches, IsLatch
<1>7. RaisedInv' /\ TracksInv'
  BY <1>1, <1>2, <1>4, TickRests DEF EvaluationInv, RaisedInv, Raises, TracksInv, Tracks, Subject, DishAlarm
<1>8. alarms \subseteq alarms' /\ alarms' \subseteq Nat
  BY <1>1 DEF EvaluationInv, FiredInv, PollInv
<1>9. AlarmedInv'
  <2> SUFFICES ASSUME Watched, NEW e \in entries, Own(e), e.cause # "expected_reboot",
                      now - e.start >= rules["outage_started"].hold
               PROVE  \E t \in alarms' : e.start <= t /\ t < now + 1
    BY <1>1, <1>2, TickRests DEF AlarmedInv, Watched, Alarmed, Own
  <2>1. Raises("outage_started", e)
    BY DEF Raises
  <2>2. OutageAlarm
    BY <1>4, <2>1 DEF EvaluationInv, RaisedInv, Watched, OutageAlarm
  <2>3. e.start \in Nat /\ e.start <= now /\ now \in Nat
    BY DEF EvaluationInv, EntryInv, PollInv, T!Entry, T!Time
  <2> QED BY <1>1, <2>2, <2>3
<1>10. FiredInv'
  <2>1. \A e : Fired(e) => Fired(e)'
    BY <1>8 DEF Fired
  <2> QED BY <1>1, <1>2, <1>8, <2>1, TickRests DEF EvaluationInv, FiredInv, OwnOutagesFire, Own
<1> QED BY <1>5, <1>6, <1>7, <1>9, <1>10 DEF EvaluationInv

LEMMA RestartKeeps ==
  ASSUME EvaluationInv, Restart
  PROVE  EvaluationInv'
<1>1. /\ now' = now /\ reachable' = FALSE /\ failingSince' = NoTime /\ entries' = {} /\ pathPending' = NoTime
      /\ expectedUntil' = NoTime /\ phase' = "idle" /\ ticked' = FALSE /\ after' = T!Nothing
      /\ store' \subseteq store /\ accepted' = FALSE /\ rebooting' = NoTime
      /\ UNCHANGED <<alarms, rebootedAt, warned>>
      /\ rules' \in RuleTables /\ suppressUntil' = NoTime /\ saved' = saved
      /\ states' \in {saved.states, [n \in Alerts |-> E!Idle]}
      /\ restarts' = restarts + 1 /\ tick' = E!NoTick
  BY DEF Restart, E!Restart, E!RestoreState, E!RestoreFails, NoTime, T!NoTime, E!NoTime, rebootVars
<1>2. /\ ~E!Ticking' /\ ~Over' /\ ~Observed' /\ Unanswered' = {} /\ NoTime = -1
  BY <1>1 DEF E!Ticking, E!NoTick, Over, Observed, Unanswered, T!Active, NoTime, T!NoTime
<1>3. PollInv' /\ EntryInv' /\ FollowInv'
  BY <1>1, <1>2 DEF EvaluationInv, PollInv, InTimeline, Past, EntryInv, AfterType, T!Nothing, FollowInv
<1>4. RebootInv' /\ WindowInv'
  <2>1. restarts' \in Nat /\ restarts' # 0
    BY <1>1 DEF EvaluationInv, RebootInv
  <2> QED BY <1>1, <1>2, <2>1 DEF EvaluationInv, RebootInv, WindowInv
<1>5. EngineInv'
  <2>1. Latches([n \in Alerts |-> E!Idle])
    BY DEF Latches, IsLatch, E!Idle
  <2>2. Latches(states')
    BY <1>1, <2>1 DEF EvaluationInv, EngineInv
  <2> QED BY <1>1, <1>2, <2>2 DEF EvaluationInv, EngineInv, Latches, IsLatch
<1>6. \A n : ~Settled(n)'
  BY <1>2 DEF Settled
<1>7. RaisedInv' /\ TracksInv' /\ AlarmedInv'
  BY <1>1, <1>2, <1>6 DEF RaisedInv, TracksInv, AlarmedInv
<1>8. FiredInv'
  <2>1. \A e : Fired(e)' = Fired(e)
    BY <1>1 DEF Fired
  <2>2. ~T!Nothing.save
    BY DEF T!Nothing
  <2> QED BY <1>1, <2>1, <2>2 DEF EvaluationInv, FiredInv, OwnOutagesFire
<1> QED BY <1>3, <1>4, <1>5, <1>7, <1>8 DEF EvaluationInv

LEMMA EvaluationStep ==
  ASSUME EvaluationInv, [EvaluationNext]_evaluationVars
  PROVE  EvaluationInv'
<1>1. CASE ClockTick
  BY <1>1, ClockTickKeeps
<1>2. CASE Poll
  BY <1>2, PollKeeps
<1>3. CASE RebootSuppresses
  BY <1>3, RebootSuppressesKeeps
<1>4. CASE RebootExpects
  BY <1>4, RebootExpectsKeeps
<1>13. CASE RebootAccepted
  BY <1>13, RebootAcceptedKeeps
<1>5. CASE BeginTick
  BY <1>5, BeginTickKeeps
<1>6. CASE Observe
  <2>1. T!Loop /\ UNCHANGED <<engineVars, processVars, rebootVars, warned, alarms>>
    BY <1>6 DEF Observe
  <2>2. CASE \E r \in todo : T!IngestReport(r)
    BY <2>1, <2>2, IngestReportKeeps
  <2> QED BY <2>1, <2>2, IngestDoneKeeps, ObserveDishKeeps, ObservePathKeeps, SaveKeeps DEF T!Loop
<1>7. CASE SavePanics
  <2>1. Kept
    BY <1>7 DEF SavePanics, Kept, timelineVars, engineVars, rebootVars
  <2> QED BY <2>1, NothingMoves
<1>8. CASE RunRules
  BY <1>8, RunRulesKeeps
<1>9. CASE EngineStep
  <2>1. TimelineRests /\ UNCHANGED alarms
    BY <1>9 DEF EngineStep, TimelineRests, processVars, E!EvaluateFailover, E!ReadSuppression, E!EvaluateRule,
                E!PersistState, E!PersistFails
  <2>2. E!EvaluateFailover \/ E!ReadSuppression \/ E!EvaluateRule \/ E!PersistState \/ E!PersistFails
    BY <1>9 DEF EngineStep
  <2> QED BY <2>1, <2>2, EvaluateFailoverKeeps, ReadSuppressionKeeps, EvaluateRuleKeeps, PersistKeeps
<1>10. CASE EndTick
  BY <1>10, EndTickKeeps
<1>11. CASE Restart
  BY <1>11, RestartKeeps
<1>12. CASE UNCHANGED evaluationVars
  <2>1. Kept
    BY <1>12 DEF evaluationVars, Kept, timelineVars, engineVars, rebootVars
  <2> QED BY <2>1, NothingMoves
<1> QED BY <1>1, <1>2, <1>3, <1>4, <1>5, <1>6, <1>7, <1>8, <1>9, <1>10, <1>11, <1>12, <1>13 DEF EvaluationNext, Running

LEMMA EvaluationIsInvariant == EvaluationSpec => []EvaluationInv
<1>1. EvaluationInit => EvaluationInv
  BY EvaluationStarts
<1>2. EvaluationInv /\ [EvaluationNext]_evaluationVars => EvaluationInv'
  BY EvaluationStep
<1> QED BY <1>1, <1>2, PTL DEF EvaluationSpec

-----------------------------------------------------------------------------
(* A dish that has not answered for the hold has its alarm once the tick is *)
(* over, for any clock, hold and catalogue: its outage began no later than  *)
(* the failure, and every rule of the tick has seen it.                     *)
THEOREM UnreachableIsAlarmed == EvaluationSpec => []UnreachableAlarmed
<1>1. EvaluationInv => UnreachableAlarmed
  <2> SUFFICES ASSUME EvaluationInv, Evaluated, "dish_unreachable" \in Alerts,
                      rules["dish_unreachable"].enabled, rebootedAt = NoTime, failingSince # NoTime,
                      failingSince < now, now - failingSince >= rules["dish_unreachable"].hold
               PROVE  DishAlarm
    BY DEF UnreachableAlarmed
  <2>1. Over /\ Observed /\ now \in Nat /\ failingSince \in Nat /\ NoTime = -1
    BY DEF Evaluated, Over, Observed, EvaluationInv, PollInv, Past, NoTime, T!NoTime
  <2>2. PICK e \in Unanswered : e.start <= failingSince
    BY <2>1 DEF EvaluationInv, FollowInv
  <2>3. e \in entries /\ Own(e) /\ e.source = T!Unreachable /\ e.start \in Nat /\ e.cause # "expected_reboot"
    BY DEF EvaluationInv, EntryInv, RebootInv, Unanswered, T!Active, T!Unreachable, T!Dish, Own, T!Entry, T!Time
  <2>4. now - e.start >= rules["dish_unreachable"].hold
    BY <2>1, <2>2, <2>3, InTableFacts DEF EvaluationInv
  <2>5. ~(now < suppressUntil)
    BY <2>1 DEF EvaluationInv, RebootInv
  <2>6. Raises("dish_unreachable", e)
    BY <2>3, <2>4, <2>5 DEF Raises
  <2> QED BY <2>1, <2>3, <2>6 DEF EvaluationInv, RaisedInv, Settled, DishAlarm
<1> QED BY <1>1, EvaluationIsInvariant, PTL

(* An active alarm is about the outage the timeline holds open, and that has *)
(* lasted the hold: the latch is resolved in the tick that closes the outage, *)
(* and a latch that a restart restored takes up no younger outage.          *)
THEOREM AlarmsTrackOutages == EvaluationSpec => []AlarmTracksOutage
<1>1. EvaluationInv => AlarmTracksOutage
  BY DEF EvaluationInv, TracksInv, Tracks, Subject, Settled, Over, Evaluated, AlarmTracksOutage, DishAlarm, Unanswered
<1> QED BY <1>1, EvaluationIsInvariant, PTL

(* Every outage of the daemon's own that outlasts the hold had              *)
(* outage_started active at the end of a tick while it was open, wherever   *)
(* the tick closed it and whenever the daemon restarted: what is open for   *)
(* the hold at the end of a tick has the alert, and the next tick closes    *)
(* nothing that is older by more than one.                                  *)
THEOREM LongOutagesFire == EvaluationSpec => []OwnOutagesFire
<1>1. EvaluationInv => OwnOutagesFire
  BY DEF EvaluationInv, FiredInv
<1> QED BY <1>1, EvaluationIsInvariant, PTL

(* A step that raises dish_unreachable inside the window of a reboot is the *)
(* evaluation of its rule, with a window read before it was set: in a tick  *)
(* that began before, at the clock value of the command.                    *)
THEOREM NoAlarmInside == EvaluationSpec => NoAlarmInWindow
<1>1. ASSUME EvaluationInv, EvaluationNext, ~DishAlarm, DishAlarm', restarts' = 0,
             rebootedAt # NoTime, now < rebootedAt + RebootWindow
      PROVE  ~warned /\ now = rebootedAt
  <2>1. CASE EngineStep /\ E!EvaluateRule
    <3>1. TimelineRests
      BY <2>1 DEF EngineStep, TimelineRests, processVars, E!EvaluateRule
    <3>2. "dish_unreachable" \in Alerts /\ states'["dish_unreachable"].active /\ ~states["dish_unreachable"].active
      BY <1>1 DEF DishAlarm
    <3>3. RuleNow = "dish_unreachable"
      BY <1>1, <2>1, <3>1, <3>2, RuleOutcome
    <3>4. rules[RuleNow].enabled
      BY <1>1, <2>1, <3>1, <3>2, <3>3, RuleOutcome
    <3>5. PICK o : o \in E!Raising(RuleNow, rules[RuleNow])
      BY <1>1, <2>1, <3>1, <3>2, <3>3, <3>4, RuleOutcome
    <3>6. tick.until \in {NoTime, suppressUntil} /\ ~(now < tick.until)
      BY <1>1, <2>1, <3>1, <3>3, <3>4, <3>5, RaisingIsOpen
    <3>7. restarts = 0 /\ E!Ticking
      BY <1>1, <2>1, <3>1, RuleFacts
    <3>8. CASE suppressUntil = NoTime
      BY <1>1, <3>7, <3>8, EvaluationAssumption
      DEF EvaluationInv, RebootInv, WindowInv, EvaluationAssumption, NoTime, T!NoTime
    <3>9. CASE suppressUntil # NoTime
      <4>1. suppressUntil = rebootedAt + RebootWindow
        BY <1>1, <3>7, <3>9 DEF EvaluationInv, RebootInv
      <4>2. tick.until = NoTime
        BY <1>1, <3>6, <4>1
      <4> QED BY <1>1, <3>7, <3>9, <4>2 DEF EvaluationInv, WindowInv
    <3> QED BY <3>8, <3>9
  <2>2. CASE Restart
    BY <1>1, <2>2 DEF Restart, E!Restart, EvaluationInv, RebootInv
  <2>3. CASE ~(EngineStep /\ E!EvaluateRule) /\ ~Restart
    <3>1. UNCHANGED states
      BY <1>1, <2>3 DEF EvaluationNext, Running, ClockTick, Poll, RebootAccepted, RebootSuppresses, RebootExpects,
           BeginTick, Observe, SavePanics, RunRules, EngineStep, EndTick, engineVars, E!engineVars, E!ClockTick,
           E!SetDishUnreachableSuppressUntil, E!BeginTick, E!EvaluateFailover, E!ReadSuppression,
           E!PersistState, E!PersistFails, E!EndTick
    <3> QED BY <1>1, <3>1 DEF DishAlarm
  <2> QED BY <2>1, <2>2, <2>3
<1>2. EvaluationInv /\ [EvaluationNext]_evaluationVars =>
        [(/\ ~DishAlarm /\ DishAlarm' /\ restarts' = 0
          /\ rebootedAt # NoTime /\ now < rebootedAt + RebootWindow)
           => ~warned /\ now = rebootedAt]_evaluationVars
  BY <1>1
<1> QED BY <1>2, EvaluationIsInvariant, PTL DEF EvaluationSpec, NoAlarmInWindow
=============================================================================

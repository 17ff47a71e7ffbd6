--------------------------- MODULE History_proofs ---------------------------
(***************************************************************************)
(* Proofs about History, for any workers, handlers and events and any      *)
(* bounds: its types, that an event is kept once, that a stop without an   *)
(* error has saved every event, and that rows keep their samples.          *)
(***************************************************************************)
EXTENDS History, FiniteSetTheorems, SequenceTheorems, TLAPS

(* The list has no event twice, none that the table has, and every event   *)
(* recorded and not dropped is in one of the two.                          *)
EventInv ==
  /\ pending \in Seq(Events) /\ Len(pending) <= MaxPending
  /\ stored \in [Events -> {0, 1}]
  /\ recorded \subseteq Events /\ dropped \subseteq recorded
  /\ \A i, j \in 1 .. Len(pending) : pending[i] = pending[j] => i = j
  /\ \A i \in 1 .. Len(pending) : pending[i] \in recorded \ dropped /\ stored[pending[i]] = 0
  /\ \A e \in recorded \ dropped : stored[e] = 1 \/ \E i \in 1 .. Len(pending) : pending[i] = e

(* Once the server has shut down no handler runs, and at the end nobody.   *)
StopInv ==
  /\ stage = "waiting" => active \cap Handlers = {}
  /\ stage = "stopped" => active = {} /\ pending = <<>>

HistoryInv == TypeOK /\ EventInv /\ StopInv

(* What the rows rest on.  A sample that a row ever had is in the ring, or *)
(* older than all the ring has: neither a full ring nor a restart leaves a *)
(* hole after which samples of the same minute follow.                     *)
SamplesInv ==
  /\ \A t \in ram : t <= now
  /\ \A m \in Minutes :
       /\ minute[m] \subseteq flushed[m]
       /\ \A t \in flushed[m] :
            /\ MinuteOf(t) = m /\ t <= now
            /\ t \in ram \/ \A u \in ram : t < u

RowsInv == SamplesInv /\ RowsAreComplete

-----------------------------------------------------------------------------
(* How often an event is pending. *)
LEMMA PendingOnce ==
  ASSUME EventInv, NEW e \in Events
  PROVE  /\ (\E i \in 1 .. Len(pending) : pending[i] = e) => Pendings(e) = 1
         /\ (\A i \in 1 .. Len(pending) : pending[i] # e) => Pendings(e) = 0
<1>1. DOMAIN pending = 1 .. Len(pending)
  BY DEF EventInv
<1>2. ASSUME NEW i \in 1 .. Len(pending), pending[i] = e
      PROVE  Pendings(e) = 1
  <2>1. {j \in DOMAIN pending : pending[j] = e} = {i}
    BY <1>1, <1>2 DEF EventInv
  <2> QED BY <2>1, FS_Singleton DEF Pendings
<1>3. ASSUME \A i \in 1 .. Len(pending) : pending[i] # e
      PROVE  Pendings(e) = 0
  <2>1. {j \in DOMAIN pending : pending[j] = e} = {}
    BY <1>1, <1>3
  <2> QED BY <2>1, FS_EmptySet DEF Pendings
<1> QED BY <1>2, <1>3

(* What a flush leaves in the table. *)
LEMMA InsertedAll ==
  ASSUME EventInv
  PROVE  /\ Inserted \in [Events -> {0, 1}]
         /\ \A e \in recorded \ dropped : Inserted[e] = 1
<1>1. ASSUME NEW e \in Events
      PROVE  /\ Inserted[e] \in {0, 1}
             /\ e \in recorded \ dropped => Inserted[e] = 1
  <2>1. Inserted[e] = stored[e] + Pendings(e) /\ stored[e] \in {0, 1}
    BY DEF Inserted, EventInv
  <2>2. CASE \E i \in 1 .. Len(pending) : pending[i] = e
    <3>1. Pendings(e) = 1 /\ stored[e] = 0
      BY <2>2, PendingOnce DEF EventInv
    <3> QED BY <2>1, <3>1
  <2>3. CASE \A i \in 1 .. Len(pending) : pending[i] # e
    <3>1. Pendings(e) = 0
      BY <2>3, PendingOnce
    <3>2. e \in recorded \ dropped => stored[e] = 1
      BY <2>3 DEF EventInv
    <3> QED BY <2>1, <3>1, <3>2
  <2> QED BY <2>2, <2>3
<1> QED BY <1>1 DEF Inserted, EventInv

-----------------------------------------------------------------------------
(* The rows a flush writes are rows. *)
LEMMA RowsType ==
  ASSUME TypeOK, Rows
  PROVE  /\ minute' \in [Minutes -> SUBSET Times] /\ quarter' \in [Quarters -> SUBSET Times]
         /\ flushed' \in [Minutes -> SUBSET Times] /\ cut' \subseteq Minutes
         /\ lastFlush' \in Int /\ ram' \subseteq Times
<1> DEFINE points == {t \in ram : t >= Since}
           touched == {MinuteOf(t) : t \in points}
           written == [m \in Minutes |->
                         IF m \in touched THEN {t \in points : MinuteOf(t) = m} ELSE minute[m]]
           rebuilt == IF touched = {} THEN {} ELSE {q \in Quarters : q >= QuarterOf(Min(points))}
<1>1. points \subseteq Times
  BY DEF TypeOK
<1>2. written \in [Minutes -> SUBSET Times]
  <2> HIDE DEF points, touched
  <2> QED BY <1>1 DEF TypeOK
<1> HIDE DEF points, touched, written
<1>3. minute' = [m \in Minutes |-> IF m * Minute < now - MinuteRetention THEN {} ELSE written[m]]
  BY Zenon DEF Rows, points, touched, written
<1>4. quarter' = [q \in Quarters |->
        IF q * Quarter < now - QuarterRetention THEN {}
        ELSE IF q \in rebuilt /\ \E m \in MinutesOf(q) : written[m] # {}
             THEN UNION {written[m] : m \in MinutesOf(q)} ELSE quarter[q]]
  BY Zenon DEF Rows, points, touched, written
<1>5. flushed' = [m \in Minutes |-> flushed[m] \cup written[m]]
  BY Zenon DEF Rows, points, touched, written
<1>6. cut' = cut \cup Interrupted /\ lastFlush' = now /\ ram' = ram
  BY DEF Rows
<1> HIDE DEF rebuilt
<1>7. minute' \in [Minutes -> SUBSET Times]
  BY <1>2, <1>3
<1>8. \A q \in Quarters : UNION {written[m] : m \in MinutesOf(q)} \subseteq Times
  BY <1>2 DEF MinutesOf
<1>9. quarter' \in [Quarters -> SUBSET Times]
  BY <1>4, <1>8 DEF TypeOK
<1>10. flushed' \in [Minutes -> SUBSET Times]
  BY <1>2, <1>5 DEF TypeOK
<1>11. cut' \subseteq Minutes /\ lastFlush' \in Int /\ ram' \subseteq Times
  BY <1>6 DEF TypeOK, Interrupted, Times
<1> QED BY <1>7, <1>9, <1>10, <1>11

(* A flush empties the list into the table, from which old rows may go. *)
LEMMA FlushStep ==
  ASSUME HistoryInv, Flush, stage' \in Stages, UNCHANGED <<now, clockSet, active>>
  PROVE  TypeOK' /\ EventInv' /\ pending' = <<>>
<1>1. pending' = <<>> /\ UNCHANGED <<failed, recorded>> /\ Rows
  BY DEF Flush
<1>2. TypeOK /\ EventInv
  BY DEF HistoryInv
<1>3. EventInv'
  <2>1. PICK old \in SUBSET Events :
          /\ stored' = [e \in Events |-> IF e \in old THEN 0 ELSE Inserted[e]]
          /\ dropped' = dropped \cup (old \cap recorded)
    BY DEF Flush
  <2>2. stored' \in [Events -> {0, 1}]
    BY <1>2, <2>1, InsertedAll
  <2>3. dropped' \subseteq recorded /\ \A e \in recorded \ dropped' : stored'[e] = 1
    BY <1>2, <2>1, InsertedAll DEF EventInv
  <2> QED BY <1>1, <1>2, <2>2, <2>3, HistoryAssumption DEF EventInv, HistoryAssumption
<1>4. TypeOK'
  <2>1. stored' \in [Events -> Nat] /\ dropped' \subseteq Events
    BY <1>3 DEF EventInv
  <2> QED BY <1>1, <1>2, <1>3, <2>1, RowsType DEF TypeOK, EventInv
<1> QED BY <1>1, <1>3, <1>4

(* A flush that wrote nothing leaves everything. *)
LEMMA NoFlushStep ==
  ASSUME HistoryInv, FlushSkipped \/ FlushFails, stage' \in Stages,
         UNCHANGED <<now, clockSet, active>>
  PROVE  TypeOK' /\ EventInv' /\ UNCHANGED pending
<1>1. UNCHANGED <<series, events>> /\ failed' \in 0 .. MaxFailures
  BY HistoryAssumption DEF FlushSkipped, FlushFails, HistoryInv, TypeOK, HistoryAssumption
<1> QED BY <1>1 DEF HistoryInv, TypeOK, EventInv, series, events

LEMMA FlushesStep ==
  ASSUME HistoryInv, PeriodicFlush \/ FinalFlush
  PROVE  HistoryInv'
<1>1. stage' \in Stages /\ UNCHANGED <<now, clockSet, active>>
  BY DEF PeriodicFlush, FinalFlush, LastFlush, HistoryInv, TypeOK, Stages
<1>2. CASE Flush
  <2>1. TypeOK' /\ EventInv' /\ pending' = <<>>
    BY <1>1, <1>2, FlushStep
  <2>2. StopInv'
    BY <1>1, <2>1 DEF PeriodicFlush, FinalFlush, LastFlush, HistoryInv, StopInv, TypeOK
  <2> QED BY <2>1, <2>2 DEF HistoryInv
<1>3. CASE (FlushSkipped \/ FlushFails) /\ (stage' = "unclean" \/ stage' = stage)
  <2>1. TypeOK' /\ EventInv' /\ UNCHANGED pending
    BY <1>1, <1>3, NoFlushStep
  <2>2. StopInv'
    BY <1>1, <1>3, <2>1 DEF HistoryInv, StopInv
  <2> QED BY <2>1, <2>2 DEF HistoryInv
<1> QED BY <1>2, <1>3 DEF PeriodicFlush, FinalFlush, LastFlush

-----------------------------------------------------------------------------
(* A new event goes to the end; the oldest makes room. *)
LEMMA AddEventStep ==
  ASSUME HistoryInv, NEW p \in Workers \cup Handlers, NEW e \in Events, AddEvent(p, e)
  PROVE  HistoryInv'
<1> DEFINE full == Len(pending) >= MaxPending
           kept == IF full THEN Tail(pending) ELSE pending
<1>1. /\ pending \in Seq(Events) /\ Len(pending) \in Nat /\ Len(pending) <= MaxPending
      /\ MaxPending \in Nat \ {0} /\ EventInv /\ TypeOK
  BY HistoryAssumption DEF HistoryInv, EventInv, HistoryAssumption
<1>2. /\ pending' = Append(kept, e) /\ recorded' = recorded \cup {e}
      /\ dropped' = dropped \cup (IF full THEN {Head(pending)} ELSE {})
      /\ e \notin recorded /\ stored[e] = 0 /\ p \in active
      /\ UNCHANGED <<now, clockSet, stage, active, failed, series, stored>>
  BY DEF AddEvent
<1>3. full => pending # <<>> /\ Head(pending) = pending[1]
  BY <1>1
<1>4. /\ kept \in Seq(Events) /\ Len(kept) < MaxPending
      /\ full => /\ Len(kept) = Len(pending) - 1
                 /\ \A i \in 1 .. Len(kept) : kept[i] = pending[i + 1]
      /\ ~full => kept = pending
  BY <1>1, <1>3
<1>5. \A i \in 1 .. Len(kept) :
        /\ kept[i] \in recorded \ dropped' /\ kept[i] # e /\ stored[kept[i]] = 0
        /\ \A j \in 1 .. Len(kept) : kept[i] = kept[j] => i = j
  <2>1. CASE ~full
    BY <1>1, <1>2, <1>4, <2>1 DEF EventInv
  <2>2. CASE full
    <3> SUFFICES ASSUME NEW i \in 1 .. Len(kept)
                 PROVE  /\ kept[i] \in recorded \ dropped' /\ kept[i] # e /\ stored[kept[i]] = 0
                        /\ \A j \in 1 .. Len(kept) : kept[i] = kept[j] => i = j
      OBVIOUS
    <3>1. i + 1 \in 1 .. Len(pending) /\ 1 \in 1 .. Len(pending) /\ i + 1 # 1
      BY <1>1, <1>4, <2>2
    <3>2. kept[i] = pending[i + 1] /\ dropped' = dropped \cup {pending[1]}
      BY <1>2, <1>3, <1>4, <2>2
    <3>3. kept[i] # pending[1]
      BY <1>1, <3>1, <3>2 DEF EventInv
    <3>4. kept[i] \in recorded \ dropped /\ stored[kept[i]] = 0
      BY <1>1, <3>1, <3>2 DEF EventInv
    <3>5. ASSUME NEW j \in 1 .. Len(kept), kept[i] = kept[j] PROVE i = j
      <4>1. j + 1 \in 1 .. Len(pending) /\ pending[i + 1] = pending[j + 1]
        BY <1>1, <1>4, <2>2, <3>2, <3>5
      <4> QED BY <1>1, <3>1, <4>1 DEF EventInv
    <3> QED BY <1>2, <3>2, <3>3, <3>4, <3>5
  <2> QED BY <2>1, <2>2
<1>6. \A d \in recorded \ dropped' : stored[d] = 1 \/ \E i \in 1 .. Len(kept) : kept[i] = d
  <2>1. CASE ~full
    BY <1>1, <1>2, <1>4, <2>1 DEF EventInv
  <2>2. CASE full
    <3> SUFFICES ASSUME NEW d \in recorded \ dropped', stored[d] # 1
                 PROVE  \E i \in 1 .. Len(kept) : kept[i] = d
      OBVIOUS
    <3>1. d \in recorded \ dropped /\ d # pending[1]
      BY <1>2, <1>3, <2>2
    <3>2. PICK j \in 1 .. Len(pending) : pending[j] = d
      BY <1>1, <3>1 DEF EventInv
    <3>3. j # 1
      BY <3>1, <3>2
    <3>4. j - 1 \in 1 .. Len(kept) /\ kept[j - 1] = pending[(j - 1) + 1] /\ (j - 1) + 1 = j
      BY <1>1, <1>4, <2>2, <3>3
    <3> QED BY <3>2, <3>4
  <2> QED BY <2>1, <2>2
<1> HIDE DEF full, kept
<1>7. /\ pending' \in Seq(Events) /\ Len(pending') = Len(kept) + 1 /\ Len(kept) \in Nat
      /\ \A i \in 1 .. Len(kept) : pending'[i] = kept[i]
      /\ pending'[Len(kept) + 1] = e
  BY <1>2, <1>4
<1>8. \A i \in 1 .. Len(pending') : i \in 1 .. Len(kept) \/ i = Len(kept) + 1
  BY <1>7
<1>9. /\ dropped' \subseteq recorded' /\ e \notin dropped'
  <2>1. full => Head(pending) \in recorded
    BY <1>1, <1>3 DEF EventInv, full
  <2> QED BY <1>1, <1>2, <2>1 DEF EventInv
<1>10. EventInv'
  <2>1. Len(pending') <= MaxPending /\ stored' \in [Events -> {0, 1}] /\ recorded' \subseteq Events
    BY <1>1, <1>2, <1>4, <1>7 DEF EventInv
  <2>2. \A i, j \in 1 .. Len(pending') : pending'[i] = pending'[j] => i = j
    BY <1>5, <1>7, <1>8
  <2>3. \A i \in 1 .. Len(pending') :
          pending'[i] \in recorded' \ dropped' /\ stored'[pending'[i]] = 0
    BY <1>2, <1>5, <1>7, <1>8, <1>9
  <2>4. \A d \in recorded' \ dropped' :
          stored'[d] = 1 \/ \E i \in 1 .. Len(pending') : pending'[i] = d
    <3> SUFFICES ASSUME NEW d \in recorded' \ dropped', stored[d] # 1
                 PROVE  \E i \in 1 .. Len(pending') : pending'[i] = d
      BY <1>2
    <3>1. CASE d = e
      <4>1. Len(kept) + 1 \in 1 .. Len(pending')
        BY <1>7
      <4> QED BY <1>7, <3>1, <4>1
    <3>2. CASE d # e
      <4>1. PICK i \in 1 .. Len(kept) : kept[i] = d
        BY <1>2, <1>6, <3>2
      <4>2. i \in 1 .. Len(pending') /\ pending'[i] = d
        BY <1>7, <4>1
      <4> QED BY <4>2
    <3> QED BY <3>1, <3>2
  <2> QED BY <1>7, <1>9, <2>1, <2>2, <2>3, <2>4 DEF EventInv
<1>11. TypeOK'
  BY <1>1, <1>2, <1>10 DEF TypeOK, EventInv, series
<1>12. StopInv'
  BY <1>2 DEF HistoryInv, StopInv
<1> QED BY <1>10, <1>11, <1>12 DEF HistoryInv

-----------------------------------------------------------------------------
(* The clock and the ring leave the events and the daemon alone. *)
LEMMA RingStep ==
  ASSUME HistoryInv, Tick \/ SetClock \/ AppendSample \/ Backfill
  PROVE  HistoryInv'
<1>1. UNCHANGED <<stage, active, failed, minute, quarter, lastFlush, flushed, cut, events>>
  BY DEF Tick, SetClock, AppendSample, Backfill, series
<1>2. now' \in Times /\ clockSet' \in BOOLEAN
  <2>1. now \in Times /\ clockSet \in BOOLEAN /\ MaxTime \in Nat
    BY HistoryAssumption DEF HistoryInv, TypeOK, HistoryAssumption
  <2>2. CASE Tick
    BY <2>1, <2>2 DEF Tick, Times
  <2>3. CASE SetClock \/ AppendSample \/ Backfill
    <3>1. now' = now /\ clockSet' \in {TRUE, clockSet}
      BY <2>3 DEF SetClock, AppendSample, Backfill
    <3> QED BY <2>1, <3>1
  <2> QED BY <2>2, <2>3
<1>3. ram' \subseteq Times
  BY DEF Tick, SetClock, AppendSample, Backfill, HistoryInv, TypeOK, Newest, series
<1> QED BY <1>1, <1>2, <1>3 DEF HistoryInv, TypeOK, EventInv, StopInv, events

(* A request comes and goes. *)
LEMMA HandlerStep ==
  ASSUME HistoryInv, NEW h \in Handlers, HandlerBegins(h) \/ HandlerEnds(h)
  PROVE  HistoryInv'
<1>1. UNCHANGED <<now, clockSet, stage, failed, series, events>>
  BY DEF HandlerBegins, HandlerEnds
<1>2. active' \subseteq Workers \cup Handlers
  BY DEF HandlerBegins, HandlerEnds, HistoryInv, TypeOK
<1>3. StopInv'
  BY <1>1 DEF HandlerBegins, HandlerEnds, HistoryInv, StopInv, events
<1> QED BY <1>1, <1>2, <1>3 DEF HistoryInv, TypeOK, EventInv, series, events

(* The daemon on its way down, short of the last flush. *)
LEMMA ShutdownStep ==
  ASSUME HistoryInv, Stop \/ ServeFails \/ ShutdownReturns \/ \E w \in Workers : WorkerEnds(w)
  PROVE  HistoryInv'
<1>1. UNCHANGED <<now, clockSet, failed, series, events>>
  BY DEF Stop, ServeFails, ShutdownReturns, WorkerEnds
<1>2. /\ stage' \in Stages /\ active' \subseteq active
      /\ stage' = "stopped" => stage = "stopped"
      /\ stage' = "waiting" => stage = "waiting" \/ active \cap Handlers = {}
  BY DEF Stop, ServeFails, ShutdownReturns, WorkerEnds, HistoryInv, TypeOK, Stages
<1>3. StopInv'
  BY <1>1, <1>2 DEF HistoryInv, StopInv, events
<1> QED BY <1>1, <1>2, <1>3 DEF HistoryInv, TypeOK, EventInv, series, events

(* The process ends and starts again; the table stays. *)
LEMMA CrashStep ==
  ASSUME HistoryInv, Crash \/ Restart
  PROVE  HistoryInv'
<1>1. CASE Crash
  <2>1. pending' = <<>> /\ recorded' = {} /\ dropped' = {} /\ stored' = stored
    BY <1>1 DEF Crash
  <2>2. EventInv'
    BY <2>1, HistoryAssumption DEF EventInv, HistoryInv, HistoryAssumption
  <2>3. TypeOK'
    BY <1>1, <2>2 DEF Crash, HistoryInv, TypeOK, EventInv, Stages
  <2>4. StopInv'
    BY <1>1 DEF Crash, StopInv
  <2> QED BY <2>2, <2>3, <2>4 DEF HistoryInv
<1>2. CASE Restart
  <2>1. UNCHANGED <<now, clockSet, failed, ram, minute, quarter, flushed, cut, events>>
    BY <1>2 DEF Restart
  <2>2. lastFlush' \in Int
    <3>1. \A m \in Minutes : m * Minute \in Int
      BY HistoryAssumption DEF Minutes, HistoryAssumption
    <3> QED BY <1>2, <3>1 DEF Restart, Unset
  <2>3. stage' = "up" /\ active' = Workers
    BY <1>2 DEF Restart
  <2> QED BY <2>1, <2>2, <2>3 DEF HistoryInv, TypeOK, EventInv, StopInv, Stages, events
<1> QED BY <1>1, <1>2

-----------------------------------------------------------------------------
(* The smallest of a finite set, and what dropping the oldest samples does. *)
LEMMA MinOf ==
  ASSUME NEW S \in SUBSET Int, S # {}, IsFiniteSet(S)
  PROVE  Min(S) \in S /\ \A t \in S : Min(S) <= t
<1> DEFINE upTo(t) == {u \in S : u <= t}
           initial == {upTo(t) : t \in S}
<1>1. initial \subseteq FiniteSubsetsOf(S)
  BY FS_Subset DEF FiniteSubsetsOf
<1>2. PICK low \in initial : \A lower \in initial : ~ (<<lower, low>> \in StrictSubsetOrdering(S))
  <2>1. initial # {}
    OBVIOUS
  <2> HIDE DEF initial
  <2> QED BY <1>1, <2>1, FS_StrictSubsetOrderingWellFounded, WFMin
<1>3. PICK x \in S : low = upTo(x)
  BY <1>2
<1>4. \A y \in S : x <= y
  <2> SUFFICES ASSUME NEW y \in S, y < x PROVE FALSE
    OBVIOUS
  <2>1. ASSUME NEW u \in S, u <= y PROVE u <= x
    <3> x \in Int /\ y \in Int /\ u \in Int
      OBVIOUS
    <3> QED BY <2>1
  <2>2. upTo(y) \subseteq upTo(x)
    BY <2>1
  <2>3. x \in upTo(x) /\ x \notin upTo(y)
    <3> x \in Int /\ y \in Int
      OBVIOUS
    <3> QED OBVIOUS
  <2>4. <<upTo(y), upTo(x)>> \in StrictSubsetOrdering(S)
    <3> HIDE DEF upTo
    <3>1. upTo(x) \in SUBSET S /\ upTo(y) \in SUBSET S
      BY DEF upTo
    <3> QED BY <2>2, <2>3, <3>1 DEF StrictSubsetOrdering
  <2> QED BY <1>2, <1>3, <2>4
<1> QED BY <1>4 DEF Min

(* What the ring drops is older than all it keeps. *)
LEMMA NewestRemains ==
  ASSUME NEW n \in Nat, NEW S \in SUBSET Int, IsFiniteSet(S)
  PROVE  /\ Newest(n, S) \subseteq S
         /\ \A t \in S \ Newest(n, S) : \A u \in Newest(n, S) : t < u
<1> SUFFICES ASSUME NEW t \in S \ Newest(n, S), NEW u \in Newest(n, S), u <= t
             PROVE  FALSE
  BY DEF Newest
<1> DEFINE Above(x) == {v \in S : v > x}
<1>1. IsFiniteSet(Above(t)) /\ IsFiniteSet(Above(u))
  BY FS_Subset
<1>2. Above(t) \subseteq Above(u)
  <2> SUFFICES ASSUME NEW v \in S, v > t PROVE v > u
    OBVIOUS
  <2> v \in Int /\ t \in Int /\ u \in Int
    BY DEF Newest
  <2> QED OBVIOUS
<1>3. Cardinality(Above(t)) <= Cardinality(Above(u)) /\ Cardinality(Above(t)) \in Nat /\ Cardinality(Above(u)) \in Nat
  BY <1>1, <1>2, FS_Subset, FS_CardinalityType
<1>4. Cardinality(Above(u)) < n /\ ~(Cardinality(Above(t)) < n)
  BY DEF Newest
<1> QED BY <1>3, <1>4

(* Minutes are in the order of their samples. *)
LEMMA MinuteOfMonotone ==
  ASSUME NEW t \in Int, NEW u \in Int, t <= u
  PROVE  MinuteOf(t) \in Int /\ MinuteOf(u) \in Int /\ MinuteOf(t) <= MinuteOf(u)
BY HistoryAssumption DEF MinuteOf, HistoryAssumption

(* A sample is not older than its minute. *)
LEMMA MinuteBegins ==
  ASSUME NEW t \in Nat
  PROVE  MinuteOf(t) * Minute <= t /\ MinuteOf(t) * Minute \in Int
BY HistoryAssumption DEF MinuteOf, HistoryAssumption

(* A quarter begins no later than the minute that has the sample. *)
LEMMA QuarterOfMinute ==
  ASSUME NEW t \in Nat, NEW u \in Nat, t <= u
  PROVE  QuarterOf(t) <= QuarterOf(MinuteOf(u) * Minute)
<1> DEFINE k == Quarter \div Minute
           j == QuarterOf(t)
           m == MinuteOf(u)
<1> USE HistoryAssumption DEF HistoryAssumption
<1>1. k \in Nat /\ Quarter = k * Minute /\ Minute \in Nat \ {0} /\ Quarter \in Nat \ {0}
  OBVIOUS
<1>2. j \in Nat /\ j * Quarter <= t
  BY DEF QuarterOf
<1>3. m \in Nat /\ u < m * Minute + Minute /\ m * Minute \in Nat
  BY DEF MinuteOf
<1> HIDE DEF k, j, m
<1> HIDE HistoryAssumption DEF HistoryAssumption
<1>4. (j * k) * Minute < (m + 1) * Minute
  <2>1. j * Quarter = (j * k) * Minute
    BY <1>1, <1>2
  <2>2. m * Minute + Minute = (m + 1) * Minute
    BY <1>1, <1>3
  <2> QED BY <1>1, <1>2, <1>3, <2>1, <2>2
<1>5. j * k <= m
  <2>1. j * k \in Nat
    BY <1>1, <1>2
  <2>2. ASSUME j * k >= m + 1 PROVE FALSE
    <3>1. (j * k) * Minute >= (m + 1) * Minute
      BY <1>1, <1>3, <2>1, <2>2
    <3> QED BY <1>1, <1>3, <1>4, <2>1, <3>1
  <2> QED BY <1>3, <2>1, <2>2
<1>6. j * Quarter <= m * Minute
  <2>1. j * k \in Nat
    BY <1>1, <1>2
  <2>2. (j * k) * Minute <= m * Minute
    BY <1>1, <1>3, <1>5, <2>1
  <2> QED BY <1>1, <1>2, <2>2
<1>7. j <= (m * Minute) \div Quarter
  BY <1>1, <1>2, <1>3, <1>6
<1> QED BY <1>7 DEF QuarterOf, j, m

(* New samples are newer than the ring's, and reach back to its end or so  *)
(* far that no row has an earlier one among them.                          *)
LEMMA SamplesAdded ==
  ASSUME TypeOK, SamplesInv, NEW new \in SUBSET Times,
         \A t \in new : t <= now /\ \A u \in ram : u < t,
         ram = {} => \A t \in Times : t <= now => t \in new \/ \A u \in new : t < u,
         ram' = Newest(RAMTicks, ram \cup new),
         UNCHANGED <<now, minute, flushed>>
  PROVE  SamplesInv'
<1> DEFINE all == ram \cup new
<1>1. all \in SUBSET Times /\ all \in SUBSET Int /\ IsFiniteSet(all) /\ RAMTicks \in Nat
  <2>1. all \in SUBSET Times /\ MaxTime \in Nat
    BY HistoryAssumption DEF TypeOK, HistoryAssumption
  <2>2. IsFiniteSet(Times) /\ Times \subseteq Int
    BY <2>1, FS_Interval DEF Times
  <2> QED BY <2>1, <2>2, FS_Subset, HistoryAssumption DEF HistoryAssumption
<1>2. ram' \subseteq all /\ \A t \in all \ ram' : \A u \in ram' : t < u
  <2> HIDE DEF all
  <2>1. ram' = Newest(RAMTicks, all)
    BY DEF all
  <2> QED BY <1>1, <2>1, NewestRemains
<1>3. \A t \in ram' : t <= now'
  BY <1>2 DEF SamplesInv
<1>4. ASSUME NEW m \in Minutes, NEW t \in flushed[m]
      PROVE  t \in ram' \/ \A u \in ram' : t < u
  <2>1. t \in Times /\ t <= now /\ (t \in ram \/ \A u \in ram : t < u)
    BY DEF TypeOK, SamplesInv
  <2>2. t \in all \/ \A u \in all : t < u
    <3>1. CASE ram = {}
      BY <2>1, <3>1
    <3>2. CASE ram # {}
      <4>1. PICK low \in ram : TRUE
        BY <3>2
      <4>2. CASE t \in ram
        BY <4>2
      <4>3. CASE \A u \in ram : t < u
        <5>1. ASSUME NEW u \in new PROVE t < u
          <6>1. t < low /\ low < u /\ t \in Int /\ low \in Int /\ u \in Int
            BY <1>1, <2>1, <4>1, <4>3 DEF Times
          <6> QED BY <6>1
        <5> QED BY <4>3, <5>1
      <4> QED BY <2>1, <4>2, <4>3
    <3> QED BY <3>1, <3>2
  <2> HIDE DEF all
  <2> QED BY <1>2, <2>2
<1> QED BY <1>3, <1>4 DEF SamplesInv

LEMMA RingKeepsRows ==
  ASSUME TypeOK, RowsInv, Tick \/ SetClock \/ AppendSample \/ Backfill
  PROVE  RowsInv'
<1>1. RowsAreComplete'
  <2>1. UNCHANGED <<minute, quarter, flushed, cut>>
    BY DEF Tick, SetClock, AppendSample, Backfill, series
  <2> QED BY <2>1 DEF RowsInv, RowsAreComplete
<1>2. now \in Int /\ \A t \in Times : t \in Int
  BY DEF TypeOK, Times
<1>3. CASE Tick \/ SetClock
  <2>1. UNCHANGED <<ram, minute, flushed>> /\ now' \in {now, now + 1}
    BY <1>3 DEF Tick, SetClock, series
  <2>2. \A t \in Times : t <= now => t <= now'
    BY <1>2, <2>1
  <2>3. ram \subseteq Times /\ \A m \in Minutes : flushed[m] \subseteq Times
    BY DEF TypeOK
  <2>4. SamplesInv'
    BY <2>1, <2>2, <2>3 DEF RowsInv, SamplesInv
  <2> QED BY <1>1, <2>4 DEF RowsInv
<1>4. CASE AppendSample
  <2>1. now \notin ram /\ ram' = Newest(RAMTicks, ram \cup {now}) /\ UNCHANGED <<now, minute, flushed>>
    BY <1>4 DEF AppendSample
  <2>2. \A u \in ram : u < now
    BY <1>2, <2>1 DEF TypeOK, RowsInv, SamplesInv
  <2>3. \A t \in Times : t <= now => t \in {now} \/ \A u \in {now} : t < u
    BY <1>2
  <2>4. {now} \in SUBSET Times /\ \A t \in {now} : t <= now /\ \A u \in ram : u < t
    BY <1>2, <2>2 DEF TypeOK
  <2>5. SamplesInv'
    BY <2>1, <2>3, <2>4, SamplesAdded DEF RowsInv
  <2> QED BY <1>1, <2>5 DEF RowsInv
<1>5. CASE Backfill
  <2> DEFINE new == {t \in Times : t <= now /\ now - t < Backfilled /\ \A u \in ram : t > u}
  <2>1. ram' = Newest(RAMTicks, ram \cup new) /\ UNCHANGED <<now, minute, flushed>>
    BY <1>5 DEF Backfill
  <2>2. ASSUME ram = {}, NEW t \in Times, t <= now, t \notin new, NEW u \in new
        PROVE  t < u
    <3>1. ~(now - t < Backfilled) /\ now - u < Backfilled /\ u \in Times
      BY <2>2
    <3>2. Backfilled \in Int
      BY HistoryAssumption DEF HistoryAssumption
    <3> QED BY <1>2, <3>1, <3>2
  <2>3. new \in SUBSET Times /\ \A t \in new : t <= now /\ \A u \in ram : u < t
    BY <1>2 DEF TypeOK
  <2>4. ram = {} => \A t \in Times : t <= now => t \in new \/ \A u \in new : t < u
    BY <2>2
  <2> HIDE DEF new
  <2>5. SamplesInv'
    BY <2>1, <2>3, <2>4, SamplesAdded DEF RowsInv
  <2> QED BY <1>1, <2>5 DEF RowsInv
<1> QED BY <1>3, <1>4, <1>5

(* A flush that touches a minute and is not cut has all its samples.  Of a *)
(* quarter that it does not rebuild, it touches no minute.                 *)
LEMMA FlushKeepsRows ==
  ASSUME TypeOK, RowsInv, Rows, now' = now
  PROVE  RowsInv'
<1> DEFINE points == {t \in ram : t >= Since}
           touched == {MinuteOf(t) : t \in points}
           written == [m \in Minutes |->
                         IF m \in touched THEN {t \in points : MinuteOf(t) = m} ELSE minute[m]]
           rebuilt == IF touched = {} THEN {} ELSE {q \in Quarters : q >= QuarterOf(Min(points))}
<1>1. /\ \A m \in Minutes : minute'[m] = IF m * Minute < now - MinuteRetention THEN {} ELSE written[m]
      /\ \A q \in Quarters : quarter'[q] =
           IF q * Quarter < now - QuarterRetention THEN {}
           ELSE IF q \in rebuilt /\ \E m \in MinutesOf(q) : written[m] # {}
                THEN UNION {written[m] : m \in MinutesOf(q)} ELSE quarter[q]
      /\ \A m \in Minutes : flushed'[m] = flushed[m] \cup written[m]
      /\ cut' = cut \cup Interrupted /\ ram' = ram
  BY DEF Rows
<1>2. /\ \A m \in touched \cap Minutes : written[m] = {t \in points : MinuteOf(t) = m}
      /\ \A m \in Minutes \ touched : written[m] = minute[m]
  OBVIOUS
<1>3. points \subseteq ram /\ ram \subseteq Times /\ \A t \in Times : t \in Int /\ t \in Nat
  BY DEF TypeOK, Times
<1>4. points \in SUBSET Int /\ IsFiniteSet(points) /\ ram \in SUBSET Int /\ IsFiniteSet(ram)
  <2>1. IsFiniteSet(Times)
    BY FS_Interval, HistoryAssumption DEF Times, HistoryAssumption
  <2> QED BY <1>3, <2>1, FS_Subset
<1>5. Since \in Int /\ (lastFlush = Unset => Since = 0)
  BY HistoryAssumption DEF Since, TypeOK, HistoryAssumption
<1>6. \A m \in touched : \E u \in points : MinuteOf(u) = m
  OBVIOUS
<1>7. \A t \in points : t >= Since /\ MinuteOf(t) \in touched
  OBVIOUS
<1>8. touched = {} <=> points = {}
  OBVIOUS
<1>9. \A t \in ram : t >= Since => t \in points
  OBVIOUS
<1> HIDE DEF points, touched, written
<1>10. ASSUME NEW m \in Minutes, NEW t \in written[m]
       PROVE  /\ MinuteOf(t) = m /\ t <= now
              /\ t \in ram \/ \A u \in ram : t < u
  <2>1. CASE m \in touched
    BY <1>2, <1>3, <2>1 DEF RowsInv, SamplesInv
  <2>2. CASE m \notin touched
    BY <1>2, <2>2 DEF RowsInv, SamplesInv
  <2> QED BY <2>1, <2>2
<1>11. SamplesInv'
  <2>1. \A m \in Minutes : minute'[m] \subseteq flushed'[m]
    BY <1>1
  <2> QED BY <1>1, <1>10, <2>1 DEF RowsInv, SamplesInv
<1>12. ASSUME NEW m \in Minutes \ cut', m \in touched, NEW t \in flushed[m]
       PROVE  t \in written[m]
  <2>1. PICK u \in points : MinuteOf(u) = m
    BY <1>6, <1>12
  <2>2. MinuteOf(t) = m /\ t \in Times /\ (t \in ram \/ \A v \in ram : t < v)
    BY DEF RowsInv, SamplesInv, TypeOK
  <2>0. m * Minute <= t /\ m * Minute \in Int
    BY <1>3, <2>2, MinuteBegins
  <2>3. u \in ram /\ u \in Int /\ t \in Int /\ u >= Since
    BY <1>3, <1>7, <2>1, <2>2
  <2>4. m \notin Interrupted
    BY <1>1, <1>12
  <2>5. t \in ram
    <3> SUFFICES ASSUME \A v \in ram : t < v PROVE FALSE
      BY <2>2
    <3>1. Min(ram) \in ram /\ Min(ram) <= u /\ ram # {}
      BY <1>4, <2>3, MinOf
    <3>2. t <= Min(ram) /\ Min(ram) \in Int
      <4>1. t < Min(ram) /\ Min(ram) \in Int
        BY <1>4, <3>1
      <4> QED BY <2>3, <4>1
    <3>3. MinuteOf(Min(ram)) = m
      <4>1. m <= MinuteOf(Min(ram)) /\ MinuteOf(Min(ram)) <= m
        BY <2>1, <2>2, <2>3, <3>1, <3>2, MinuteOfMonotone
      <4>2. m \in Int /\ MinuteOf(Min(ram)) \in Int
        BY <2>1, <2>3, <3>1, <3>2, MinuteOfMonotone
      <4> QED BY <4>1, <4>2
    <3>4. m * Minute < Min(ram)
      BY <2>0, <2>2, <2>3, <3>1, <3>2
    <3> QED BY <2>4, <3>1, <3>3, <3>4 DEF Interrupted
  <2>6. t >= Since
    <3> SUFFICES ASSUME t < Since PROVE FALSE
      BY <1>5, <2>3
    <3>1. lastFlush # Unset
      BY <1>3, <1>5, <2>2
    <3>2. MinuteOf(Since) = m
      <4>1. m <= MinuteOf(Since) /\ MinuteOf(Since) <= m
        BY <1>5, <2>1, <2>2, <2>3, MinuteOfMonotone
      <4>2. m \in Int /\ MinuteOf(Since) \in Int
        BY <1>5, <2>1, <2>3, MinuteOfMonotone
      <4> QED BY <4>1, <4>2
    <3>3. m * Minute < Since
      BY <1>5, <2>0, <2>3
    <3> QED BY <2>4, <3>1, <3>2, <3>3 DEF Interrupted, Since
  <2> QED BY <1>2, <1>9, <1>12, <2>2, <2>5, <2>6
<1>13. ASSUME NEW m \in Minutes \ cut', minute'[m] # {}
       PROVE  minute'[m] = flushed'[m]
  <2>1. minute'[m] = written[m] /\ flushed'[m] = flushed[m] \cup written[m]
    BY <1>1, <1>13
  <2>2. CASE m \in touched
    BY <1>12, <2>1, <2>2
  <2>3. CASE m \notin touched
    <3>1. m \notin cut /\ written[m] = minute[m] /\ minute[m] # {}
      BY <1>1, <1>2, <1>13, <2>1, <2>3
    <3> QED BY <2>1, <3>1 DEF RowsInv, RowsAreComplete
  <2> QED BY <2>2, <2>3
<1>14. ASSUME NEW q \in Quarters, NEW m \in MinutesOf(q), q \notin rebuilt
       PROVE  m \notin touched
  <2> SUFFICES ASSUME m \in touched PROVE FALSE
    OBVIOUS
  <2>1. PICK u \in points : MinuteOf(u) = m
    BY <1>6
  <2>2. Min(points) \in points /\ Min(points) <= u /\ u \in Nat /\ Min(points) \in Nat
    BY <1>3, <1>4, <2>1, MinOf
  <2>3. QuarterOf(Min(points)) <= QuarterOf(m * Minute)
    BY <2>1, <2>2, QuarterOfMinute
  <2>4. QuarterOf(m * Minute) = q
    BY DEF MinutesOf
  <2>5. QuarterOf(Min(points)) \in Int /\ q \in Int
    BY <2>2, HistoryAssumption DEF QuarterOf, Quarters, HistoryAssumption
  <2>6. q >= QuarterOf(Min(points)) /\ touched # {}
    BY <1>7, <2>1, <2>3, <2>4, <2>5
  <2> QED BY <1>14, <2>6
<1>15. ASSUME NEW q \in Quarters, NEW m \in MinutesOf(q), quarter'[q] # {}
       PROVE  minute'[m] \subseteq quarter'[q]
  <2> HIDE DEF rebuilt
  <2>1. m \in Minutes
    BY DEF MinutesOf
  <2>2. minute'[m] \subseteq written[m]
    BY <1>1, <2>1
  <2>3. CASE q \in rebuilt /\ \E k \in MinutesOf(q) : written[k] # {}
    <3>1. quarter'[q] = UNION {written[k] : k \in MinutesOf(q)}
      BY <1>1, <1>15, <2>3
    <3> QED BY <2>2, <3>1
  <2>4. CASE q \in rebuilt /\ \A k \in MinutesOf(q) : written[k] = {}
    BY <2>2, <2>4
  <2>5. CASE q \notin rebuilt
    <3>1. written[m] = minute[m] /\ quarter'[q] = quarter[q]
      BY <1>1, <1>2, <1>14, <1>15, <2>1, <2>5
    <3> QED BY <1>15, <2>1, <2>2, <3>1 DEF RowsInv, RowsAreComplete
  <2> QED BY <2>3, <2>4, <2>5
<1>16. RowsAreComplete'
  BY <1>13, <1>15 DEF RowsAreComplete
<1> QED BY <1>11, <1>16 DEF RowsInv

(* A crash takes the samples, never the rows; nothing else touches either. *)
LEMMA RestKeepsRows ==
  ASSUME TypeOK, RowsInv, UNCHANGED <<now, minute, quarter, flushed, cut>>, ram' \in {ram, {}}
  PROVE  RowsInv'
BY DEF RowsInv, SamplesInv, RowsAreComplete

LEMMA RowsStep ==
  ASSUME TypeOK, RowsInv, [Next]_vars
  PROVE  RowsInv'
<1>1. CASE Tick \/ SetClock \/ AppendSample \/ Backfill
  BY <1>1, RingKeepsRows
<1>2. CASE (PeriodicFlush \/ FinalFlush) /\ Flush
  <2>1. Rows /\ now' = now
    BY <1>2 DEF PeriodicFlush, FinalFlush, LastFlush, Flush
  <2> QED BY <2>1, FlushKeepsRows
<1>3. CASE (PeriodicFlush \/ FinalFlush) /\ ~Flush
  <2>1. UNCHANGED <<now, series>>
    BY <1>3 DEF PeriodicFlush, FinalFlush, LastFlush, FlushSkipped, FlushFails
  <2> QED BY <2>1, RestKeepsRows DEF series
<1>4. CASE \/ \E p \in Workers \cup Handlers, e \in Events : AddEvent(p, e)
           \/ \E h \in Handlers : HandlerBegins(h) \/ HandlerEnds(h)
           \/ Stop \/ ServeFails \/ ShutdownReturns \/ (\E w \in Workers : WorkerEnds(w))
           \/ UNCHANGED vars
  <2>1. UNCHANGED <<now, series>>
    BY <1>4 DEF AddEvent, HandlerBegins, HandlerEnds, Stop, ServeFails, ShutdownReturns,
                WorkerEnds, vars
  <2> QED BY <2>1, RestKeepsRows DEF series
<1>5. CASE Crash \/ Restart
  <2>1. UNCHANGED <<now, minute, quarter, flushed, cut>> /\ ram' \in {ram, {}}
    BY <1>5 DEF Crash, Restart
  <2> QED BY <2>1, RestKeepsRows
<1> QED BY <1>1, <1>2, <1>3, <1>4, <1>5 DEF Next, Shutdown

-----------------------------------------------------------------------------
LEMMA HistorySafe == Spec => []HistoryInv
<1>1. Init => HistoryInv
  <2> SUFFICES ASSUME Init PROVE HistoryInv
    OBVIOUS
  <2> USE HistoryAssumption DEF Init, HistoryAssumption
  <2>1. EventInv
    BY DEF EventInv
  <2>2. TypeOK
    BY <2>1 DEF TypeOK, EventInv, Times, Unset, Stages
  <2>3. StopInv
    BY DEF StopInv
  <2> QED BY <2>1, <2>2, <2>3 DEF HistoryInv
<1>2. HistoryInv /\ [Next]_vars => HistoryInv'
  <2> SUFFICES ASSUME HistoryInv, [Next]_vars PROVE HistoryInv'
    OBVIOUS
  <2>1. CASE UNCHANGED vars
    BY <2>1 DEF vars, series, events, HistoryInv, TypeOK, EventInv, StopInv
  <2> QED BY <2>1, RingStep, FlushesStep, AddEventStep, HandlerStep, ShutdownStep, CrashStep
          DEF Next, Shutdown
<1> QED BY <1>1, <1>2, PTL DEF Spec

(* The clock, the rows, the events and the stages have their types. *)
THEOREM HistoryTypes == Spec => []TypeOK
BY HistorySafe, PTL DEF HistoryInv

(* An event recorded and not dropped is pending or in the table, and only  *)
(* once, whatever flushes failed and wherever the process died.            *)
THEOREM EventsKeptOnce == Spec => []EventsOnce
<1>1. HistoryInv => EventsOnce
  <2> SUFFICES ASSUME HistoryInv, NEW e \in Events
               PROVE  /\ stored[e] + Pendings(e) <= 1
                      /\ e \in recorded \ dropped => stored[e] + Pendings(e) = 1
    BY DEF HistoryInv, TypeOK, EventsOnce
  <2>1. EventInv /\ Inserted[e] = stored[e] + Pendings(e)
    BY DEF HistoryInv, Inserted
  <2> QED BY <2>1, InsertedAll
<1> QED BY <1>1, HistorySafe, PTL

(* A stop that reports no error has every event in the table. *)
THEOREM StopSavesAll == Spec => []CleanStopSavesAll
<1>1. HistoryInv => CleanStopSavesAll
  BY DEF HistoryInv, EventInv, StopInv, CleanStopSavesAll
<1> QED BY <1>1, HistorySafe, PTL

(* A minute's row keeps every sample it ever had, unless a flush cut the   *)
(* minute, and a quarter has all samples of its minutes: for any lengths,  *)
(* ring and retention, whatever flushes fail and wherever the process dies. *)
THEOREM RowsKeepSamples == Spec => []RowsAreComplete
<1>1. Init => RowsInv
  BY DEF Init, RowsInv, SamplesInv, RowsAreComplete, MinutesOf
<1>2. TypeOK /\ RowsInv /\ [Next]_vars => RowsInv'
  BY RowsStep
<1>3. RowsInv => RowsAreComplete
  BY DEF RowsInv
<1> QED BY <1>1, <1>2, <1>3, HistoryTypes, PTL DEF Spec
=============================================================================

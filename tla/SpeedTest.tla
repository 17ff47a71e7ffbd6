------------------------------ MODULE SpeedTest ------------------------------
(***************************************************************************)
(* The dish's speed test (internal/dish/speedtest.go): the API handlers    *)
(* that ask for one (internal/api/speedtest.go), the goroutine that polls  *)
(* the dish until it has a result, and the daemon's stop, which cancels    *)
(* the goroutine's context and waits for it before the last flush of the   *)
(* history (cmd/starwatchd/main.go).                                       *)
(***************************************************************************)
EXTENDS Naturals, Sequences, SequencesExt

CONSTANTS
  Askers,    \* API requests that can be in progress at once
  Attempts,  \* calls a Start makes, and refusals a poll accepts
  MaxTests   \* bound on the tests the dish begins

ASSUME SpeedTestAssumption == Attempts \in Nat \ {0} /\ MaxTests \in Nat

VARIABLES
  up,        \* whether the dish can be reached
  begun,     \* the tests the dish has begun; a test is its number
  active,    \* whether the dish runs the last of them
  stage,     \* "up", "cancelled" (runCtx), "waited" (Wait has returned)
  state,     \* SpeedtestManager.state.State
  latest,    \* SpeedtestManager.state.Latest, 0: nil
  asker,     \* where each Start is, and the calls it has made
  worker,    \* where the goroutine of each Start is, and its refusals
  recorded,  \* the tests given to Store.AddSpeedtest, in their order
  published  \* the tests of the events speedtest_completed

dish == <<up, begun, active>>
outputs == <<latest, recorded, published>>
speedTestVars == <<dish, stage, state, asker, worker, outputs>>

NotAsking == [at |-> "idle", calls |-> 0]
Ended == [at |-> "ended", refused |-> 0, result |-> 0]
Polls == [at |-> "polling", refused |-> 0, result |-> 0]

SpeedTestInit ==
  /\ up \in BOOLEAN /\ begun = 0 /\ active = FALSE
  /\ stage = "up" /\ state = "idle"
  /\ asker = [r \in Askers |-> NotAsking] /\ worker = [r \in Askers |-> Ended]
  /\ latest = 0 /\ recorded = <<>> /\ published = {}

-----------------------------------------------------------------------------
(* The dish (external).  A test begins, unless one runs, and the dish goes  *)
(* on answering with it until another begins.                              *)
DishChanges ==
  /\ \/ up' = ~up /\ UNCHANGED active
     \/ active /\ active' = FALSE /\ UNCHANGED up
  /\ UNCHANGED <<begun, stage, state, asker, worker, outputs>>

TestBegins ==
  /\ up
  /\ \/ active /\ UNCHANGED dish
     \/ ~active /\ begun < MaxTests /\ begun' = begun + 1 /\ active' = TRUE /\ UNCHANGED up

-----------------------------------------------------------------------------
(* Start: one test at a time, by the state alone. *)
AllowedAlways == TRUE
Allowed == state # "running"
Start(r) ==
  /\ stage = "up" /\ asker[r] = NotAsking /\ worker[r] = Ended
  /\ Allowed
  /\ state' = "running"
  /\ asker' = [asker EXCEPT ![r] = [at |-> "calling", calls |-> 1]]
  /\ UNCHANGED <<dish, stage, worker, outputs>>

StartAccepted(r) ==
  /\ asker[r].at = "calling"
  /\ TestBegins
  /\ asker' = [asker EXCEPT ![r] = NotAsking]
  /\ worker' = [worker EXCEPT ![r] = Polls]
  /\ UNCHANGED <<stage, state, outputs>>

Returns(r, outcome) ==
  /\ asker' = [asker EXCEPT ![r] = NotAsking]
  /\ state' = outcome

CallFailsSilently(r) ==
  /\ asker[r].at = "calling"
  /\ asker' = [asker EXCEPT ![r] =
       IF @.calls < Attempts THEN [@ EXCEPT !.at = "pausing"] ELSE NotAsking]
  /\ UNCHANGED <<dish, stage, state, worker, outputs>>

(* A call fails; the dish may have begun the test and its answer be lost.   *)
(* Unsupported and Unavailable are worth another call, any other error     *)
(* ends the Start.                                                         *)
CallFails(r) ==
  /\ asker[r].at = "calling"
  /\ UNCHANGED dish \/ TestBegins
  /\ \/ /\ asker[r].calls < Attempts
        /\ asker' = [asker EXCEPT ![r].at = "pausing"]
        /\ UNCHANGED state
     \/ asker[r].calls = Attempts /\ Returns(r, "unsupported")
     \/ Returns(r, "error")
  /\ UNCHANGED <<stage, worker, outputs>>

CallsAgain(r) ==
  /\ asker[r].at = "pausing"
  /\ asker' = [asker EXCEPT ![r] = [at |-> "calling", calls |-> @.calls + 1]]
  /\ UNCHANGED <<dish, stage, state, worker, outputs>>

GivesUpSilently(r) ==
  /\ asker[r].at = "pausing"
  /\ asker' = [asker EXCEPT ![r] = NotAsking]
  /\ UNCHANGED <<dish, stage, state, worker, outputs>>

(* The client is gone while the Start waits for its next call. *)
GivesUp(r) ==
  /\ asker[r].at = "pausing"
  /\ Returns(r, "error")
  /\ UNCHANGED <<dish, stage, worker, outputs>>

-----------------------------------------------------------------------------
(* The goroutine, until runCtx ends. *)
Done == stage # "up"

WorkerEnds(r, outcome) ==
  /\ worker' = [worker EXCEPT ![r] = Ended]
  /\ state' = outcome
  /\ UNCHANGED <<dish, stage, asker, outputs>>

Cancelled(r) == worker[r].at = "polling" /\ Done /\ WorkerEnds(r, "error")

(* One poll.  With its context cancelled the call fails; an answer          *)
(* Unavailable changes nothing.  Refusals count until an answer comes.     *)
Refused(r) ==
  /\ worker[r].at = "polling" /\ up /\ ~Done
  /\ IF worker[r].refused + 1 >= Attempts THEN WorkerEnds(r, "unsupported")
     ELSE /\ worker' = [worker EXCEPT ![r].refused = @ + 1]
          /\ UNCHANGED <<dish, stage, state, asker, outputs>>

PollFails(r) == worker[r].at = "polling" /\ WorkerEnds(r, "error")

Answered(r) ==
  /\ worker[r].at = "polling" /\ up /\ ~Done
  /\ worker' = [worker EXCEPT ![r] =
       IF active THEN Polls ELSE [at |-> "recording", refused |-> 0, result |-> begun]]
  /\ UNCHANGED <<dish, stage, state, asker, outputs>>

Poll(r) == Refused(r) \/ PollFails(r) \/ Answered(r)

(* The result goes to the history, into the snapshot, and to the clients. *)
Record(r) ==
  /\ worker[r].at = "recording"
  /\ recorded' = Append(recorded, worker[r].result)
  /\ worker' = [worker EXCEPT ![r].at = "showing"]
  /\ UNCHANGED <<dish, stage, state, asker, latest, published>>

Show(r) ==
  /\ worker[r].at = "showing"
  /\ latest' = worker[r].result /\ state' = "done"
  /\ worker' = [worker EXCEPT ![r].at = "publishing"]
  /\ UNCHANGED <<dish, stage, asker, recorded, published>>

Publish(r) ==
  /\ worker[r].at = "publishing"
  /\ published' = published \cup {worker[r].result}
  /\ worker' = [worker EXCEPT ![r] = Ended]
  /\ UNCHANGED <<dish, stage, state, asker, latest, recorded>>

Finishes(r) == Record(r) \/ Show(r) \/ Publish(r)

-----------------------------------------------------------------------------
(* The daemon stops: it cancels runCtx, gives the handlers three seconds,   *)
(* and waits for the goroutines, but not for a handler that is late.       *)
Cancel ==
  /\ stage = "up" /\ stage' = "cancelled"
  /\ UNCHANGED <<dish, state, asker, worker, outputs>>
WaitForNobody ==
  /\ stage = "cancelled" /\ stage' = "waited"
  /\ UNCHANGED <<dish, state, asker, worker, outputs>>
Wait ==
  /\ stage = "cancelled" /\ stage' = "waited"
  /\ \A r \in Askers : worker[r] = Ended
  /\ UNCHANGED <<dish, state, asker, worker, outputs>>

StartGoesOn(r) == StartAccepted(r) \/ CallFails(r) \/ CallsAgain(r) \/ GivesUp(r)
SpeedTestNext ==
  \/ DishChanges \/ Cancel \/ Wait
  \/ \E r \in Askers : Start(r) \/ StartGoesOn(r) \/ Cancelled(r) \/ Poll(r) \/ Finishes(r)

(* A goroutine that can go on does; a poll has a deadline of two seconds.   *)
(* That the dish answers it is assumed while the dish can be reached, and   *)
(* that its tests end.  The call that starts a test has only the request's *)
(* context and no deadline: it is assumed that a dish that is there answers *)
(* it and that its connection breaks when the dish is gone.                *)
SpeedTestFairness ==
  /\ WF_speedTestVars(DishChanges /\ active /\ ~active') /\ WF_speedTestVars(Wait)
  /\ \A r \in Askers :
       /\ WF_speedTestVars(StartGoesOn(r)) /\ WF_speedTestVars(Cancelled(r)) /\ WF_speedTestVars(Finishes(r))
       /\ WF_speedTestVars(up /\ (Refused(r) \/ Answered(r)))

SpeedTestSpec == SpeedTestInit /\ [][SpeedTestNext]_speedTestVars /\ SpeedTestFairness

-----------------------------------------------------------------------------
(* A test that is shown as running has exactly one owner, the Start that    *)
(* asks for it or the goroutine that polls it, and no other test has one:   *)
(* whatever fails, the state never stays "running" with nobody to end it.  *)
Owns(r) == asker[r].at # "idle" \/ worker[r].at \in {"polling", "recording", "showing"}
OneTest ==
  /\ \A r, s \in Askers : Owns(r) /\ Owns(s) => r = s
  /\ state = "running" <=> \E r \in Askers : Owns(r)

(* A test of the dish is recorded once, in the order of the tests, though   *)
(* answers to a Start are lost and another begins it again; and a client    *)
(* that is told of a result and asks for it is shown that one or a later.  *)
ResultsOnce ==
  /\ \A i, j \in DOMAIN recorded : i < j => recorded[i] < recorded[j]
  /\ \A t \in published : t <= latest /\ t \in ToSet(recorded)

(* Nothing is recorded once the daemon has waited for the goroutines, even  *)
(* if a late handler starts another one: the last flush is complete.       *)
NothingAfterWait == [][stage = "waited" => UNCHANGED recorded]_speedTestVars

(* A test ends if the dish stays reachable from some time on, and the       *)
(* daemon's stop is never held up by one, reachable dish or not.            *)
TestEnds ==
  /\ <>[]up => [](state = "running" => <>(state # "running"))
  /\ stage = "cancelled" ~> stage = "waited"
=============================================================================

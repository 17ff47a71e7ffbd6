------------------------------ MODULE EventFeed ------------------------------
(***************************************************************************)
(* What the live feed promises a client, whatever the buffers and the      *)
(* scheduling (internal/event/bus.go, GET /api/ws): from the moment it     *)
(* joins, a client hears every event published, in order and without a     *)
(* gap, until its feed ends; and a feed that ended stays silent.           *)
(* EventBus implements this specification.                                 *)
(***************************************************************************)
EXTENDS Integers, Sequences

CONSTANTS Clients

VARIABLES
  published,  \* number of events published so far; they are called 1, 2, ...
  joined,     \* what had been published when each client joined
  heard,      \* the events each client heard
  over        \* the clients whose feed ended

vars == <<published, joined, heard, over>>

Never == -1

Init ==
  /\ published = 0
  /\ joined = [c \in Clients |-> Never]
  /\ heard = [c \in Clients |-> <<>>]
  /\ over = {}

Publish ==
  /\ published' = published + 1
  /\ UNCHANGED <<joined, heard, over>>

Join(c) ==
  /\ joined[c] = Never /\ c \notin over
  /\ joined' = [joined EXCEPT ![c] = published]
  /\ UNCHANGED <<published, heard, over>>

Hear(c) ==
  /\ joined[c] # Never /\ c \notin over
  /\ joined[c] + Len(heard[c]) < published
  /\ heard' = [heard EXCEPT ![c] = Append(@, joined[c] + Len(@) + 1)]
  /\ UNCHANGED <<published, joined, over>>

End(c) ==
  /\ c \notin over
  /\ over' = over \cup {c}
  /\ UNCHANGED <<published, joined, heard>>

Next == Publish \/ \E c \in Clients : Join(c) \/ Hear(c) \/ End(c)

Spec == Init /\ [][Next]_vars
=============================================================================

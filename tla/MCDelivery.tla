----------------------------- MODULE MCDelivery -----------------------------
(* A small instance of Delivery: two tries for the webhook instead of four. *)
EXTENDS Delivery
TwoTries == [webhook |-> 2, ntfy |-> 1]
=============================================================================

---------------------------- MODULE LossyChannel ----------------------------
(***************************************************************************)
(* What one core-to-core frame ring promises: frames are numbered in the   *)
(* order they are sent; some may be lost, but those delivered are          *)
(* delivered once each and in that order.                                  *)
(***************************************************************************)
EXTENDS Integers

VARIABLES
    sent,        \* number of the latest frame handed to the channel
    delivered    \* [num: frames delivered so far, head: number of the latest]

Init == /\ sent \in Nat
        /\ delivered = [num |-> sent, head |-> sent]

Send == /\ sent' = sent + 1
        /\ UNCHANGED delivered

Deliver == /\ \E k \in (delivered.head + 1) .. sent :
                delivered' = [num |-> delivered.num + 1, head |-> k]
           /\ UNCHANGED sent

Next == Send \/ Deliver

Spec == Init /\ [][Next]_<<sent, delivered>>
=============================================================================

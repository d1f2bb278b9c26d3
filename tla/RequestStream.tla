---------------------------- MODULE RequestStream ----------------------------
(***************************************************************************)
(* What the sending half of the CAN relay promises: the requests it takes  *)
(* go out on the bus frame by frame, each one whole, in the order in which *)
(* they were taken, none sent twice.  Only a request that fills all the    *)
(* slots may be lost, and then as a whole.                                 *)
(***************************************************************************)
EXTENDS Naturals, Sequences

CONSTANTS Lengths,    \* lengths of a request, in CAN frames
          Slots       \* slots for the frames of a request

VARIABLES accepted,   \* lengths of the requests taken so far, in order
          out,        \* the last frame given to the bus
          lost        \* requests that are never sent

Init == /\ accepted = << >>
        /\ out = [req |-> 0, id |-> 0, last |-> TRUE]
        /\ lost = {}

Accept == /\ \E l \in Lengths : accepted' = Append(accepted, l)
          /\ UNCHANGED <<out, lost>>

(* The next request in turn, once the last one is out to its last frame.   *)
InTurn(req) == /\ out.last
               /\ req \in out.req+1..Len(accepted)
               /\ out.req+1..req-1 \subseteq lost /\ req \notin lost

Begin(req) == /\ InTurn(req)
              /\ out' = [req |-> req, id |-> 0, last |-> accepted[req] = 1]
              /\ UNCHANGED <<accepted, lost>>

Continue == /\ ~out.last
            /\ out' = [req |-> out.req, id |-> out.id + 1,
                       last |-> out.id + 2 = accepted[out.req]]
            /\ UNCHANGED <<accepted, lost>>

Lose(req) == /\ InTurn(req) /\ accepted[req] = Slots
             /\ lost' = lost \cup {req}
             /\ UNCHANGED <<accepted, out>>

Next == Accept \/ Continue \/ \E req \in 1..Len(accepted) : Begin(req) \/ Lose(req)

vars == <<accepted, out, lost>>
Spec == Init /\ [][Next]_vars
==============================================================================

------------------------------ MODULE MCEnetTx ------------------------------
(* Kinds of frames for the runs of EnetTx. *)
EXTENDS EnetTx

Enet(k, ports) == [type |-> "enet", mask |-> [NoPorts EXCEPT ![k] = ports]]

\* An ARP request goes out of the first port of slot 0, the internal network.
Broadcast == [type |-> "broadcast", mask |-> [NoPorts EXCEPT ![1] = {1}]]

\* Everything that is sent by a socket, one port of one slot.
TypeKinds == {Enet(3, {1}), Enet(4, {1}), Broadcast,
              [type |-> "inet", mask |-> NoPorts], [type |-> "lan", mask |-> NoPorts]}

\* The hypotheses of the theorems of EnetTx_proofs hold of the run's constants.
ASSUME OneSlotEach /\ CarsForPorts
=============================================================================

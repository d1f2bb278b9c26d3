------------------------------ MODULE MCEnetRx ------------------------------
(* The socket of the run of EnetRx and its types. *)
EXTENDS EnetRx, TLC

CONSTANT udp

\* One socket, which takes every frame.
MCAccepts == udp :> {"ip"}
=============================================================================

------------------------------ MODULE MCRelay ------------------------------
(* Relay on a small instance: see the cfg files for the values.            *)
EXTENDS Relay
=============================================================================

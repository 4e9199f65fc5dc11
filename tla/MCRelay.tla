------------------------------ MODULE MCRelay ------------------------------
(* One connection that sends two chunks and is sent two frames. *)
EXTENDS Relay
=============================================================================
